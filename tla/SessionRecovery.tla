-------------------------- MODULE SessionRecovery --------------------------
(***************************************************************************)
(* How one connection gets its wire back after an abandoned round trip:    *)
(* the five-phase SessionRecovery atomic, the owner's request and read     *)
(* paths with their cancel-on-drop guard, the BREAK/RESET drain, and the   *)
(* CancelHandles that send a BREAK from other threads.                     *)
(*                                                                         *)
(* The owner is whoever holds &mut Connection, so its operations never     *)
(* overlap; a handle shares only the phase atomic and the write half,      *)
(* which an async mutex guards.  Bytes are abstracted to packets stamped   *)
(* with the operation they answer, and time to the fact that a timer may   *)
(* fire.  The server is external: it answers in order and acknowledges a   *)
(* BREAK by a marker, then a RESET by a marker and an ORA-01013 packet, as *)
(* the driver's loopback tests script it.                                  *)
(***************************************************************************)
EXTENDS Naturals, Sequences, FiniteSets

CONSTANTS
    Handles,        \* the CancelHandles cloned from the connection
    MaxOps,         \* bound: operations the owner starts
    MaxCancels,     \* bound: calls of CancelHandle::cancel
    Environments,   \* the sets of outside events considered, one per run
    Nobody, Owner   \* holders of the write mutex besides the handles

(* The outside events: what a caller, a timer or the socket may do.  With  *)
(* "in_send" a caller may act on a future while its request is flushed.    *)
Events == {"drop", "in_send", "drop_handle", "timeout", "close", "cancel", "handle",
           "reconcile", "stream", "ahead", "stall", "garbled", "fatal", "send_error"}

(* The events after which a session may be given up. *)
Faults == {"stall", "garbled", "fatal", "send_error", "close"}

ASSUME SessionAssumption ==
    /\ MaxOps \in Nat /\ MaxCancels \in Nat
    /\ Environments \subseteq SUBSET Events
    /\ Nobody # Owner /\ Nobody \notin Handles /\ Owner \notin Handles

VARIABLES
    env,        \* the events of this behaviour
    phase,      \* SessionRecovery.phase
    dead,       \* Connection.dead
    pc,         \* where the owner is
    then,       \* where it goes after a drain, or after the stream's BREAK
    op,         \* number of the latest operation
    kind,       \* "plain", or "ahead" for fetch_rows_request
    ahead,      \* a speculative page was requested and its response not yet asked for
    stream,     \* OwnedRowStream::into_connection is waiting for the operation
    resp,       \* stamps of the packets the current read has accumulated
    lastErr,    \* the latest operation returned a complete ORA-01013
    wlock,      \* holder of the write mutex
    hpc,        \* where each handle is
    cancels,    \* calls of CancelHandle::cancel so far
    c2s, s2c,   \* packets on the wire
    srv, srvOp  \* the server, and the operation it took last

owner == <<pc, then, op, kind, ahead, stream, resp, lastErr>>
handles == <<hpc, cancels>>
server == <<srv, srvOp>>
vars == <<env, phase, dead, owner, wlock, handles, c2s, s2c, server>>

Phases == {"Ready", "InFlight", "BreakSent", "Draining", "Dead"}

(* Where an operation's future can be suspended: waiting for the write     *)
(* mutex, flushing, or in one of the three waits of the read loop.         *)
Reading == {"read", "reset", "readReset"}
InOperation == {"begin", "send", "flush"} \cup Reading
DrainSteps == {"break", "drainData", "drainMarker", "drainReset", "drainTail"}

Req(n) == [t |-> "req", op |-> n]
Break == [t |-> "break", op |-> 0]
Reset == [t |-> "reset", op |-> 0]
Marker == [t |-> "marker", op |-> 0, end |-> FALSE, err |-> "none"]
Data(n, e, x) == [t |-> "data", op |-> n, end |-> e, err |-> x]

ToServer == {Req(n) : n \in 0..MaxOps} \cup {Break, Reset}
ToClient == {Marker} \cup
            {Data(n, e, x) : n \in 0..MaxOps, e \in BOOLEAN, x \in {"none", "cancel", "fatal"}}

OwnerTypes ==
    /\ phase \in Phases /\ dead \in BOOLEAN
    /\ pc \in {"idle", "mark", "recover"} \cup InOperation \cup DrainSteps
    /\ then \in {"plain", "ahead", "return", "close"} \cup InOperation
    /\ pc = "mark" => then \in InOperation
    /\ op \in 0..MaxOps /\ kind \in {"plain", "ahead"} /\ resp \subseteq 0..MaxOps
    /\ ahead \in BOOLEAN /\ stream \in BOOLEAN /\ lastErr \in BOOLEAN

SharedTypes ==
    /\ env \in Environments
    /\ wlock \in Handles \cup {Nobody, Owner}
    /\ hpc \in [Handles -> {"idle", "wait", "locked", "send", "written"}]
    /\ cancels \in 0..MaxCancels

WireTypes ==
    /\ c2s \in Seq(ToServer) /\ s2c \in Seq(ToClient)
    /\ srv \in {"idle", "busy", "partial", "broken"} /\ srvOp \in 0..MaxOps

(* The type invariant: the owner, what it shares with the handles, the wire. *)
TypeOK == OwnerTypes /\ SharedTypes /\ WireTypes

Init ==
    /\ env \in Environments
    /\ phase = "Ready" /\ dead = FALSE
    /\ pc = "idle" /\ then = "return" /\ op = 0 /\ kind = "plain"
    /\ ahead = FALSE /\ stream = FALSE /\ resp = {} /\ lastErr = FALSE
    /\ wlock = Nobody
    /\ hpc = [h \in Handles |-> "idle"] /\ cancels = 0
    /\ c2s = <<>> /\ s2c = <<>>
    /\ srv = "idle" /\ srvOp = 0

----------------------------------------------------------------------------
(* The phase machine.  Each operation of SessionRecovery is one atomic     *)
(* access, given here as the phase it leaves.                              *)

(* complete_operation: compare-and-exchange InFlight to Ready. *)
CompleteOperation(p) == IF p = "InFlight" THEN "Ready" ELSE p

(* Mutant: a dropped read is taken for a completed one. *)
BugMarkBreakRequired(p) == CompleteOperation(p)

(* mark_break_required: compare-and-exchange InFlight to BreakSent. *)
MarkBreakRequired(p) == IF p = "InFlight" THEN "BreakSent" ELSE p

(* Mutant: the Dead test of mark_break_sent is missing. *)
BugMarkBreakSent(p) == IF p # "Draining" THEN "BreakSent" ELSE p

(* mark_break_sent: Ready and InFlight become BreakSent; Dead is an error. *)
MarkBreakSent(p) == IF p \in {"Ready", "InFlight"} THEN "BreakSent" ELSE p

(* begin_or_adopt_operation succeeds, leaving InFlight. *)
CanAdopt(p) == p \in {"Ready", "InFlight"}

(* begin_pending_drain returns true, leaving Draining. *)
DrainPending(p) == p = "BreakSent"

(* begin_drain_after_break: mark_break_sent, then begin_pending_drain.     *)
(* Between the two a handle can only make the phase Dead.                  *)
CanDrainAfterBreak(p) == DrainPending(MarkBreakSent(p))

(* finish_drain_ready stores Ready whatever the phase was. *)
FinishDrainReady == phase' = "Ready"

(* The owner gives the session up: mark_dead and Connection.dead. *)
OwnerMarkDead == phase' = "Dead" /\ dead' = TRUE

(* CancelHandle::should_send_break_request. *)
ShouldSendBreak(p) == p \in {"Ready", "InFlight"}

----------------------------------------------------------------------------
(* The owner: starting an operation *)

(* The operation hands its result to the caller, or, for a stream being    *)
(* reclaimed, to into_connection, which goes on to drain.                  *)
Returned == IF stream THEN "recover" ELSE "idle"

StartOf(k) == IF k = "ahead" THEN "begin" ELSE "send"

(* Every operation first calls ensure_clean_before_request: an abandoned   *)
(* InFlight becomes BreakSent, and a pending drain is run, always with a   *)
(* BREAK of its own.  A dead session refuses and nothing changes.          *)
Begin(k) ==
    /\ pc = "idle" /\ op < MaxOps
    /\ k = "ahead" => "ahead" \in env
    /\ phase # "Dead"
    /\ op' = op + 1 /\ kind' = k /\ ahead' = FALSE /\ resp' = {} /\ lastErr' = FALSE
    /\ IF DrainPending(MarkBreakRequired(phase))
       THEN phase' = "Draining" /\ pc' = "break" /\ then' = k
       ELSE pc' = StartOf(k) /\ UNCHANGED <<phase, then>>
    /\ UNCHANGED <<env, dead, stream, wlock, handles, c2s, s2c, server>>

(* fetch_rows_request calls begin_operation before it writes; a handle may *)
(* have changed the phase since ensure_clean_before_request.               *)
BeginOperation ==
    /\ pc = "begin"
    /\ IF phase = "Ready"
       THEN phase' = "InFlight" /\ pc' = "send"
       ELSE pc' = "idle" /\ UNCHANGED phase
    /\ UNCHANGED <<env, dead, then, op, kind, ahead, stream, resp, lastErr, wlock, handles,
                   c2s, s2c, server>>

(* send_data_packet: the request is written under the write mutex, which   *)
(* stays locked until the flush ends.                                      *)
SendRequest ==
    /\ pc = "send" /\ wlock = Nobody
    /\ wlock' = Owner /\ c2s' = Append(c2s, Req(op)) /\ pc' = "flush"
    /\ UNCHANGED <<env, phase, dead, then, op, kind, ahead, stream, resp, lastErr, handles,
                   s2c, server>>

(* The read arms CancelDrainGuard through begin_or_adopt_operation; when a *)
(* BREAK is already recorded the operation fails with its request sent.    *)
Arm ==
    IF CanAdopt(phase)
    THEN phase' = "InFlight" /\ pc' = "read"
    ELSE pc' = Returned /\ UNCHANGED phase

Flushed ==
    /\ pc = "flush" /\ wlock' = Nobody
    /\ IF kind = "ahead"
       THEN pc' = "idle" /\ ahead' = TRUE /\ UNCHANGED phase
       ELSE Arm /\ UNCHANGED ahead
    /\ UNCHANGED <<env, dead, then, op, kind, stream, resp, lastErr, handles, c2s, s2c,
                   server>>

(* fetch_rows_ref_response reads the page fetch_rows_request asked for. *)
ReadAhead ==
    /\ pc = "idle" /\ ahead /\ ahead' = FALSE /\ kind' = "plain"
    /\ Arm
    /\ UNCHANGED <<env, dead, then, op, stream, resp, lastErr, wlock, handles, c2s, s2c, server>>

----------------------------------------------------------------------------
(* The owner: reading a response *)

Incoming(t) == s2c # <<>> /\ Head(s2c).t = t

(* A DATA packet joins the response; the last one ends the read, disarms   *)
(* the guard and is parsed, where a session-dead ORA code kills.           *)
ReadData ==
    /\ pc \in {"read", "readReset"} /\ Incoming("data")
    /\ s2c' = Tail(s2c) /\ resp' = resp \cup {Head(s2c).op}
    /\ IF ~Head(s2c).end
       THEN pc' = "read" /\ UNCHANGED <<phase, dead, lastErr>>
       ELSE /\ pc' = Returned
            /\ lastErr' = (Head(s2c).err = "cancel")
            /\ IF Head(s2c).err = "fatal"
               THEN OwnerMarkDead
               ELSE phase' = CompleteOperation(phase) /\ UNCHANGED dead
    /\ UNCHANGED <<env, then, op, kind, ahead, stream, wlock, handles, c2s, server>>

(* Mutant: markers are skipped as they are inside a pipeline. *)
BugReadMarker ==
    /\ pc \in {"read", "readReset"} /\ Incoming("marker")
    /\ s2c' = Tail(s2c)
    /\ UNCHANGED <<env, phase, dead, owner, wlock, handles, c2s, server>>

(* A marker inside a response starts the RESET handshake; the markers that *)
(* follow it are skipped up to the next DATA packet.                       *)
ReadMarker ==
    /\ pc \in {"read", "readReset"} /\ Incoming("marker")
    /\ s2c' = Tail(s2c)
    /\ pc' = IF pc = "read" THEN "reset" ELSE pc
    /\ UNCHANGED <<env, phase, dead, then, op, kind, ahead, stream, resp, lastErr, wlock,
                   handles, c2s, server>>

SendReset ==
    /\ pc = "reset" /\ wlock = Nobody
    /\ c2s' = Append(c2s, Reset) /\ pc' = "readReset"
    /\ UNCHANGED <<env, phase, dead, then, op, kind, ahead, stream, resp, lastErr, wlock,
                   handles, s2c, server>>

(* note_post_sync_result: an undecodable packet leaves the framing unknown. *)
ReadGarbled ==
    /\ "garbled" \in env /\ pc \in {"read", "readReset"} /\ Incoming("data")
    /\ phase' = "Dead" /\ pc' = Returned
    /\ UNCHANGED <<env, dead, then, op, kind, ahead, stream, resp, lastErr, wlock, handles,
                   c2s, s2c, server>>

----------------------------------------------------------------------------
(* The owner: abandoning an operation *)

(* Mutant: the guard of the write half outlives the future that took it. *)
BugUnlock == UNCHANGED wlock

(* The owner's future ends, and the guard it may hold is dropped with it. *)
Unlock == wlock' = IF wlock = Owner THEN Nobody ELSE wlock

(* What dropping the future does to the phase: an armed guard records that *)
(* the next operation must break; before the read no guard exists.         *)
PhaseAfterDrop == IF pc \in Reading THEN MarkBreakRequired(phase) ELSE phase

(* A read future lost a select!, its Cx was cancelled or its socket read   *)
(* failed: the armed guard is dropped.  A shutdown cancellation kills.     *)
AbandonRead ==
    /\ "drop" \in env /\ pc \in Reading
    /\ \/ phase' = PhaseAfterDrop /\ UNCHANGED dead
       \/ "close" \in env /\ OwnerMarkDead
    /\ pc' = Returned
    /\ UNCHANGED <<env, then, op, kind, ahead, stream, resp, lastErr, wlock, handles, c2s,
                   s2c, server>>

(* Where a future that has not started to read is ended from outside:      *)
(* waiting for the mutex with no byte sent, or flushing with the request   *)
(* on the wire.  fetch_rows_request is InFlight by then and may always be  *)
(* ended in its flush.                                                     *)
Sending == {"send"} \cup (IF "in_send" \in env \/ kind = "ahead" THEN {"flush"} ELSE {})

(* The future is dropped before its read.  A cancelled wait for the mutex  *)
(* is an error like any other to fetch_rows_request, which gives the       *)
(* session up.                                                             *)
AbandonSend ==
    /\ "drop" \in env /\ pc \in Sending
    /\ \/ phase' = PhaseAfterDrop /\ UNCHANGED dead
       \/ kind = "ahead" /\ wlock \in Handles /\ OwnerMarkDead
    /\ Unlock /\ pc' = Returned
    /\ UNCHANGED <<env, then, op, kind, ahead, stream, resp, lastErr, handles, c2s, s2c,
                   server>>

(* The write or its flush fails: fetch_rows_request gives the session up,  *)
(* every other operation only returns the error.                           *)
SendFails ==
    /\ "send_error" \in env /\ pc \in Sending
    /\ Unlock /\ pc' = Returned
    /\ IF kind = "ahead" THEN OwnerMarkDead ELSE UNCHANGED <<phase, dead>>
    /\ UNCHANGED <<env, then, op, kind, ahead, stream, resp, lastErr, handles, c2s, s2c,
                   server>>

(* begin_drain_after_break, then the wire work that starts at step s; on a *)
(* dead session the call fails and the owner goes back.                    *)
StartDrain(p, s, next, back) ==
    IF CanDrainAfterBreak(p)
    THEN phase' = "Draining" /\ pc' = s /\ then' = next
    ELSE phase' = p /\ pc' = back /\ UNCHANGED then

(* recover_from_call_timeout: the deadline drops the operation's future,   *)
(* then breaks and drains; a shutdown reason discards the session after.   *)
CallTimeout ==
    /\ "timeout" \in env /\ pc \in InOperation
    /\ Unlock
    /\ \E next \in {"return"} \cup (IF "close" \in env THEN {"close"} ELSE {}) :
           StartDrain(PhaseAfterDrop, "break", next, Returned)
    /\ UNCHANGED <<env, dead, op, kind, ahead, stream, resp, lastErr, handles, c2s, s2c,
                   server>>

(* reject_before_operation_start on a shutdown reason: no BREAK is sent. *)
RejectClosed ==
    /\ "close" \in env /\ pc = "idle" /\ phase # "Dead"
    /\ OwnerMarkDead
    /\ UNCHANGED <<env, owner, wlock, handles, c2s, s2c, server>>

(* Connection::cancel breaks and drains whatever the phase is. *)
OwnerCancel ==
    /\ "cancel" \in env /\ pc = "idle" /\ CanDrainAfterBreak(phase)
    /\ StartDrain(phase, "break", "return", "idle")
    /\ ahead' = FALSE /\ lastErr' = FALSE
    /\ UNCHANGED <<env, dead, op, kind, stream, resp, wlock, handles, c2s, s2c, server>>

(* The Python shim got a complete ORA-01013: only the handle's BreakSent   *)
(* is left to reconcile.                                                   *)
ReconcileCancel ==
    /\ "reconcile" \in env /\ pc = "idle" /\ lastErr /\ phase = "BreakSent"
    /\ lastErr' = FALSE /\ FinishDrainReady
    /\ UNCHANGED <<env, dead, pc, then, op, kind, ahead, stream, resp, wlock, handles, c2s,
                   s2c, server>>

----------------------------------------------------------------------------
(* The owner: reclaiming a row stream while its fetch is pending *)

(* into_connection: cancel_for_recovery sends a BREAK unless one is        *)
(* recorded; it only tries the write mutex and gives up when it is held.   *)
StreamBreak ==
    /\ "stream" \in env /\ pc \in Sending \cup Reading /\ kind = "plain" /\ ~stream
    /\ phase # "Dead"
    /\ IF ~ShouldSendBreak(phase)
       THEN stream' = TRUE /\ UNCHANGED <<phase, pc, then, wlock, c2s>>
       ELSE IF wlock = Nobody
       THEN /\ c2s' = Append(c2s, Break) /\ then' = pc /\ pc' = "mark" /\ stream' = TRUE
            /\ UNCHANGED <<phase, wlock>>
       ELSE phase' = "Dead" /\ pc' = "idle" /\ Unlock /\ UNCHANGED <<then, stream, c2s>>
    /\ UNCHANGED <<env, dead, op, kind, ahead, resp, lastErr, handles, s2c, server>>

(* ... records it, and lets the fetch run on. *)
StreamMark ==
    /\ pc = "mark"
    /\ phase' = MarkBreakSent(phase) /\ pc' = then /\ then' = "return"
    /\ UNCHANGED <<env, dead, op, kind, ahead, stream, resp, lastErr, wlock, handles, c2s,
                   s2c, server>>

(* The fetch returned the connection: drain_cancel_response, without BREAK. *)
StreamDrain ==
    /\ pc = "recover" /\ stream' = FALSE
    /\ StartDrain(phase, "drainData", "return", "idle")
    /\ UNCHANGED <<env, dead, op, kind, ahead, resp, lastErr, wlock, handles, c2s, s2c,
                   server>>

----------------------------------------------------------------------------
(* The owner: the drain.  It runs on a thread of its own that the owner    *)
(* joins, so nothing abandons it but its five-second bound.                *)

(* Mutant: a failed drain returns its error and forgets mark_dead. *)
BugDrainFails == pc' = Returned /\ UNCHANGED <<phase, dead>>

DrainFails == OwnerMarkDead /\ pc' = Returned

(* A marker is sent with try_lock: a handle holding the mutex fails it. *)
DrainSend(step, packet, next) ==
    /\ pc = step
    /\ IF wlock = Nobody
       THEN c2s' = Append(c2s, packet) /\ pc' = next /\ UNCHANGED <<phase, dead>>
       ELSE DrainFails /\ UNCHANGED c2s
    /\ UNCHANGED <<env, then, op, kind, ahead, stream, resp, lastErr, wlock, handles, s2c,
                   server>>

SendBreak == DrainSend("break", Break, "drainData")

(* Mutant: the drain answers the break marker with a second BREAK. *)
BugDrainSendReset == DrainSend("drainReset", Break, "drainMarker")

DrainSendReset == DrainSend("drainReset", Reset, "drainMarker")

(* The wire is clean: the session is Ready again, and the owner goes on    *)
(* with the operation that wanted it, or reports the cancellation.         *)
Drained ==
    /\ IF then = "close" THEN OwnerMarkDead ELSE FinishDrainReady /\ UNCHANGED dead
    /\ pc' = IF then \in {"plain", "ahead"} THEN StartOf(then) ELSE Returned

(* Mutant: the drain stops at the first end of response. *)
BugDrainRead ==
    /\ pc \in {"drainData", "drainMarker", "drainTail"} /\ s2c # <<>>
    /\ s2c' = Tail(s2c)
    /\ IF Incoming("marker")
       THEN pc' = (IF pc = "drainMarker" THEN pc ELSE "drainReset") /\ UNCHANGED <<phase, dead>>
       ELSE IF Head(s2c).end THEN Drained ELSE UNCHANGED <<pc, phase, dead>>
    /\ UNCHANGED <<env, then, op, kind, ahead, stream, resp, lastErr, wlock, handles, c2s,
                   server>>

(* Phase A discards DATA up to the first marker; phase B skips markers up  *)
(* to the first DATA packet; phase C reads on to the end of that response. *)
DrainRead ==
    /\ pc \in {"drainData", "drainMarker", "drainTail"} /\ s2c # <<>>
    /\ s2c' = Tail(s2c)
    /\ IF Incoming("marker")
       THEN /\ pc' = IF pc = "drainMarker" THEN pc ELSE "drainReset"
            /\ UNCHANGED <<phase, dead>>
       ELSE IF pc = "drainData"
       THEN UNCHANGED <<pc, phase, dead>>
       ELSE IF Head(s2c).end
       THEN Drained
       ELSE pc' = "drainTail" /\ UNCHANGED <<phase, dead>>
    /\ UNCHANGED <<env, then, op, kind, ahead, stream, resp, lastErr, wlock, handles, c2s,
                   server>>

(* Nothing is on the wire and the server has nothing left to say. *)
WireQuiet == c2s = <<>> /\ s2c = <<>> /\ srv \in {"idle", "broken"}

(* The bound fires when the server stalls or has nothing left to send. *)
DrainTimeout ==
    /\ pc \in DrainSteps /\ ("stall" \in env \/ (WireQuiet /\ pc \notin {"break", "drainReset"}))
    /\ DrainFails
    /\ UNCHANGED <<env, then, op, kind, ahead, stream, resp, lastErr, wlock, handles, c2s,
                   s2c, server>>

----------------------------------------------------------------------------
(* CancelHandle::cancel on another thread *)

Step(h, from, to) == hpc[h] = from /\ hpc' = [hpc EXCEPT ![h] = to]

HandleCancel(h) ==
    /\ "handle" \in env /\ cancels < MaxCancels
    /\ ShouldSendBreak(phase) /\ Step(h, "idle", "wait")
    /\ cancels' = cancels + 1
    /\ UNCHANGED <<env, phase, dead, owner, wlock, c2s, s2c, server>>

HandleLock(h) ==
    /\ wlock = Nobody /\ Step(h, "wait", "locked") /\ wlock' = h
    /\ UNCHANGED <<env, phase, dead, owner, cancels, c2s, s2c, server>>

(* The phase is checked again under the mutex. *)
HandleRecheck(h) ==
    /\ IF ShouldSendBreak(phase)
       THEN Step(h, "locked", "send") /\ UNCHANGED wlock
       ELSE Step(h, "locked", "idle") /\ wlock' = Nobody
    /\ UNCHANGED <<env, phase, dead, owner, cancels, c2s, s2c, server>>

HandleWrite(h) ==
    /\ Step(h, "send", "written") /\ c2s' = Append(c2s, Break)
    /\ UNCHANGED <<env, phase, dead, owner, wlock, cancels, s2c, server>>

(* mark_break_sent runs before the guard is dropped. *)
HandleMark(h) ==
    /\ Step(h, "written", "idle") /\ wlock' = Nobody
    /\ phase' = MarkBreakSent(phase)
    /\ UNCHANGED <<env, dead, owner, cancels, c2s, s2c, server>>

HandleSendFails(h) ==
    /\ "send_error" \in env
    /\ Step(h, "send", "idle") /\ wlock' = Nobody /\ phase' = "Dead"
    /\ UNCHANGED <<env, dead, owner, cancels, c2s, s2c, server>>

(* The cancel future itself is dropped with its BREAK already written. *)
HandleDropped(h) ==
    /\ "drop_handle" \in env
    /\ Step(h, "written", "idle") /\ wlock' = Nobody
    /\ UNCHANGED <<env, phase, dead, owner, cancels, c2s, s2c, server>>

----------------------------------------------------------------------------
(* The server (external) *)

Receive(t) == c2s # <<>> /\ Head(c2s).t = t /\ c2s' = Tail(c2s)

(* A request waits while another runs; one that follows an unacknowledged  *)
(* BREAK is discarded.                                                     *)
ServerTakesRequest ==
    /\ srv \in {"idle", "broken"} /\ Receive("req")
    /\ IF srv = "idle" THEN srv' = "busy" /\ srvOp' = Head(c2s).op ELSE UNCHANGED server
    /\ UNCHANGED <<env, phase, dead, owner, wlock, handles, s2c>>

ServerSendsPart ==
    /\ srv = "busy" /\ srv' = "partial"
    /\ s2c' = Append(s2c, Data(srvOp, FALSE, "none"))
    /\ UNCHANGED <<env, phase, dead, owner, wlock, handles, c2s, srvOp>>

ServerReplies ==
    /\ srv \in {"busy", "partial"} /\ srv' = "idle"
    /\ \E x \in {"none"} \cup (IF "fatal" \in env THEN {"fatal"} ELSE {}) :
           s2c' = Append(s2c, Data(srvOp, TRUE, x))
    /\ UNCHANGED <<env, phase, dead, owner, wlock, handles, c2s, srvOp>>

ServerTakesBreak ==
    /\ Receive("break") /\ srv' = "broken" /\ s2c' = Append(s2c, Marker)
    /\ UNCHANGED <<env, phase, dead, owner, wlock, handles, srvOp>>

ServerTakesReset ==
    /\ Receive("reset") /\ srv' = "idle"
    /\ s2c' = s2c \o <<Marker, Data(srvOp, TRUE, "cancel")>>
    /\ UNCHANGED <<env, phase, dead, owner, wlock, handles, srvOp>>

ServerStep == \/ ServerTakesRequest \/ ServerReplies \/ ServerTakesBreak \/ ServerTakesReset

----------------------------------------------------------------------------
(* The steps the runtime takes on its own, once the connection is in use. *)
OwnerStep ==
    \/ BeginOperation \/ SendRequest \/ Flushed \/ ReadData \/ ReadMarker \/ SendReset
    \/ StreamMark \/ StreamDrain \/ SendBreak \/ DrainSendReset \/ DrainRead \/ DrainTimeout

HandleStep(h) == HandleLock(h) \/ HandleRecheck(h) \/ HandleWrite(h) \/ HandleMark(h)

CallerStep ==
    \/ \E k \in {"plain", "ahead"} : Begin(k)
    \/ ReadAhead \/ ReadGarbled \/ AbandonRead \/ AbandonSend \/ SendFails \/ CallTimeout
    \/ RejectClosed \/ OwnerCancel \/ ReconcileCancel \/ StreamBreak
    \/ \E h \in Handles : HandleCancel(h) \/ HandleSendFails(h) \/ HandleDropped(h)

Next ==
    \/ OwnerStep
    \/ CallerStep
    \/ \E h \in Handles : HandleStep(h)
    \/ ServerStep \/ ServerSendsPart

Spec == Init /\ [][Next]_vars

(* The owner's task and every handle's thread keep running, the mutex is   *)
(* granted, the drain's clock advances, and the server answers.            *)
FairSpec ==
    /\ Spec
    /\ WF_vars(OwnerStep) /\ WF_vars(ServerStep)
    /\ \A h \in Handles : WF_vars(HandleStep(h))

----------------------------------------------------------------------------
(* Properties *)

(* CancelDrainGuard's promise that a cancelled fetch never poisons the     *)
(* stream for the next one: a read only ever accumulates packets that      *)
(* answer the operation it was started for, never the rows or the          *)
(* ORA-01013 of an earlier one.                                            *)
OwnResponse == resp \subseteq {op}

(* break_and_drain_wire's promise that on success the stream is clean: when *)
(* the session is Ready, no operation runs and no handle is between its     *)
(* BREAK and its mark, nothing is on the wire in either direction and the   *)
(* server is at a request boundary.                                         *)
CleanWhenReady ==
    (phase = "Ready" /\ pc = "idle" /\ \A h \in Handles : hpc[h] # "written")
        => c2s = <<>> /\ s2c = <<>> /\ srv = "idle"

(* Draining is never left behind: the phase in which every operation is     *)
(* refused lasts only while the owner itself runs the drain.                *)
DrainingIsOwned == phase = "Draining" => pc \in DrainSteps

(* The write mutex is held exactly while its holder writes: by the owner    *)
(* from its request to the end of the flush, by a handle from its lock to   *)
(* its mark.  However a future is dropped, timed out or failed, it never    *)
(* keeps the mutex that every later request and BREAK needs.                *)
WriteMutexHeld ==
    /\ wlock = Owner <=> pc = "flush"
    /\ \A h \in Handles : wlock = h <=> hpc[h] \in {"locked", "send", "written"}

(* A session the owner gave up (fail_closed, a failed drain, a session-dead *)
(* ORA code) is never revived, and one that a handle or an undecodable      *)
(* packet marked Dead stays so outside a drain: no operation, BREAK or      *)
(* reconciliation stores over Dead.  Only finish_drain_ready can, which is  *)
(* what DeadIsFinal is about.                                               *)
DeadIsKept ==
    [][/\ dead => dead' /\ phase' = "Dead"
       /\ phase = "Dead" /\ pc \notin DrainSteps => phase' = "Dead"]_vars

(* "The connection is dead and must be discarded" (ConnectionClosed): once  *)
(* is_dead answers true, which the pool asks before it takes a connection   *)
(* back, it never answers false again.  The code does not keep this:        *)
(* finish_drain_ready stores Ready over the Dead of a handle whose BREAK    *)
(* could not be written.                                                    *)
DeadIsFinal == [][dead \/ phase = "Dead" => dead' \/ phase' = "Dead"]_vars

(* Timeout and Cancel leave the session alive: as long as the server        *)
(* answers, no packet is garbled and the runtime is not shutting down, a    *)
(* session is never given up.                                               *)
SurvivesCancel == phase = "Dead" => env \cap Faults # {}

(* Every operation, cancelled or not, returns to its caller: no read waits  *)
(* for an answer the server was told not to send, no drain outlives its     *)
(* bound and no one waits for the write mutex for ever.                     *)
OperationReturns == pc # "idle" ~> pc = "idle"
============================================================================
