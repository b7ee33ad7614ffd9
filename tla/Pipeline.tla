------------------------------ MODULE Pipeline ------------------------------
(***************************************************************************)
(* Connection::run_pipeline and run_pipeline_decoded of                    *)
(* crates/oracledb/src/lib.rs next to ordinary requests of the same        *)
(* connection.  A pipeline writes every operation and an end message       *)
(* before it reads anything, then reads one response per message.  The     *)
(* recovery phase is armed around each read only; SessionRecovery has the  *)
(* details of the phase machine and of the drain, which is one step here.  *)
(*                                                                         *)
(* A message is <<call, slot>>: the call's number and the position in its  *)
(* batch (End for the end-pipeline message, 1 for an ordinary request).    *)
(***************************************************************************)
EXTENDS Integers, Sequences, FiniteSets, SequencesExt

CONSTANTS
    MaxOps,      \* operations of a pipeline
    MaxCalls,    \* bound: calls made on the connection
    Usage        \* "limit": an operation after the first exceeds a limit
                 \* "dropsend": a call is dropped while it is still writing

ASSUME PipelineAssumption == MaxOps \in Nat \ {0} /\ MaxCalls \in Nat

VARIABLES
    call,       \* the call in progress, or NoCall
    calls,      \* calls started
    phase,      \* "Ready", "InFlight" (armed, or left so by a dropped read), "Dead"
    c2s, s2c,   \* the wire
    aborted,    \* server: calls in abort mode with a failed operation
    applied,    \* server: operations it performed
    txn,        \* server: a transaction is open
    flag,       \* client: txn_in_progress
    returned    \* the calls' decoded results: slot |-> response

wire == <<c2s, s2c>>
db   == <<aborted, applied, txn>>
vars == <<call, calls, phase, wire, db, flag, returned>>

End == MaxOps + 1
Slots == 1..End
Ops == {"dml", "commit"}
NoCall == [st |-> "none"]

\* what the call writes: its operations, and the end message of a pipeline
Messages(c) == IF c.pipelined THEN Append(c.ops, "end") ELSE c.ops

BugExtraResponse(c) == Len(Messages(c)) + 1

\* the responses read before the call is over: one per message
Responses(c) == Len(Messages(c))

Slot(c, k) == IF c.pipelined /\ k = Len(c.ops) + 1 THEN End ELSE k

\* CancelDrainGuard::arm and disarm around the read of one response
Armed    == "InFlight"
Disarmed == "Ready"

-----------------------------------------------------------------------------
Init ==
    /\ call = NoCall /\ calls = 0 /\ phase = "Ready"
    /\ c2s = << >> /\ s2c = << >>
    /\ aborted = {} /\ applied = {} /\ txn = FALSE /\ flag = FALSE
    /\ returned = << >>

BugEnsureClean == UNCHANGED <<phase, wire>>

\* ensure_clean_before_request: a call left armed is broken and drained.  The
\* server drops what it has not started (external).
EnsureClean ==
    IF phase = "InFlight"
    THEN phase' = "Ready" /\ c2s' = << >> /\ s2c' = << >>
    ELSE UNCHANGED <<phase, wire>>

\* run_pipeline or an ordinary request, up to its first byte
Begin(pipelined, abort, ops) ==
    /\ call = NoCall /\ phase # "Dead" /\ calls < MaxCalls
    /\ EnsureClean
    /\ calls' = calls + 1
    /\ call' = [st |-> "send", id |-> calls + 1, pipelined |-> pipelined,
                abort |-> abort, ops |-> ops, sent |-> 0, got |-> << >>]
    /\ UNCHANGED <<db, flag, returned>>

Sent == call.sent + 1

\* one operation, or the end message, is built and written
SendOp ==
    /\ call.st = "send" /\ call.sent < Len(Messages(call))
    /\ c2s' = Append(c2s, [id |-> call.id, slot |-> Slot(call, Sent),
                           op |-> Messages(call)[Sent], abort |-> call.abort])
    /\ call' = [call EXCEPT !.sent = Sent]
    /\ UNCHANGED <<calls, phase, s2c, db, flag, returned>>

\* check_batch_rows, check_binds or the payload builder rejects an operation:
\* run_pipeline returns, and the operations before it have been written
LimitExceeded ==
    /\ call.st = "send" /\ call.sent < Len(call.ops)
    /\ call.sent = 0 \/ "limit" \in Usage
    /\ call' = NoCall
    /\ UNCHANGED <<calls, phase, wire, db, flag, returned>>

\* everything is written; the read of the next response is armed
Arm ==
    /\ \/ call.st = "send" /\ call.sent = Len(Messages(call))
       \/ call.st = "next" /\ Len(call.got) < Responses(call)
    /\ phase' = Armed
    /\ call' = [call EXCEPT !.st = "read"]
    /\ UNCHANGED <<calls, wire, db, flag, returned>>

\* read_data_response_boundary: one response, whoever it was for
Receive ==
    /\ call.st = "read" /\ s2c # << >>
    /\ call' = [call EXCEPT !.st = "next", !.got = Append(@, Head(s2c))]
    /\ s2c' = Tail(s2c)
    /\ phase' = Disarmed
    /\ UNCHANGED <<calls, c2s, db, flag, returned>>

BugRefreshed(got, f) == {Last(got).ok /\ Last(got).txn}

\* the flag follows the last response that was decoded and not an error
Refreshed(got, f) ==
    LET ok == {k \in DOMAIN got : got[k].ok}
    IN  IF ok = {} THEN {f} ELSE {got[k].txn : k \in {i \in ok : \A j \in ok : j <= i}}

\* run_pipeline_decoded: one outcome per request in order; the response of
\* the end message is dropped
Decode ==
    /\ call.st = "next" /\ Len(call.got) = Responses(call)
    /\ LET slots == SubSeq(call.got, 1, Len(call.ops))
       IN  /\ returned' = Append(returned, [id |-> call.id, got |-> slots])
           /\ flag' \in Refreshed(slots, flag)
    /\ call' = NoCall
    /\ UNCHANGED <<calls, phase, wire, db>>

-----------------------------------------------------------------------------
(* Interruptions *)

\* the inactivity timeout of a read: recover_from_call_timeout breaks and
\* drains, or gives the session up
Timeout ==
    /\ call.st = "read"
    /\ \/ phase' = "Ready" /\ c2s' = << >> /\ s2c' = << >>
       \/ phase' = "Dead" /\ UNCHANGED wire
    /\ call' = NoCall
    /\ UNCHANGED <<calls, db, flag, returned>>

\* the read fails or is cancelled, or the future is dropped while reading:
\* the guard is not disarmed
Abandon ==
    /\ call.st = "read"
    /\ call' = NoCall
    /\ UNCHANGED <<calls, phase, wire, db, flag, returned>>

\* the future is dropped while writing: nothing is armed yet
DropInSend ==
    /\ call.st = "send" /\ call.sent < Len(Messages(call))
    /\ call.sent = 0 \/ "dropsend" \in Usage
    /\ call' = NoCall
    /\ UNCHANGED <<calls, phase, wire, db, flag, returned>>

-----------------------------------------------------------------------------
(* The server (external): it answers every message, in both modes, and in  *)
(* abort mode performs nothing after an operation that failed.             *)
Serve(ok) ==
    /\ c2s # << >>
    /\ LET m == Head(c2s)
           done == ok /\ m.id \notin aborted
           t == IF m.op = "end" \/ ~done THEN txn ELSE m.op = "dml"
       IN  /\ m.op = "end" => ok
           /\ txn' = t
           /\ applied' = IF done /\ m.op # "end" THEN applied \cup {<<m.id, m.slot>>} ELSE applied
           /\ aborted' = IF ~ok /\ m.abort THEN aborted \cup {m.id} ELSE aborted
           /\ s2c' = Append(s2c, [id |-> m.id, slot |-> m.slot, ok |-> done, txn |-> t])
    /\ c2s' = Tail(c2s)
    /\ UNCHANGED <<call, calls, phase, flag, returned>>

-----------------------------------------------------------------------------
Client == SendOp \/ Arm \/ Receive \/ Decode

Next ==
    \/ \E n \in 1..MaxOps, abort \in BOOLEAN : \E ops \in [1..n -> Ops] : Begin(TRUE, abort, ops)
    \/ \E op \in Ops : Begin(FALSE, FALSE, <<op>>)
    \/ Client \/ LimitExceeded
    \/ Timeout \/ Abandon \/ DropInSend
    \/ \E ok \in BOOLEAN : Serve(ok)

\* the server serves what it is sent and a call that is polled goes on
Spec ==
    /\ Init /\ [][Next]_vars
    /\ WF_vars(Client) /\ WF_vars(\E ok \in BOOLEAN : Serve(ok))

-----------------------------------------------------------------------------
(* Properties *)

(* The wire, the phase and the call have their types, and a call has never *)
(* read more responses than it wrote messages.                             *)
TypeOK ==
    /\ phase \in {"Ready", "InFlight", "Dead"} /\ calls \in 0..MaxCalls
    /\ {txn, flag} \subseteq BOOLEAN
    /\ \A m \in Range(c2s) : m.id \in 1..MaxCalls /\ m.slot \in Slots
    /\ call # NoCall => /\ call.st \in {"send", "read", "next"}
                        /\ Len(call.got) <= call.sent
                        /\ call.st = "read" => phase = "InFlight"

(* Every slot of every call gets the response of its own operation: nothing *)
(* a broken-off pipeline left on the wire is read by a later call           *)
(* (read_pipeline_response_cancellable).                                    *)
OwnResponse ==
    \A r \in Range(returned) : \A k \in DOMAIN r.got :
        r.got[k].id = r.id /\ r.got[k].slot = k

(* When no call is in progress and the phase is Ready, nothing is on the    *)
(* wire: every response of a pipeline was read, the end message's too, or   *)
(* the phase says there is something to drain.                              *)
CleanWhenReady == call = NoCall /\ phase = "Ready" => c2s = << >> /\ s2c = << >>

(* A call that decoded its last response leaves txn_in_progress as the      *)
(* server has it, also when its last operations failed.                     *)
FlagFollowsServer ==
    [][call # NoCall /\ call' = NoCall /\ returned' # returned
         /\ (\E k \in DOMAIN call.got : call.got[k].ok /\ call.got[k].slot # End)
       => flag' = txn]_vars

(* An operation reported as done was performed, and one the server refused  *)
(* was not: slots are matched by position only, without their tokens.       *)
ReportsApplied ==
    \A r \in Range(returned) : \A k \in DOMAIN r.got :
        r.got[k].ok <=> <<r.id, k>> \in applied

(* Every call ends with a result or an error. *)
EveryCallReturns == call # NoCall ~> call = NoCall

-----------------------------------------------------------------------------
(* Responses, operations and calls stay matched on one wire, whatever was   *)
(* broken off before.                                                       *)
AnswersMatch == TypeOK /\ OwnResponse /\ CleanWhenReady /\ ReportsApplied
=============================================================================
