--------------------------- MODULE PipelineProofs ---------------------------
(***************************************************************************)
(* Proofs about Pipeline: on a connection whose calls are never broken off *)
(* between two writes, whatever the number of operations and calls, every  *)
(* slot gets the response of its own operation and txn_in_progress is the  *)
(* server's.                                                               *)
(***************************************************************************)
EXTENDS Pipeline, TLAPS

Requests == [id : 1..MaxCalls, slot : Slots, op : Ops \cup {"end"}, abort : BOOLEAN]
Replies  == [id : 1..MaxCalls, slot : Slots, ok : BOOLEAN, txn : BOOLEAN]
Results  == [id : 1..MaxCalls, got : Seq(Replies)]
Calls    == [st : {"send", "read", "next"}, id : 1..MaxCalls, pipelined : BOOLEAN,
             abort : BOOLEAN, ops : Seq(Ops), sent : Nat, got : Seq(Replies)]

\* the replies the server has sent to the call, those read and those on the wire
Served(c, w)     == Len(c.got) + Len(w)
ReplyAt(c, w, k) == IF k <= Len(c.got) THEN c.got[k] ELSE w[k - Len(c.got)]

-----------------------------------------------------------------------------
(* The inductive invariant *)

Types ==
    /\ phase \in {"Ready", "InFlight", "Dead"} /\ calls \in 0..MaxCalls
    /\ txn \in BOOLEAN /\ flag \in BOOLEAN
    /\ c2s \in Seq(Requests) /\ s2c \in Seq(Replies) /\ returned \in Seq(Results)
    /\ applied \subseteq (1..calls) \X Nat /\ \A k \in 1..Len(c2s) : c2s[k].id <= calls
    /\ call = NoCall \/ (call \in Calls /\ Len(call.ops) \in 1..MaxOps /\ call.id = calls)

(* The phase tells where the call is; everything is written before the      *)
(* first response is read.                                                  *)
Stages(c) ==
    /\ c.st = "send" => phase = "Ready" /\ c.got = << >> /\ c.sent <= Len(Messages(c))
    /\ c.st # "send" => c.sent = Len(Messages(c))
    /\ c.st = "read" => phase = "InFlight"
    /\ c.st = "next" => phase = "Ready"

(* The messages of the call that are not answered yet, in order. *)
Pending(c) ==
    /\ Served(c, s2c) + Len(c2s) = c.sent
    /\ \A k \in 1..Len(c2s) :
        /\ c2s[k].id = c.id
        /\ c2s[k].slot = Slot(c, Served(c, s2c) + k)
        /\ c2s[k].op = Messages(c)[Served(c, s2c) + k]

(* The k-th reply is to the k-th message, and says whether the server       *)
(* performed it; nothing else of the call was performed.                    *)
Answers(c) ==
    /\ \A k \in 1..Served(c, s2c) :
        /\ ReplyAt(c, s2c, k).id = c.id
        /\ ReplyAt(c, s2c, k).slot = Slot(c, k)
        /\ k <= Len(c.ops) => (ReplyAt(c, s2c, k).ok <=> <<c.id, k>> \in applied)
    /\ \A k \in Nat : <<c.id, k>> \in applied => k <= Served(c, s2c)

(* The last operation that was performed reported the transaction's state.  *)
LastDone(c, w, k) ==
    /\ k <= Len(c.ops) /\ ReplyAt(c, w, k).ok
    /\ \A j \in 1..Served(c, w) : j > k /\ j <= Len(c.ops) => ~ReplyAt(c, w, j).ok
LastReport(c) ==
    \A k \in 1..Served(c, s2c) : LastDone(c, s2c, k) => ReplyAt(c, s2c, k).txn = txn

(* What is on the wire belongs to no call that has returned. *)
NotOfReturned ==
    \A i \in 1..Len(returned) :
        /\ returned[i].id <= calls
        /\ call # NoCall => returned[i].id # call.id
        /\ \A k \in 1..Len(c2s) : c2s[k].id # returned[i].id

(* What was returned is right, and stays so. *)
ReturnedRight ==
    \A i \in 1..Len(returned) : \A k \in 1..Len(returned[i].got) :
        /\ returned[i].got[k].id = returned[i].id /\ returned[i].got[k].slot = k
        /\ returned[i].got[k].ok <=> <<returned[i].id, k>> \in applied

PipelineInv ==
    /\ Types /\ CleanWhenReady /\ NotOfReturned /\ ReturnedRight
    /\ call # NoCall => Stages(call) /\ Pending(call) /\ Answers(call) /\ LastReport(call)

-----------------------------------------------------------------------------
(* Facts about calls and replies *)

(* The messages of a call: its operations at the slots of their positions, *)
(* then the end message of a pipeline.                                     *)
LEMMA MessagesFacts ==
    ASSUME NEW c \in Calls, Len(c.ops) \in 1..MaxOps
    PROVE  /\ Len(Messages(c)) \in Len(c.ops)..(Len(c.ops) + 1)
           /\ \A k \in 1..Len(Messages(c)) :
                /\ Messages(c)[k] \in Ops \cup {"end"} /\ Slot(c, k) \in Slots
                /\ Messages(c)[k] # "end" <=> k <= Len(c.ops)
           /\ \A k \in 1..Len(c.ops) : Slot(c, k) = k
<1> USE PipelineAssumption
<1>1. c.ops \in Seq(Ops) /\ c.pipelined \in BOOLEAN /\ Len(c.ops) \in Nat
  BY DEF Calls
<1>2. CASE c.pipelined
  <2>1. Messages(c) = Append(c.ops, "end")
    BY <1>2 DEF Messages
  <2>2. Len(Messages(c)) = Len(c.ops) + 1
    BY <1>1, <2>1
  <2>3. \A k \in 1..Len(c.ops) : Messages(c)[k] = c.ops[k] /\ c.ops[k] \in Ops
    BY <1>1, <2>1
  <2>4. Messages(c)[Len(c.ops) + 1] = "end"
    BY <1>1, <2>1
  <2> QED
    BY <1>1, <1>2, <2>2, <2>3, <2>4 DEF Slot, Slots, End, Ops
<1>3. CASE ~c.pipelined
  <2>1. Messages(c) = c.ops
    BY <1>3 DEF Messages
  <2> QED
    BY <1>1, <1>3, <2>1 DEF Slot, Slots, End, Ops
<1> QED
  BY <1>1, <1>2, <1>3

(* Without a call in progress nothing is said of one. *)
LEMMA NoCallFacts == ASSUME Types PROVE call # NoCall <=> call \in Calls
<1>1. NoCall \notin Calls
  <2>1. NoCall.st = "none"
    BY DEF NoCall
  <2>2. \A c \in Calls : c.st # "none"
    BY DEF Calls
  <2> QED
    BY <2>1, <2>2
<1> QED
  BY <1>1 DEF Types

(* Progress of a call keeps its type. *)
LEMMA CallUpdates ==
    ASSUME NEW c \in Calls
    PROVE  /\ \A n \in Nat : [c EXCEPT !.sent = n] \in Calls
           /\ [c EXCEPT !.st = "read"] \in Calls
           /\ \A r \in Replies : [c EXCEPT !.st = "next", !.got = Append(c.got, r)] \in Calls
<1>1. \A n \in Nat : [c EXCEPT !.sent = n] \in Calls
  BY DEF Calls
<1>2. [c EXCEPT !.st = "read"] \in Calls
  BY DEF Calls
<1>3. \A r \in Replies : [c EXCEPT !.st = "next", !.got = Append(c.got, r)] \in Calls
  <2>1. \A r \in Replies : Append(c.got, r) \in Seq(Replies)
    BY DEF Calls
  <2> QED
    BY <2>1 DEF Calls
<1> QED
  BY <1>1, <1>2, <1>3

(* What was returned is a list of results. *)
LEMMA ResultsFacts ==
    ASSUME Types
    PROVE  \A i \in 1..Len(returned) : /\ returned[i] \in Results
                                       /\ returned[i].id \in 1..MaxCalls
                                       /\ returned[i].got \in Seq(Replies)
<1>1. \A i \in 1..Len(returned) : returned[i] \in Results
  BY DEF Types
<1> QED
  BY <1>1 DEF Results

(* An action of the call finds one in progress. *)
LEMMA InProgress ==
    ASSUME PipelineInv, call.st \in {"send", "read", "next"}
    PROVE  /\ call # NoCall /\ call \in Calls /\ Len(call.ops) \in 1..MaxOps
           /\ call.id = calls
           /\ Stages(call) /\ Pending(call) /\ Answers(call) /\ LastReport(call)
<1>1. call # NoCall
  BY DEF NoCall
<1> QED
  BY <1>1, NoCallFacts DEF PipelineInv, Types

(* The properties follow from the invariant. *)
LEMMA InvImplies == PipelineInv => AnswersMatch
<1> SUFFICES ASSUME PipelineInv PROVE AnswersMatch
  OBVIOUS
<1> USE DEF PipelineInv
<1>1. TypeOK
  <2>1. \A m \in Range(c2s) : m.id \in 1..MaxCalls /\ m.slot \in Slots
    <3>1. \A k \in DOMAIN c2s : c2s[k] \in Requests
      BY DEF Types
    <3> QED
      BY <3>1 DEF Range, Requests
  <2>2. call # NoCall => /\ call.st \in {"send", "read", "next"}
                         /\ Len(call.got) <= call.sent
                         /\ call.st = "read" => phase = "InFlight"
    <3> SUFFICES ASSUME call # NoCall PROVE
                         /\ call.st \in {"send", "read", "next"}
                         /\ Len(call.got) <= call.sent
                         /\ call.st = "read" => phase = "InFlight"
      OBVIOUS
    <3>1. call \in Calls
      BY NoCallFacts
    <3>2. Len(call.got) \in Nat /\ Len(s2c) \in Nat /\ Len(c2s) \in Nat
      BY <3>1 DEF Types, Calls
    <3>3. Len(call.got) + Len(s2c) + Len(c2s) = call.sent
      BY DEF Pending, Served
    <3> QED
      BY <3>1, <3>2, <3>3 DEF Stages, Calls
  <2> QED
    BY <2>1, <2>2 DEF Types, TypeOK
<1>2. OwnResponse /\ ReportsApplied
  <2>1. ASSUME NEW r \in Range(returned), NEW k \in DOMAIN r.got
        PROVE  /\ r.got[k].id = r.id /\ r.got[k].slot = k
               /\ r.got[k].ok <=> <<r.id, k>> \in applied
    <3>1. PICK i \in 1..Len(returned) : r = returned[i]
      BY DEF Range, Types
    <3>2. returned[i] \in Results
      BY DEF Types
    <3>3. k \in 1..Len(returned[i].got)
      BY <3>1, <3>2 DEF Results
    <3> QED
      BY <3>1, <3>3 DEF ReturnedRight
  <2> QED
    BY <2>1 DEF OwnResponse, ReportsApplied
<1> QED
  BY <1>1, <1>2 DEF AnswersMatch

-----------------------------------------------------------------------------
(* One lemma per action *)

(* A fresh connection has a clean wire. *)
LEMMA InitInv == Init => PipelineInv
<1> SUFFICES ASSUME Init PROVE PipelineInv
  OBVIOUS
<1>1. Types
  <2>1. txn \in BOOLEAN /\ flag \in BOOLEAN /\ applied \subseteq (1..calls) \X Nat
    BY Zenon DEF Init
  <2> QED
    BY <2>1, PipelineAssumption DEF Init, Types
<1>2. CleanWhenReady /\ NotOfReturned /\ ReturnedRight
  BY DEF Init, CleanWhenReady, NotOfReturned, ReturnedRight
<1> QED
  BY <1>1, <1>2 DEF Init, PipelineInv

(* A call begins on a clean wire with an id of its own. *)
LEMMA BeginInv ==
    ASSUME PipelineInv, NEW p \in BOOLEAN, NEW a \in BOOLEAN, NEW ops \in Seq(Ops),
           Len(ops) \in 1..MaxOps, Begin(p, a, ops)
    PROVE  PipelineInv'
<1> USE PipelineAssumption DEF PipelineInv
<1>1. /\ call = NoCall /\ calls \in Nat /\ calls < MaxCalls /\ calls' = calls + 1
      /\ phase' = "Ready" /\ c2s' = << >> /\ s2c' = << >>
      /\ UNCHANGED <<aborted, applied, txn, flag, returned>>
  BY DEF Begin, EnsureClean, CleanWhenReady, Types, db, wire
<1>2. call' = [st |-> "send", id |-> calls + 1, pipelined |-> p,
               abort |-> a, ops |-> ops, sent |-> 0, got |-> << >>]
  BY DEF Begin
<1>3. call' \in Calls /\ Len(call'.ops) \in 1..MaxOps /\ call'.id = calls'
  BY <1>1, <1>2 DEF Calls
<1>4. Types'
  <2>1. applied' \subseteq (1..calls') \X Nat
    BY <1>1 DEF Types
  <2> QED
    BY <1>1, <1>3, <2>1 DEF Types
<1>5. CleanWhenReady'
  BY <1>1 DEF CleanWhenReady
<1>6. NotOfReturned' /\ ReturnedRight'
  <2>1. NotOfReturned'
    BY <1>1, <1>2, ResultsFacts DEF NotOfReturned
  <2>2. ReturnedRight'
    BY <1>1 DEF ReturnedRight
  <2> QED
    BY <2>1, <2>2
<1>7. Len(call'.got) = 0 /\ Len(s2c') = 0 /\ Len(c2s') = 0 /\ Served(call', s2c') = 0
  BY <1>1, <1>2 DEF Served
<1>8. Stages(call)'
  <2>1. Len(Messages(call')) \in Nat
    BY <1>3, MessagesFacts
  <2> QED
    BY <1>1, <1>2, <2>1 DEF Stages
<1>9. Pending(call)' /\ LastReport(call)'
  BY <1>2, <1>7 DEF Pending, LastReport
<1>10. Answers(call)'
  <2>1. \A k \in Nat : <<calls + 1, k>> \notin applied
    BY <1>1 DEF Types
  <2> QED
    BY <1>1, <1>2, <1>7, <2>1 DEF Answers
<1> QED
  BY <1>4, <1>5, <1>6, <1>8, <1>9, <1>10

(* A call that ends without a result leaves the wire to the next call's     *)
(* drain, or has emptied it.                                                *)
LEMMA DroppedInv ==
    ASSUME PipelineInv, call' = NoCall, UNCHANGED <<calls, db, flag, returned>>,
           phase' \in {"Ready", "InFlight", "Dead"},
           UNCHANGED wire \/ (c2s' = << >> /\ s2c' = << >>),
           phase' = "Ready" => c2s' = << >> /\ s2c' = << >>
    PROVE  PipelineInv'
<1> USE DEF PipelineInv
<1>1. Types'
  <2>1. /\ c2s' \in Seq(Requests) /\ s2c' \in Seq(Replies)
        /\ \A k \in 1..Len(c2s') : c2s'[k].id <= calls'
    <3>1. CASE UNCHANGED wire
      BY <3>1 DEF Types, wire
    <3>2. CASE c2s' = << >> /\ s2c' = << >>
      BY <3>2
    <3> QED
      BY <3>1, <3>2
  <2> QED
    BY <2>1, Zenon DEF Types, db
<1>2. CleanWhenReady'
  BY DEF CleanWhenReady
<1>3. NotOfReturned'
  BY ResultsFacts DEF NotOfReturned, wire
<1>4. ReturnedRight'
  BY DEF ReturnedRight, db
<1> QED
  BY <1>1, <1>2, <1>3, <1>4

(* A call that has written nothing has nothing on the wire. *)
LEMMA NothingSent ==
    ASSUME PipelineInv, call.st = "send", call.sent = 0
    PROVE  c2s = << >> /\ s2c = << >> /\ phase = "Ready"
<1>1. call \in Calls /\ Stages(call) /\ Pending(call)
  BY InProgress
<1>2. /\ c2s \in Seq(Requests) /\ s2c \in Seq(Replies) /\ call.got \in Seq(Replies)
      /\ Len(c2s) \in Nat /\ Len(s2c) \in Nat /\ Len(call.got) \in Nat
  BY <1>1 DEF PipelineInv, Types, Calls
<1>3. Len(c2s) = 0 /\ Len(s2c) = 0
  BY <1>1, <1>2 DEF Pending, Served
<1> QED
  BY <1>1, <1>2, <1>3 DEF Stages

(* Interruptions: an operation rejected before anything was written, a     *)
(* timeout, an abandoned read.                                             *)
LEMMA InterruptInv ==
    ASSUME PipelineInv, Usage \cap {"limit", "dropsend"} = {},
           LimitExceeded \/ Timeout \/ Abandon \/ DropInSend
    PROVE  PipelineInv'
<1>1. CASE LimitExceeded \/ DropInSend
  <2>1. /\ call.st = "send" /\ call.sent = 0 /\ call' = NoCall
        /\ UNCHANGED <<calls, phase, wire, db, flag, returned>>
    BY <1>1 DEF LimitExceeded, DropInSend
  <2>2. c2s = << >> /\ s2c = << >> /\ phase = "Ready"
    BY <2>1, NothingSent
  <2> QED
    BY <2>1, <2>2, DroppedInv DEF wire
<1>2. CASE Timeout
  BY <1>2, DroppedInv DEF Timeout
<1>3. CASE Abandon
  <2>1. phase = "InFlight"
    BY <1>3, InProgress DEF Abandon, Stages
  <2> QED
    BY <1>3, <2>1, DroppedInv DEF Abandon
<1> QED
  BY <1>1, <1>2, <1>3

(* A step that leaves the replies of the call as they are. *)
LEMMA SameReplies ==
    ASSUME Answers(call), LastReport(call), UNCHANGED <<applied, txn>>,
           call'.ops = call.ops, call'.id = call.id, call'.pipelined = call.pipelined,
           Served(call', s2c') = Served(call, s2c),
           \A k \in 1..Served(call, s2c) : ReplyAt(call', s2c', k) = ReplyAt(call, s2c, k)
    PROVE  Answers(call)' /\ LastReport(call)'
<1>1. \A k : Slot(call', k) = Slot(call, k)
  BY DEF Slot
<1>2. Answers(call)'
  BY <1>1 DEF Answers
<1>3. \A k \in 1..Served(call, s2c) : LastDone(call', s2c', k) <=> LastDone(call, s2c, k)
  BY DEF LastDone
<1>4. LastReport(call)'
  BY <1>3 DEF LastReport
<1> QED
  BY <1>2, <1>4

(* The next message goes on the wire behind the others. *)
LEMMA SendOpInv == ASSUME PipelineInv, SendOp PROVE PipelineInv'
<1> USE DEF PipelineInv
<1> DEFINE m == [id |-> call.id, slot |-> Slot(call, call.sent + 1),
                 op |-> Messages(call)[call.sent + 1], abort |-> call.abort]
<1>1. /\ call \in Calls /\ Len(call.ops) \in 1..MaxOps /\ call.id = calls /\ call # NoCall
      /\ Stages(call) /\ Pending(call) /\ Answers(call) /\ LastReport(call)
  BY InProgress DEF SendOp
<1>2. /\ call.st = "send" /\ call.sent < Len(Messages(call)) /\ call.sent \in Nat
      /\ c2s' = Append(c2s, m) /\ call' = [call EXCEPT !.sent = call.sent + 1]
      /\ UNCHANGED <<calls, phase, s2c, aborted, applied, txn, flag, returned>>
      /\ Len(Messages(call)) \in Nat
  BY <1>1, MessagesFacts DEF SendOp, Sent, db, Calls
<1>3. m \in Requests
  <2>1. call.sent + 1 \in 1..Len(Messages(call))
    BY <1>2
  <2>2. call.id \in 1..MaxCalls /\ call.abort \in BOOLEAN
    BY <1>1 DEF Calls
  <2> QED
    BY <1>1, <2>1, <2>2, MessagesFacts DEF Requests
<1>4. /\ c2s \in Seq(Requests) /\ s2c \in Seq(Replies) /\ Len(c2s) \in Nat
      /\ c2s' \in Seq(Requests) /\ Len(c2s') = Len(c2s) + 1
      /\ \A k \in 1..Len(c2s') : c2s'[k] = IF k <= Len(c2s) THEN c2s[k] ELSE m
  BY <1>2, <1>3 DEF Types
<1>5. /\ call' \in Calls /\ call'.ops = call.ops /\ call'.id = call.id
      /\ call'.got = call.got /\ call'.sent = call.sent + 1 /\ call'.st = "send"
      /\ call'.pipelined = call.pipelined /\ call' # NoCall
  <2>1. call' \in Calls
    <3>1. call.sent + 1 \in Nat
      BY <1>2
    <3> QED
      BY <1>1, <1>2, <3>1, CallUpdates
  <2>2. call'.st = "send"
    BY <1>1, <1>2 DEF Calls
  <2>3. call' # NoCall
    BY <2>2 DEF NoCall
  <2> QED
    BY <1>1, <1>2, <2>1, <2>2, <2>3 DEF Calls
<1>6. /\ Messages(call') = Messages(call) /\ \A k : Slot(call', k) = Slot(call, k)
      /\ Served(call', s2c') = Served(call, s2c)
      /\ \A k : ReplyAt(call', s2c', k) = ReplyAt(call, s2c, k)
  BY <1>2, <1>5 DEF Messages, Slot, Served, ReplyAt
<1>7. Types'
  BY <1>1, <1>2, <1>4, <1>5 DEF Types
<1>8. CleanWhenReady' /\ Stages(call)'
  BY <1>1, <1>2, <1>5, <1>6 DEF CleanWhenReady, Stages
<1>9. NotOfReturned'
  <2>1. m.id = call.id
    OBVIOUS
  <2> HIDE DEF m
  <2> QED
    BY <1>1, <1>2, <1>4, <1>5, <2>1 DEF NotOfReturned
<1>10. ReturnedRight'
  BY <1>2 DEF ReturnedRight
<1>11. Pending(call)'
  <2>1. m.id = call.id /\ m.slot = Slot(call, call.sent + 1)
        /\ m.op = Messages(call)[call.sent + 1]
    OBVIOUS
  <2>2. Served(call, s2c) \in Nat /\ Served(call, s2c) + Len(c2s) = call.sent
    BY <1>1 DEF Served, Pending, Calls, Types
  <2> HIDE DEF m
  <2>3. ASSUME NEW k \in 1..Len(c2s')
        PROVE  /\ c2s'[k].id = call.id
               /\ c2s'[k].slot = Slot(call, Served(call, s2c) + k)
               /\ c2s'[k].op = Messages(call)[Served(call, s2c) + k]
    <3>1. CASE k <= Len(c2s)
      BY <1>1, <1>4, <3>1 DEF Pending
    <3>2. CASE k = Len(c2s) + 1
      <4>1. c2s'[k] = m
        BY <1>4, <3>2
      <4>2. Served(call, s2c) + k = call.sent + 1
        BY <1>2, <1>4, <2>2, <3>2
      <4> QED
        BY <2>1, <4>1, <4>2
    <3> QED
      BY <1>4, <3>1, <3>2
  <2>4. Served(call, s2c) + Len(c2s') = call.sent + 1
    BY <1>2, <1>4, <2>2
  <2> QED
    BY <1>2, <1>5, <1>6, <2>3, <2>4 DEF Pending
<1>12. Answers(call)' /\ LastReport(call)'
  BY <1>1, <1>2, <1>5, <1>6, SameReplies
<1> QED
  BY <1>7, <1>8, <1>9, <1>10, <1>11, <1>12

(* Arming the read of the next response. *)
LEMMA ArmInv == ASSUME PipelineInv, Arm PROVE PipelineInv'
<1> USE DEF PipelineInv
<1>1. /\ call \in Calls /\ Len(call.ops) \in 1..MaxOps /\ call.id = calls /\ call # NoCall
      /\ Stages(call) /\ Pending(call) /\ Answers(call) /\ LastReport(call)
  BY InProgress DEF Arm
<1>2. /\ call.sent = Len(Messages(call)) /\ phase' = "InFlight"
      /\ call' = [call EXCEPT !.st = "read"]
      /\ UNCHANGED <<calls, c2s, s2c, aborted, applied, txn, flag, returned>>
  BY <1>1 DEF Arm, Armed, Stages, db, wire
<1>3. call' \in Calls
  BY <1>1, <1>2, CallUpdates
<1>4. /\ call'.ops = call.ops /\ call'.id = call.id /\ call'.pipelined = call.pipelined
      /\ call'.got = call.got /\ call'.sent = call.sent /\ call'.st = "read"
  BY <1>1, <1>2 DEF Calls
<1>5. call' # NoCall
  BY <1>4 DEF NoCall
<1>6. /\ Messages(call') = Messages(call) /\ \A k : Slot(call', k) = Slot(call, k)
      /\ Served(call', s2c') = Served(call, s2c)
      /\ \A k : ReplyAt(call', s2c', k) = ReplyAt(call, s2c, k)
  BY <1>2, <1>4 DEF Messages, Slot, Served, ReplyAt
<1>7. Types'
  BY <1>1, <1>2, <1>3, <1>4 DEF Types
<1>8. CleanWhenReady' /\ Stages(call)'
  BY <1>1, <1>2, <1>4, <1>5, <1>6 DEF CleanWhenReady, Stages
<1>9. NotOfReturned'
  BY <1>1, <1>2, <1>4 DEF NotOfReturned
<1>10. ReturnedRight'
  BY <1>2 DEF ReturnedRight
<1>11. Pending(call)'
  BY <1>1, <1>2, <1>4, <1>6 DEF Pending
<1>12. Answers(call)' /\ LastReport(call)'
  BY <1>1, <1>2, <1>4, <1>6, SameReplies
<1> QED
  BY <1>7, <1>8, <1>9, <1>10, <1>11, <1>12

(* The first reply on the wire is read. *)
LEMMA ReceiveInv == ASSUME PipelineInv, Receive PROVE PipelineInv'
<1> USE DEF PipelineInv
<1>1. /\ call \in Calls /\ Len(call.ops) \in 1..MaxOps /\ call.id = calls /\ call # NoCall
      /\ Stages(call) /\ Pending(call) /\ Answers(call) /\ LastReport(call)
  BY InProgress DEF Receive
<1>2. /\ call.st = "read" /\ s2c # << >> /\ phase' = "Ready" /\ s2c' = Tail(s2c)
      /\ call' = [call EXCEPT !.st = "next", !.got = Append(call.got, Head(s2c))]
      /\ UNCHANGED <<calls, c2s, aborted, applied, txn, flag, returned>>
  BY DEF Receive, Disarmed, db
<1>3. s2c \in Seq(Replies) /\ call.got \in Seq(Replies)
  BY <1>1 DEF Types, Calls
<1>4. /\ s2c' \in Seq(Replies) /\ Head(s2c) \in Replies
      /\ Len(s2c) \in Nat \ {0} /\ Len(s2c') = Len(s2c) - 1
      /\ \A k \in 1..Len(s2c') : s2c'[k] = s2c[k + 1]
      /\ Head(s2c) = s2c[1]
  BY <1>2, <1>3
<1>5. call' \in Calls
  BY <1>1, <1>2, <1>4, CallUpdates
<1>6. /\ call'.ops = call.ops /\ call'.id = call.id /\ call'.pipelined = call.pipelined
      /\ call'.got = Append(call.got, Head(s2c)) /\ call'.sent = call.sent
      /\ call'.st = "next"
  BY <1>1, <1>2 DEF Calls
<1>7. call' # NoCall
  BY <1>6 DEF NoCall
<1>8. /\ Len(call'.got) = Len(call.got) + 1 /\ Len(call.got) \in Nat
      /\ \A k \in 1..Len(call.got) : call'.got[k] = call.got[k]
      /\ call'.got[Len(call.got) + 1] = s2c[1]
  BY <1>3, <1>4, <1>6
<1>9. Messages(call') = Messages(call) /\ \A k : Slot(call', k) = Slot(call, k)
  BY <1>6 DEF Messages, Slot
<1>10. Served(call', s2c') = Served(call, s2c) /\ Served(call, s2c) \in Nat
  BY <1>4, <1>8 DEF Served
<1>11. ASSUME NEW k \in 1..Served(call, s2c)
       PROVE  ReplyAt(call', s2c', k) = ReplyAt(call, s2c, k)
  <2>1. CASE k <= Len(call.got)
    BY <1>8, <1>10, <2>1 DEF ReplyAt
  <2>2. CASE k = Len(call.got) + 1
    BY <1>4, <1>8, <1>10, <2>2 DEF ReplyAt
  <2>3. CASE k > Len(call.got) + 1
    <3>0. k \in 1..(Len(call.got) + Len(s2c))
      BY DEF Served
    <3>1. /\ k - Len(call'.got) \in 1..Len(s2c')
          /\ (k - Len(call'.got)) + 1 = k - Len(call.got)
      BY <1>4, <1>8, <2>3, <3>0
    <3>2. s2c'[k - Len(call'.got)] = s2c[k - Len(call.got)]
      BY <1>4, <3>1
    <3> QED
      BY <1>8, <1>10, <2>3, <3>2 DEF ReplyAt
  <2> QED
    BY <1>8, <1>10, <2>1, <2>2, <2>3
<1>12. Types'
  BY <1>1, <1>2, <1>4, <1>5, <1>6 DEF Types
<1>13. CleanWhenReady' /\ Stages(call)'
  BY <1>1, <1>2, <1>6, <1>7, <1>9 DEF CleanWhenReady, Stages
<1>14. NotOfReturned'
  BY <1>1, <1>2, <1>6 DEF NotOfReturned
<1>15. ReturnedRight'
  BY <1>2 DEF ReturnedRight
<1>16. Pending(call)'
  BY <1>1, <1>2, <1>6, <1>9, <1>10 DEF Pending
<1>17. Answers(call)' /\ LastReport(call)'
  BY <1>1, <1>2, <1>6, <1>10, <1>11, SameReplies
<1> QED
  BY <1>12, <1>13, <1>14, <1>15, <1>16, <1>17

(* When everything is read, the wire is empty and the slots of the result  *)
(* are the first replies.                                                  *)
LEMMA DecodeFacts ==
    ASSUME PipelineInv, Decode
    PROVE  /\ call \in Calls /\ Len(call.ops) \in 1..MaxOps /\ call.id = calls
           /\ call # NoCall /\ Answers(call) /\ LastReport(call)
           /\ phase = "Ready" /\ c2s = << >> /\ s2c = << >>
           /\ Len(call.got) = Len(Messages(call)) /\ Served(call, s2c) = Len(call.got)
           /\ \A k \in 1..Len(call.got) : ReplyAt(call, s2c, k) = call.got[k]
           /\ SubSeq(call.got, 1, Len(call.ops)) \in Seq(Replies)
           /\ Len(SubSeq(call.got, 1, Len(call.ops))) = Len(call.ops)
           /\ \A k \in 1..Len(call.ops) :
                SubSeq(call.got, 1, Len(call.ops))[k] = call.got[k]
<1>1. /\ call \in Calls /\ Len(call.ops) \in 1..MaxOps /\ call.id = calls /\ call # NoCall
      /\ Stages(call) /\ Pending(call) /\ Answers(call) /\ LastReport(call)
  BY InProgress DEF Decode
<1>2. call.st = "next" /\ Len(call.got) = Len(Messages(call))
  BY DEF Decode, Responses
<1>3. /\ call.got \in Seq(Replies) /\ s2c \in Seq(Replies) /\ c2s \in Seq(Requests)
      /\ Len(call.got) \in Nat /\ Len(s2c) \in Nat /\ Len(c2s) \in Nat
  BY <1>1 DEF PipelineInv, Types, Calls
<1>4. phase = "Ready" /\ call.sent = Len(Messages(call))
  BY <1>1, <1>2 DEF Stages
<1>5. Len(s2c) = 0 /\ Len(c2s) = 0
  BY <1>1, <1>2, <1>3, <1>4 DEF Pending, Served
<1>6. c2s = << >> /\ s2c = << >>
  BY <1>3, <1>5
<1>7. Len(call.ops) \in 1..Len(call.got)
  BY <1>1, <1>2, <1>3, MessagesFacts
<1>8. /\ SubSeq(call.got, 1, Len(call.ops)) \in Seq(Replies)
      /\ Len(SubSeq(call.got, 1, Len(call.ops))) = Len(call.ops)
      /\ \A k \in 1..Len(call.ops) : SubSeq(call.got, 1, Len(call.ops))[k] = call.got[k]
  BY <1>3, <1>7
<1>9. /\ Served(call, s2c) = Len(call.got)
      /\ \A k \in 1..Len(call.got) : ReplyAt(call, s2c, k) = call.got[k]
  BY <1>3, <1>5 DEF Served, ReplyAt
<1> QED
  BY <1>1, <1>2, <1>4, <1>6, <1>8, <1>9

(* The call returns the replies of its own operations. *)
LEMMA DecodeInv == ASSUME PipelineInv, Decode PROVE PipelineInv'
<1> USE DEF PipelineInv
<1> DEFINE slots == SubSeq(call.got, 1, Len(call.ops))
           res == [id |-> call.id, got |-> slots]
<1>1. /\ call' = NoCall /\ returned' = Append(returned, res)
      /\ flag' \in Refreshed(slots, flag)
      /\ UNCHANGED <<calls, phase, c2s, s2c, aborted, applied, txn>>
  BY DEF Decode, db, wire
<1>2. /\ slots \in Seq(Replies) /\ Len(slots) = Len(call.ops)
      /\ \A k \in 1..Len(call.ops) : slots[k] = ReplyAt(call, s2c, k)
      /\ Len(call.ops) \in Nat /\ Len(call.ops) <= Served(call, s2c)
      /\ call \in Calls /\ Len(call.ops) \in 1..MaxOps /\ call.id = calls
      /\ Answers(call) /\ call # NoCall /\ c2s = << >> /\ s2c = << >>
      /\ Served(call, s2c) \in Nat /\ \A k \in 1..Len(call.ops) : Slot(call, k) = k
  BY DecodeFacts, MessagesFacts
<1>3. res \in Results /\ res.id = call.id /\ res.got = slots
  BY <1>2 DEF Results, Calls
<1> HIDE DEF slots, res
<1>4. flag' \in BOOLEAN
  <2>1. \A k \in DOMAIN slots : slots[k].txn \in BOOLEAN
    <3>1. \A k \in DOMAIN slots : slots[k] \in Replies
      BY <1>2
    <3> QED
      BY <3>1 DEF Replies
  <2>2. flag \in BOOLEAN
    BY DEF Types
  <2> QED
    BY <1>1, <2>1, <2>2, Zenon DEF Refreshed
<1>5. returned \in Seq(Results) /\ returned' \in Seq(Results)
      /\ Len(returned') = Len(returned) + 1 /\ Len(returned) \in Nat
      /\ \A i \in 1..Len(returned') :
            returned'[i] = IF i <= Len(returned) THEN returned[i] ELSE res
  BY <1>1, <1>3 DEF Types
<1>6. Types'
  BY <1>1, <1>4, <1>5, Zenon DEF Types
<1>7. CleanWhenReady'
  BY <1>1, <1>2 DEF CleanWhenReady
<1>8. NotOfReturned'
  <2>1. ASSUME NEW i \in 1..Len(returned') PROVE returned'[i].id <= calls
    <3>1. CASE i \in 1..Len(returned)
      BY <1>5, <3>1 DEF NotOfReturned
    <3>2. CASE i = Len(returned) + 1
      <4>1. calls \in Nat
        BY DEF Types
      <4>2. returned'[i] = res
        BY <1>5, <3>2
      <4>3. res.id = calls
        BY <1>2, <1>3
      <4> QED
        BY <4>1, <4>2, <4>3
    <3> QED
      BY <1>5, <3>1, <3>2
  <2>2. Len(c2s') = 0
    BY <1>1, <1>2
  <2> QED
    BY <1>1, <2>1, <2>2 DEF NotOfReturned
<1>9. ReturnedRight'
  <2>1. ASSUME NEW k \in 1..Len(slots)
        PROVE  /\ slots[k].id = call.id /\ slots[k].slot = k
               /\ slots[k].ok <=> <<call.id, k>> \in applied
    <3>1. k \in 1..Served(call, s2c) /\ k \in 1..Len(call.ops)
      BY <1>2
    <3> QED
      BY <1>2, <3>1 DEF Answers
  <2>2. ASSUME NEW i \in 1..Len(returned')
        PROVE  \A k \in 1..Len(returned'[i].got) :
                  /\ returned'[i].got[k].id = returned'[i].id
                  /\ returned'[i].got[k].slot = k
                  /\ returned'[i].got[k].ok <=> <<returned'[i].id, k>> \in applied'
    <3>1. CASE i \in 1..Len(returned)
      BY <1>1, <1>5, <3>1 DEF ReturnedRight
    <3>2. CASE i = Len(returned) + 1
      BY <1>1, <1>3, <1>5, <2>1, <3>2
    <3> QED
      BY <1>5, <3>1, <3>2
  <2> QED
    BY <2>2 DEF ReturnedRight
<1> QED
  BY <1>1, <1>6, <1>7, <1>8, <1>9

(* The flag a call leaves is the server's. *)
LEMMA DecodeFlag ==
    ASSUME PipelineInv, Decode,
           \E k \in DOMAIN call.got : call.got[k].ok /\ call.got[k].slot # End
    PROVE  flag' = txn
<1> DEFINE slots == SubSeq(call.got, 1, Len(call.ops))
<1>1. flag' \in Refreshed(slots, flag)
  BY DEF Decode
<1>2. /\ slots \in Seq(Replies) /\ Len(slots) = Len(call.ops) /\ call \in Calls
      /\ \A k \in 1..Len(call.ops) : slots[k] = ReplyAt(call, s2c, k)
      /\ Len(call.ops) \in 1..MaxOps /\ Len(call.ops) <= Served(call, s2c)
      /\ Len(call.got) = Served(call, s2c) /\ Served(call, s2c) = Len(Messages(call))
      /\ Answers(call) /\ LastReport(call) /\ Served(call, s2c) \in Nat
      /\ \A k \in 1..Len(call.got) : ReplyAt(call, s2c, k) = call.got[k]
  BY DecodeFacts, MessagesFacts
<1>3. PICK k \in 1..Len(call.got) : call.got[k].ok /\ call.got[k].slot # End
  BY <1>2 DEF Calls
<1>4. k <= Len(call.ops)
  <2>1. Slot(call, k) # End
    BY <1>2, <1>3 DEF Answers
  <2>2. call.pipelined /\ call.ops \in Seq(Ops) => Len(Messages(call)) = Len(call.ops) + 1
    BY DEF Messages
  <2>3. ~call.pipelined => Len(Messages(call)) = Len(call.ops)
    BY DEF Messages
  <2>4. call.pipelined \in BOOLEAN /\ call.ops \in Seq(Ops) /\ Len(call.ops) \in Nat
    BY <1>2 DEF Calls
  <2> QED
    BY <1>2, <2>1, <2>2, <2>3, <2>4 DEF Slot
<1> HIDE DEF slots
<1>5. DOMAIN slots = 1..Len(call.ops) /\ Len(call.ops) \in Nat
  BY <1>2
<1>6. k \in DOMAIN slots /\ slots[k].ok
  BY <1>2, <1>3, <1>4, <1>5
<1>7. PICK i \in DOMAIN slots : /\ slots[i].ok /\ flag' = slots[i].txn
                               /\ \A j \in DOMAIN slots : slots[j].ok => j <= i
  BY <1>1, <1>6, Zenon DEF Refreshed
<1>8. LastDone(call, s2c, i)
  <2>1. i \in 1..Len(call.ops) /\ ReplyAt(call, s2c, i).ok
    BY <1>2, <1>5, <1>7
  <2>2. ASSUME NEW j \in 1..Served(call, s2c), j > i, j <= Len(call.ops)
        PROVE  ~ReplyAt(call, s2c, j).ok
    BY <1>2, <1>5, <1>7, <2>1, <2>2
  <2> QED
    BY <2>1, <2>2 DEF LastDone
<1> QED
  BY <1>2, <1>5, <1>7, <1>8 DEF LastReport

(* The server takes the first message and its reply goes on the wire. *)
LEMMA ServeInv == ASSUME PipelineInv, NEW ok \in BOOLEAN, Serve(ok) PROVE PipelineInv'
<1> USE DEF PipelineInv
<1> DEFINE m == Head(c2s)
           done == ok /\ m.id \notin aborted
           t == IF m.op = "end" \/ ~done THEN txn ELSE m.op = "dml"
           r == [id |-> m.id, slot |-> m.slot, ok |-> done, txn |-> t]
<1>1. /\ c2s # << >> /\ txn' = t /\ s2c' = Append(s2c, r) /\ c2s' = Tail(c2s)
      /\ applied' = IF done /\ m.op # "end" THEN applied \cup {<<m.id, m.slot>>} ELSE applied
      /\ UNCHANGED <<call, calls, phase, flag, returned>>
  BY DEF Serve
<1>2. /\ c2s \in Seq(Requests) /\ m = c2s[1] /\ Len(c2s) \in Nat \ {0} /\ m \in Requests
      /\ c2s' \in Seq(Requests) /\ Len(c2s') = Len(c2s) - 1
      /\ \A k \in 1..Len(c2s') : c2s'[k] = c2s[k + 1]
  BY <1>1 DEF Types
<1>3. /\ m.id \in 1..MaxCalls /\ m.id <= calls /\ m.slot \in Slots /\ m.slot \in Nat
      /\ calls \in 0..MaxCalls /\ MaxCalls \in Nat
  BY <1>2, PipelineAssumption DEF Requests, Types, Slots, End
<1>4. done \in BOOLEAN /\ t \in BOOLEAN
  <2>1. txn \in BOOLEAN
    BY DEF Types
  <2> QED
    BY <2>1, Zenon
<1>5. /\ r \in Replies /\ r.id = m.id /\ r.slot = m.slot /\ r.ok = done /\ r.txn = t
  <2> HIDE DEF done, t, m
  <2> QED
    BY <1>3, <1>4 DEF Replies
<1> HIDE DEF m, done, t, r
<1>6. /\ s2c \in Seq(Replies) /\ s2c' \in Seq(Replies) /\ Len(s2c') = Len(s2c) + 1
      /\ Len(s2c) \in Nat
      /\ \A k \in 1..Len(s2c) : s2c'[k] = s2c[k]
      /\ s2c'[Len(s2c) + 1] = r
  BY <1>1, <1>5 DEF Types
<1>grown. Len(s2c) \in Nat /\ Len(s2c') = Len(s2c) + 1
  BY <1>6
<1>7. Types'
  <2>1. applied' \subseteq (1..calls') \X Nat
    <3>1. <<m.id, m.slot>> \in (1..calls) \X Nat
      BY <1>3
    <3> QED
      BY <1>1, <3>1, Zenon DEF Types
  <2>2. \A k \in 1..Len(c2s') : c2s'[k].id <= calls'
    BY <1>1, <1>2 DEF Types
  <2>3. txn' \in BOOLEAN
    BY <1>1, <1>4
  <2> QED
    BY <1>1, <1>2, <1>6, <2>1, <2>2, <2>3, Zenon DEF Types
<1>8. CleanWhenReady'
  <2>1. call = NoCall => phase # "Ready"
    BY <1>1 DEF CleanWhenReady
  <2> QED
    BY <1>1, <2>1 DEF CleanWhenReady
<1>9. NotOfReturned'
  BY <1>1, <1>2 DEF NotOfReturned
<1>10. ReturnedRight'
  <2>1. \A i \in 1..Len(returned) : m.id # returned[i].id
    BY <1>2 DEF NotOfReturned
  <2>2. \A i \in 1..Len(returned) : \A k :
            <<returned[i].id, k>> \in applied' <=> <<returned[i].id, k>> \in applied
    BY <1>1, <2>1
  <2> QED
    BY <1>1, <2>2 DEF ReturnedRight
<1>11. ASSUME call # NoCall
       PROVE  Stages(call)' /\ Pending(call)' /\ Answers(call)' /\ LastReport(call)'
  <2>1. /\ call \in Calls /\ Len(call.ops) \in 1..MaxOps /\ call.id = calls
        /\ Stages(call) /\ Pending(call) /\ Answers(call) /\ LastReport(call)
    BY <1>11, NoCallFacts DEF Types
  <2>sizes. Len(call.got) \in Nat /\ call.sent \in Nat /\ Len(Messages(call)) \in Nat
    BY <2>1, MessagesFacts DEF Calls
  <2>count. PICK n \in Nat, g \in Nat, w \in Nat :
            n = g + w /\ g = Len(call.got) /\ w = Len(s2c) /\ n = Served(call, s2c)
    BY <1>grown, <2>sizes DEF Served
  <2>sum. n = g + w
    BY <2>count
  <2>2. Served(call, s2c') = n + 1 /\ n + 1 <= Len(Messages(call))
    <3>1. n + Len(c2s) = call.sent
      BY <2>1, <2>count DEF Pending
    <3>2. call.sent <= Len(Messages(call))
      BY <2>sizes, <2>1 DEF Stages
    <3>3. Served(call, s2c') = n + 1
      <4>1. Served(call, s2c') = g + (w + 1)
        BY <1>grown, <2>count DEF Served
      <4> QED
        BY <2>sum, <4>1
    <3> QED
      BY <1>2, <2>sizes, <3>1, <3>2, <3>3
  <2>3. \A k \in 1..n : ReplyAt(call, s2c', k) = ReplyAt(call, s2c, k)
    <3>1. SUFFICES ASSUME NEW k \in 1..n PROVE ReplyAt(call, s2c', k) = ReplyAt(call, s2c, k)
      OBVIOUS
    <3>2. ~(k <= g) => k - g \in 1..w
      BY <2>count
    <3> QED
      BY <1>6, <2>count, <3>2 DEF ReplyAt
  <2>4. ReplyAt(call, s2c', n + 1) = r
    <3>1. n + 1 - g = w + 1 /\ ~(n + 1 <= g)
      BY <2>sum
    <3> QED
      BY <1>6, <2>count, <3>1 DEF ReplyAt
  <2>5. m.id = call.id /\ m.slot = Slot(call, n + 1) /\ m.op = Messages(call)[n + 1]
    BY <1>2, <2>count, <2>1 DEF Pending
  <2>6. /\ m.op # "end" <=> n + 1 <= Len(call.ops)
        /\ n + 1 <= Len(call.ops) => m.slot = n + 1
    <3>1. n + 1 \in 1..Len(Messages(call))
      BY <2>2
    <3>2. Len(call.ops) \in Nat
      BY <2>1
    <3> QED
      BY <2>1, <2>2, <2>5, <3>1, <3>2, MessagesFacts
  <2>7. Stages(call)'
    BY <1>1, <2>1 DEF Stages
  <2>8. Pending(call)'
    <3>1. Served(call, s2c') + Len(c2s') = call.sent
      BY <1>2, <2>sizes, <2>count, <2>1, <2>2 DEF Pending
    <3>2. ASSUME NEW k \in 1..Len(c2s')
          PROVE  /\ c2s'[k].id = call.id
                 /\ c2s'[k].slot = Slot(call, (n + 1) + k)
                 /\ c2s'[k].op = Messages(call)[(n + 1) + k]
      <4>1. k + 1 \in 1..Len(c2s) /\ c2s'[k] = c2s[k + 1]
        BY <1>2
      <4>2. n + (k + 1) = (n + 1) + k
        BY <1>2, <2>2
      <4> QED
        BY <2>count, <2>1, <4>1, <4>2 DEF Pending
    <3> QED
      BY <1>1, <2>2, <3>1, <3>2 DEF Pending
  <2>9. Answers(call)'
    <3>1. \A k \in Nat : <<call.id, k>> \in applied => k <= n
      BY <2>1, <2>count DEF Answers
    <3>2. \A k \in Nat : <<call.id, k>> \in applied' <=>
              <<call.id, k>> \in applied \/ (done /\ n + 1 <= Len(call.ops) /\ k = n + 1)
      <4>1. CASE done /\ m.op # "end"
        BY <1>1, <2>5, <2>6, <4>1
      <4>2. CASE ~(done /\ m.op # "end")
        BY <1>1, <2>6, <4>2
      <4> QED
        BY <4>1, <4>2
    <3>3. ASSUME NEW k \in 1..(n + 1)
          PROVE  /\ ReplyAt(call, s2c', k).id = call.id
                 /\ ReplyAt(call, s2c', k).slot = Slot(call, k)
                 /\ k <= Len(call.ops) =>
                        (ReplyAt(call, s2c', k).ok <=> <<call.id, k>> \in applied')
      <4>1. CASE k \in 1..n
        BY <2>1, <2>2, <2>3, <3>2, <4>1, <2>count DEF Answers
      <4>2. CASE k = n + 1
        <5>1. <<call.id, k>> \notin applied
          BY <2>2, <3>1, <4>2
        <5> QED
          BY <1>5, <2>2, <2>4, <2>5, <3>2, <4>2, <5>1
      <4> QED
        BY <2>2, <4>1, <4>2
    <3>4. \A k \in Nat : <<call.id, k>> \in applied' => k <= n + 1
      BY <2>2, <3>1, <3>2
    <3> QED
      BY <1>1, <2>2, <3>3, <3>4, <2>count DEF Answers
  <2>10. LastReport(call)'
    <3>1. SUFFICES ASSUME NEW k \in 1..(n + 1), LastDone(call, s2c', k)
                   PROVE  ReplyAt(call, s2c', k).txn = txn'
      BY <1>1, <2>2 DEF LastReport
    <3>2. /\ k <= Len(call.ops) /\ ReplyAt(call, s2c', k).ok
          /\ \A j \in 1..(n + 1) : j > k /\ j <= Len(call.ops) => ~ReplyAt(call, s2c', j).ok
      BY <2>2, <3>1 DEF LastDone
    <3>3. CASE k = n + 1
      BY <1>1, <1>5, <2>4, <3>3
    <3>4. CASE k \in 1..n
      <4>1. LastDone(call, s2c, k)
        <5>1. ReplyAt(call, s2c, k).ok
          BY <2>3, <3>2, <3>4
        <5>2. \A j \in 1..n : j > k /\ j <= Len(call.ops) => ~ReplyAt(call, s2c, j).ok
          BY <2>2, <2>3, <3>2
        <5> QED
          BY <3>2, <5>1, <5>2, <2>count DEF LastDone
      <4>2. ReplyAt(call, s2c', k).txn = txn
        BY <2>1, <2>3, <3>4, <4>1, <2>count DEF LastReport
      <4>3. ~(done /\ m.op # "end")
        <5>1. n + 1 <= Len(call.ops) => ~r.ok
          BY <2>2, <2>4, <3>2, <3>4
        <5> QED
          BY <1>5, <2>6, <5>1
      <4>4. txn' = txn
        BY <1>1, <4>3 DEF t
      <4> QED
        BY <4>2, <4>4
    <3> QED
      BY <2>2, <3>3, <3>4
  <2> QED
    BY <2>7, <2>8, <2>9, <2>10
<1> QED
  BY <1>1, <1>7, <1>8, <1>9, <1>10, <1>11

-----------------------------------------------------------------------------
(* The theorems *)

(* Every step keeps the invariant, as long as no operation is rejected and  *)
(* no call dropped between two writes.                                      *)
LEMMA NextInv ==
    ASSUME Usage \cap {"limit", "dropsend"} = {}
    PROVE  PipelineInv /\ [Next]_vars => PipelineInv'
<1> SUFFICES ASSUME PipelineInv, [Next]_vars PROVE PipelineInv'
  OBVIOUS
<1>1. ASSUME NEW n \in 1..MaxOps, NEW abort \in BOOLEAN, NEW ops \in [1..n -> Ops],
             Begin(TRUE, abort, ops)
      PROVE  PipelineInv'
  <2>1. ops \in Seq(Ops) /\ Len(ops) = n
    BY PipelineAssumption
  <2> QED
    BY <1>1, <2>1, BeginInv
<1>2. ASSUME NEW op \in Ops, Begin(FALSE, FALSE, <<op>>) PROVE PipelineInv'
  <2>1. <<op>> \in Seq(Ops) /\ Len(<<op>>) = 1
    OBVIOUS
  <2>2. Len(<<op>>) \in 1..MaxOps
    BY <2>1, PipelineAssumption
  <2> QED
    BY <1>2, <2>1, <2>2, BeginInv
<1>3. CASE Client
  BY <1>3, SendOpInv, ArmInv, ReceiveInv, DecodeInv DEF Client
<1>4. CASE LimitExceeded \/ Timeout \/ Abandon \/ DropInSend
  BY <1>4, InterruptInv
<1>5. ASSUME NEW ok \in BOOLEAN, Serve(ok) PROVE PipelineInv'
  BY <1>5, ServeInv
<1>6. CASE UNCHANGED vars
  <2>1. UNCHANGED <<call, calls, phase, c2s, s2c, aborted, applied, txn, flag, returned>>
    BY <1>6 DEF vars, db, wire
  <2>2. Types' /\ CleanWhenReady'
    BY <2>1, Zenon DEF PipelineInv, Types, CleanWhenReady
  <2>3. NotOfReturned' /\ ReturnedRight'
    BY <2>1 DEF PipelineInv, NotOfReturned, ReturnedRight
  <2>4. ASSUME call # NoCall PROVE Stages(call)' /\ Pending(call)'
    BY <2>1, <2>4 DEF PipelineInv, Stages, Pending
  <2>5. ASSUME call # NoCall PROVE Answers(call)' /\ LastReport(call)'
    BY <2>1, <2>5, SameReplies DEF PipelineInv
  <2> QED
    BY <2>1, <2>2, <2>3, <2>4, <2>5 DEF PipelineInv
<1> QED
  BY <1>1, <1>2, <1>3, <1>4, <1>5, <1>6 DEF Next

(* run_pipeline_decoded on a connection whose calls are not broken off      *)
(* between two writes, for every number of operations and calls: every slot *)
(* gets the response of its own operation, reports it as done exactly when  *)
(* the server performed it, and no timeout, drop or failure of a read       *)
(* leaves a response to a later call.                                       *)
THEOREM PipelineAnswersMatch ==
    ASSUME Usage \cap {"limit", "dropsend"} = {} PROVE Spec => []AnswersMatch
<1>1. Init => PipelineInv
  BY InitInv
<1>2. PipelineInv /\ [Next]_vars => PipelineInv'
  BY NextInv
<1>3. PipelineInv => AnswersMatch
  BY InvImplies
<1> QED
  BY <1>1, <1>2, <1>3, PTL DEF Spec

(* Under the same condition a call that returns with an operation performed *)
(* leaves txn_in_progress as the server has the transaction, whatever the   *)
(* operations after it did.                                                 *)
THEOREM PipelineFlagFollows ==
    ASSUME Usage \cap {"limit", "dropsend"} = {} PROVE Spec => FlagFollowsServer
<1> DEFINE A == call # NoCall /\ call' = NoCall /\ returned' # returned
                  /\ (\E k \in DOMAIN call.got : call.got[k].ok /\ call.got[k].slot # End)
                => flag' = txn
<1>1. Init => PipelineInv
  BY InitInv
<1>2. PipelineInv /\ [Next]_vars => PipelineInv'
  BY NextInv
<1>3. PipelineInv /\ [Next]_vars => [A]_vars
  <2>1. [Next]_vars => (returned' # returned => Decode)
    BY DEF Next, vars, Client, Begin, SendOp, Arm, Receive, LimitExceeded, Timeout,
       Abandon, DropInSend, Serve
  <2> QED
    BY <2>1, DecodeFlag
<1> QED
  BY <1>1, <1>2, <1>3, PTL DEF Spec, FlagFollowsServer

=============================================================================
