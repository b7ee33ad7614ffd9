--------------------------- MODULE PoolLifecycle ---------------------------
(***************************************************************************)
(* PurePoolState of crates/oracledb/src/pool.rs: the pool as a pure state  *)
(* machine that owns slots and a queue of waiters and emits effects (open, *)
(* ping, close a slot).  Whoever drives it takes the effects, performs     *)
(* them and reports each result in any order (complete_open,               *)
(* complete_ping, complete_close).                                         *)
(*                                                                         *)
(* A slot's id is its index, as ids are given in order and slots are never *)
(* removed.  The state is a record so that the private helpers             *)
(* (drive_waiters, ensure_min_opening) are operators on it.                *)
(***************************************************************************)
EXTENDS Integers, Sequences, FiniteSets, FiniteSetsExt, SequencesExt

CONSTANTS
    SlotMin,      \* `min`
    SlotMax,      \* `max`
    MaxWaiters,   \* bound: acquire requests in one behaviour
    MaxFaults     \* bound: failed opens and pings, and reaped slots

ASSUME LifecycleAssumption ==
    /\ SlotMin \in Nat /\ SlotMax \in Nat /\ SlotMin <= SlotMax
    /\ MaxWaiters \in Nat /\ MaxFaults \in Nat

VARIABLES
    lc,         \* PurePoolState: slots, waiters, effects, closing
    asked,      \* next_waiter - 1
    inflight,   \* effects the driver has taken and not yet answered
    faults      \* failures so far

vars == <<lc, asked, inflight, faults>>

WaiterIds == 1..MaxWaiters
SlotStates == {"Opening", "Idle", "CheckedOut", "Validating", "Retiring",
               "Closing", "Closed"}

(* A slot: its state and the waiter the state carries (at most one). *)
Slot(st, w) == [st |-> st, waiter |-> w]
In(s, states) == {i \in DOMAIN s.slots : s.slots[i].st \in states}

Live(s) == In(s, SlotStates \ {"Closed"})
Effect(kind, i) == [kind |-> kind, slot |-> i]

SetSlot(s, i, st, w) == [s EXCEPT !.slots[i] = Slot(st, w)]
Emit(s, kind, i) == [s EXCEPT !.effects = Append(@, Effect(kind, i))]

-----------------------------------------------------------------------------
(* Helpers *)

\* the members of a set of positions from the first to the last
InOrder(S) ==
    [r \in 1..Cardinality(S) |->
        CHOOSE k \in S : Cardinality({j \in S : j <= k}) = r]

\* VecDeque::retain
Without(q, w) ==
    LET kept == InOrder({j \in DOMAIN q : q[j] # w})
    IN  [k \in DOMAIN kept |-> q[kept[k]]]

\* open_slot, once for each element of ws (waiters, or {} for none)
OpenSlots(s, ws) ==
    [s EXCEPT
        !.slots = @ \o [k \in DOMAIN ws |-> Slot("Opening", ws[k])],
        !.effects = @ \o [k \in DOMAIN ws |->
                              Effect("Open", Len(s.slots) + k)]]

\* waiters take the idle slots in slot order (each is pinged first) and then
\* new slots while there is room; the others keep their places in the queue
DriveWaiters(s) ==
    LET idle  == InOrder(In(s, {"Idle"}))
        reuse == Min({Len(s.waiters), Len(idle)})
        fresh == Min({Len(s.waiters) - reuse,
                      Max({0, SlotMax - Cardinality(Live(s))})})
        ping(k) == CHOOSE j \in 1..reuse : idle[j] = k
        taken == {idle[j] : j \in 1..reuse}
        pinged == [s EXCEPT
            !.slots = [k \in DOMAIN @ |->
                IF k \in taken THEN Slot("Validating", {s.waiters[ping(k)]})
                               ELSE @[k]],
            !.effects = @ \o [j \in 1..reuse |-> Effect("Ping", idle[j])],
            !.waiters = SubSeq(@, reuse + fresh + 1, Len(@))]
    IN  IF s.closing THEN s
        ELSE OpenSlots(pinged, [k \in 1..fresh |-> {s.waiters[reuse + k]}])

EnsureMinOpening(s) ==
    LET missing == Max({0, SlotMin - Cardinality(Live(s))})
    IN  IF s.closing THEN s ELSE OpenSlots(s, [k \in 1..missing |-> {}])

ReleaseSlotAt(s, i) ==
    IF s.closing THEN Emit(SetSlot(s, i, "Closing", {}), "Close", i)
                 ELSE SetSlot(s, i, "Idle", {})

\* a failed open or ping puts its waiter back in front
Requeue(s, w) ==
    IF s.closing \/ w = {} THEN s
    ELSE [s EXCEPT !.waiters = <<CHOOSE x \in w : TRUE>> \o @]

-----------------------------------------------------------------------------
(* Operations *)

New == EnsureMinOpening([slots |-> <<>>, waiters |-> <<>>, effects |-> <<>>,
                         closing |-> FALSE])

Init == lc = New /\ asked = 0 /\ inflight = {} /\ faults = 0

\* an acquire on a pool that is closing is refused and changes nothing
RequestAcquire ==
    /\ ~lc.closing /\ asked < MaxWaiters
    /\ asked' = asked + 1
    /\ lc' = DriveWaiters([lc EXCEPT !.waiters = Append(@, asked + 1)])
    /\ UNCHANGED <<inflight, faults>>

\* a waiter whose slot is on its way leaves the slot without a waiter; one
\* that holds its slot gives it back
Withdraw(s, w) ==
    LET held == {i \in DOMAIN s.slots : s.slots[i].waiter = {w}}
        left == [s EXCEPT !.waiters = Without(@, w)]
        i == Min(held)
    IN  IF held = {} THEN left
        ELSE IF s.slots[i].st = "CheckedOut"
             THEN DriveWaiters(ReleaseSlotAt(left, i))
             ELSE [left EXCEPT !.slots[i].waiter = {}]

CancelAcquire(w) ==
    /\ w <= asked
    /\ lc' = Withdraw(lc, w)
    /\ UNCHANGED <<asked, inflight, faults>>

\* the driver drains the effects and performs them
TakeEffects ==
    /\ lc.effects # <<>>
    /\ inflight' = inflight \cup ToSet(lc.effects)
    /\ lc' = [lc EXCEPT !.effects = <<>>]
    /\ UNCHANGED <<asked, faults>>

\* what a healthy open or ping makes of the slot
Granted(s, i) ==
    LET w == s.slots[i].waiter
    IN  IF s.closing THEN Emit(SetSlot(s, i, "Closing", {}), "Close", i)
        ELSE IF w # {} THEN SetSlot(s, i, "CheckedOut", w)
        ELSE DriveWaiters(SetSlot(s, i, "Idle", {}))

BugOpenFailed(s, i) ==
    Requeue(SetSlot(s, i, "Closed", {}), s.slots[i].waiter)

OpenFailed(s, i) ==
    EnsureMinOpening(DriveWaiters(
        Requeue(SetSlot(s, i, "Closed", {}), s.slots[i].waiter)))

BugPingFailed(s, i) ==
    Requeue(Emit(SetSlot(s, i, "Closed", {}), "Close", i), s.slots[i].waiter)

PingFailed(s, i) ==
    Requeue(Emit(SetSlot(s, i, "Retiring", {}), "Close", i), s.slots[i].waiter)

Answer(kind, i) ==
    /\ Effect(kind, i) \in inflight
    /\ inflight' = inflight \ {Effect(kind, i)}
    /\ UNCHANGED asked

\* a failure uses up one of MaxFaults
Fault == faults < MaxFaults /\ faults' = faults + 1

CompleteOpen(i, healthy) ==
    /\ Answer("Open", i) /\ lc.slots[i].st = "Opening"
    /\ \/ healthy /\ lc' = Granted(lc, i) /\ UNCHANGED faults
       \/ ~healthy /\ Fault /\ lc' = OpenFailed(lc, i)

CompletePing(i, healthy) ==
    /\ Answer("Ping", i) /\ lc.slots[i].st = "Validating"
    /\ \/ healthy /\ lc' = Granted(lc, i) /\ UNCHANGED faults
       \/ ~healthy /\ Fault /\ lc' = PingFailed(lc, i)

BugClosed(s, i) == EnsureMinOpening(SetSlot(s, i, "Closed", {}))

Closed(s, i) == EnsureMinOpening(DriveWaiters(SetSlot(s, i, "Closed", {})))

CompleteClose(i) ==
    /\ Answer("Close", i) /\ lc.slots[i].st \in {"Retiring", "Closing"}
    /\ lc' = Closed(lc, i)
    /\ UNCHANGED faults

Release(i) ==
    /\ lc.slots[i].st = "CheckedOut"
    /\ lc' = DriveWaiters(ReleaseSlotAt(lc, i))
    /\ UNCHANGED <<asked, inflight, faults>>

ReapIdle(i) ==
    /\ lc.slots[i].st = "Idle"
    /\ Fault
    /\ lc' = Emit(SetSlot(lc, i, "Retiring", {}), "Close", i)
    /\ UNCHANGED <<asked, inflight>>

\* a graceful close is refused while anything is in use or awaited; a slot
\* that is opening or validating is closed by its completion
CloseState(s) ==
    LET victims == InOrder(In(s, {"Idle", "CheckedOut"}))
    IN  [s EXCEPT
            !.closing = TRUE,
            !.waiters = <<>>,
            !.slots = [k \in DOMAIN @ |->
                IF k \in ToSet(victims) THEN Slot("Closing", {}) ELSE @[k]],
            !.effects = @ \o [j \in DOMAIN victims |->
                                  Effect("Close", victims[j])]]

BeginClose(force) ==
    /\ \/ force
       \/ In(lc, {"CheckedOut", "Validating", "Opening"}) = {}
            /\ lc.waiters = <<>>
    /\ lc' = CloseState(lc)
    /\ UNCHANGED <<asked, inflight, faults>>

CompleteSome(i) ==
    \/ \E healthy \in BOOLEAN : CompleteOpen(i, healthy) \/ CompletePing(i, healthy)
    \/ CompleteClose(i)

Complete == \E i \in DOMAIN lc.slots : CompleteSome(i)
ReleaseSome == \E i \in DOMAIN lc.slots : Release(i)

Next ==
    \/ RequestAcquire \/ TakeEffects
    \/ \E w \in WaiterIds : CancelAcquire(w)
    \/ Complete \/ ReleaseSome
    \/ \E i \in DOMAIN lc.slots : ReapIdle(i)
    \/ \E force \in BOOLEAN : BeginClose(force)

\* The driver takes the effects it is asked for, reports the results, and slots
\* that are checked out are given back some day.  This is weak fairness of the
\* three actions with ENABLED written out, which TLC evaluates much faster;
\* OneEffectPerSlot makes every effect in flight one that can be answered.
Fairness ==
    /\ <>[](lc.effects # <<>>) => []<><<TakeEffects>>_vars
    /\ <>[](inflight # {}) => []<><<Complete>>_vars
    /\ <>[](In(lc, {"CheckedOut"}) # {}) => []<><<ReleaseSome>>_vars

Spec == Init /\ [][Next]_vars /\ Fairness

-----------------------------------------------------------------------------
(* Properties *)

Outstanding == ToSet(lc.effects) \cup inflight
Expected(i) ==
    CASE lc.slots[i].st = "Opening" -> {Effect("Open", i)}
      [] lc.slots[i].st = "Validating" -> {Effect("Ping", i)}
      [] lc.slots[i].st \in {"Retiring", "Closing"} -> {Effect("Close", i)}
      [] OTHER -> {}

TypeOK ==
    /\ lc.slots \in Seq([st : SlotStates, waiter : SUBSET WaiterIds])
    /\ lc.waiters \in Seq(1..asked) /\ lc.closing \in BOOLEAN
    /\ asked \in 0..MaxWaiters /\ faults \in 0..MaxFaults
    /\ Outstanding \subseteq [kind : {"Open", "Ping", "Close"},
                              slot : DOMAIN lc.slots]

\* Every effect the driver is asked for, or is still performing, is the one its
\* slot waits for, and a slot that waits has exactly one: no completion is ever
\* answered by InvalidState, none is missing, and none is asked for twice
\* (complete_open, complete_ping, complete_close).
OneEffectPerSlot ==
    /\ \A i \in DOMAIN lc.slots :
        {e \in Outstanding : e.slot = i} = Expected(i)
    /\ \A j, k \in DOMAIN lc.effects :
        lc.effects[j] = lc.effects[k] => j = k
    /\ ToSet(lc.effects) \cap inflight = {}

\* A waiter is in one place: queued once, or carried by one slot.  Otherwise a
\* slot would be handed to a waiter twice, or to one that has gone.
OnePlacePerWaiter ==
    \A w \in WaiterIds :
        Cardinality({j \in DOMAIN lc.waiters : lc.waiters[j] = w})
            + Cardinality({i \in DOMAIN lc.slots : w \in lc.slots[i].waiter}) <= 1

\* Slots that are not closed stay between min and max, whatever order opens,
\* pings and closes finish in (live_slot_count).
NotClosed == {i \in DOMAIN lc.slots : lc.slots[i].st # "Closed"}
WithinLimits ==
    /\ Cardinality(NotClosed) <= SlotMax
    /\ ~lc.closing => Cardinality(NotClosed) >= SlotMin

\* complete_ping and reap_idle do not drive the waiters, so a waiter that an idle
\* slot or a new one could serve may be left in the queue (NoMissedWakeup).  There
\* are never more of those than slots being retired: each of them is owed a
\* complete_close, which serves the queue.
QueueIsOwed ==
    LET retiring == Cardinality(In(lc, {"Retiring"}))
        free == Cardinality(In(lc, {"Idle"})) + (SlotMax - Cardinality(NotClosed))
    IN  Len(lc.waiters) <= retiring \/ free <= retiring

\* The invariant that the repository's own lifecycle test asserts: "idle slot
\* coexisted with a queued waiter: missed wakeup".  The code does not keep it.
NoMissedWakeup == ~lc.closing => In(lc, {"Idle"}) = {} \/ lc.waiters = <<>>

\* Nobody waits for ever: a waiter is granted a slot, cancelled, or turned away
\* by a close.
Waiting(w) ==
    \/ w \in ToSet(lc.waiters)
    \/ ~lc.closing /\ \E i \in In(lc, {"Opening", "Validating"}) :
                        w \in lc.slots[i].waiter
WaiterServed == \A w \in WaiterIds : Waiting(w) ~> ~Waiting(w)

\* A closed pool ends with every slot closed, the ones that were still opening
\* or validating when begin_close ran included.
CloseDrains == lc.closing ~> (lc.closing /\ NotClosed = {})

-----------------------------------------------------------------------------
\* In every order of completions, cancellations and closes the machine and its
\* driver agree on what is outstanding, and the slots stay within bounds.
SlotsConsistent ==
    TypeOK /\ OneEffectPerSlot /\ OnePlacePerWaiter /\ WithinLimits

\* Every waiter is answered and every closed pool drains, once the driver
\* answers its effects and callers release what they hold.
EveryoneAnswered == WaiterServed /\ CloseDrains
=============================================================================
