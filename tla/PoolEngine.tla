----------------------------- MODULE PoolEngine -----------------------------
(***************************************************************************)
(* The connection pool as its threads see it: acquiring tasks, guards that *)
(* release, drop or fall out of scope, the one reaper task, calls of       *)
(* close, observers, and the drop of the last handle.                      *)
(*                                                                         *)
(* A step is a section of code that holds the state mutex, together with   *)
(* the backend call (create, ping, close) that precedes it without the     *)
(* lock.  Loops that run under the lock take one step per iteration with   *)
(* `lock` held, so nothing interleaves except the lock-free send of a      *)
(* dropped guard.                                                          *)
(***************************************************************************)
EXTENDS PoolState

CONSTANTS
    Closers,      \* calls of close
    InitMode,     \* PoolConfig::getmode
    SetModes,     \* getmodes the application may switch to
    AskClasses,   \* classes acquire options may name
    AskNew,       \* subset of BOOLEAN: values of AcquireOptions::wants_new
    Environments, \* sets of events, see below; a behaviour has one of them
    MaxConnId     \* bound: highest connection id a behaviour may allocate

(***************************************************************************)
(* The events an environment may produce:                                  *)
(*   "cancel"   a waiting acquire is cancelled or its future dropped       *)
(*   "unfit"    a transport dies, or a session outlives max_lifetime       *)
(*   "ping"     ping_interval is such that a candidate may need a ping     *)
(*   "noping"   ping_interval is such that a candidate may need none       *)
(*   "refuse"   the database refuses a new session                         *)
(*   "discard"  a holder drops its connection from the pool                *)
(*   "idle"     timeout_secs > 0 at start, idle connections reach it       *)
(*   "retime"   timeout_secs is set and reset while the pool runs          *)
(*   "force"    close may be called with force                             *)
(*   "forget"   the application drops every handle of the pool             *)
(*   "expire"   the deadline of a TIMEDWAIT passes while it waits          *)
(*   "class"    acquires name another class than the pool's                *)
(*   "new"      acquires ask for PURITY_NEW                                *)
(*   "mode"     the application switches the getmode                       *)
(***************************************************************************)
ASSUME EngineAssumption ==
    /\ InitMode \in Modes /\ SetModes \subseteq Modes
    /\ AskClasses \subseteq Classes /\ AskNew \subseteq BOOLEAN
    /\ MaxConnId \in Nat /\ PoolMin <= MaxConnId
    /\ IsFiniteSet(Closers)

VARIABLES
    pool,      \* the record guarded by EngineInner::state
    lock,      \* who holds that mutex between two steps
    drops,     \* the drop_returns channel: ids of guards that were dropped
    pc,        \* where each acquire call stands
    lease,     \* the id in each task's PooledConnection guard
    timed,     \* tasks whose wait is bounded (TIMEDWAIT when they enqueued)
    rpc,       \* where the reaper stands
    cur,       \* reaper_main's current_request
    held,      \* the connection process_request took out of the request
    fresh,     \* the connection the reaper is creating
    cpc,       \* where each call of close stands
    joinable,  \* reaper_handle is still there to be taken
    handles,   \* some handle of the pool exists
    env,       \* the events of this behaviour, fixed
    alive      \* backend: ids whose session is open on the database

taskVars   == <<pc, lease, timed>>
reaperVars == <<rpc, cur, held, fresh>>
closeVars  == <<cpc, joinable, handles, env>>
vars == <<pool, lock, drops, taskVars, reaperVars, closeVars, alive>>

Nobody   == "nobody"
Reaper   == "reaper"
Observer == "observer"

TaskPcs   == {"start", "wait", "abort", "hold", "done", "failed"}
ReaperPcs == {"top", "process", "ping", "create", "post", "effect", "open",
              "drop", "sweep", "parked", "parked_timed", "exited"}
CloserPcs == {"idle", "take", "join", "closed", "failed"}

Init ==
    /\ env \in Environments
    /\ pool = StartState(InitMode, "idle" \in env)
    /\ lock = Nobody
    /\ drops = <<>>
    /\ pc = [t \in Tasks |-> "start"]
    /\ lease = [t \in Tasks |-> 0]
    /\ timed = {}
    /\ rpc = "top" /\ cur = {} /\ held = {} /\ fresh = {}
    /\ cpc = [c \in Closers |-> "idle"]
    /\ joinable = TRUE /\ handles = TRUE
    /\ alive = {}

-----------------------------------------------------------------------------
(* Locking.  Commit ends a section, Continue ends one loop iteration. *)

CanLock(p) == lock \in {Nobody, p}

Allocates(s) == s.next_conn_id <= MaxConnId + 1

Commit(s) == Allocates(s) /\ pool' = s /\ lock' = Nobody

Continue(p, s) == Allocates(s) /\ pool' = s /\ lock' = p

Event(f) == f \in env

Fitness == {fit \in BOOLEAN : fit \/ Event("unfit")}

Ids(conns) == {c.id : c \in conns}

\* mutant: a returned connection stays in busy
BugTakeBusy(s, conn) == s

TakeBusy(s, conn) == [s EXCEPT !.busy = @ \ {conn}]

\* mutant: a returned id is consumed without looking it up
BugDrained(s, id, fit) == s

\* drain_drop_returns, one received id
Drained(s, id, fit) ==
    LET found == {c \in s.busy : c.id = id}
    IN IF ~s.open \/ found = {} THEN s
       ELSE LET conn == CHOOSE c \in found : TRUE
            IN ReturnConnectionHelper(TakeBusy(s, conn), conn, fit)

\* the callers that begin with drain_drop_returns
MayDrain(p) ==
    \/ p \in Tasks /\ pc[p] \in {"start", "hold"} /\ handles
    \/ p = Reaper /\ rpc = "top" /\ handles
    \/ p \in Closers /\ cpc[p] = "idle" /\ handles
    \/ p = Observer /\ handles

DrainOne(p) ==
    /\ MayDrain(p) /\ CanLock(p) /\ drops # <<>>
    /\ \E fit \in Fitness : Continue(p, Drained(pool, Head(drops), fit))
    /\ drops' = Tail(drops)
    /\ UNCHANGED <<taskVars, reaperVars, closeVars, alive>>

\* the channel has been emptied; `if drain_drop_returns(..)? { wake }`
DrainDone(p) == CanLock(p) /\ drops = <<>>

AfterDrain(p) == IF lock = p THEN WakeWaiters(pool) ELSE pool

\* drain_async, stats_async, busy_count_async, open_count_async
Observe ==
    /\ lock = Observer /\ DrainDone(Observer)
    /\ Commit(AfterDrain(Observer))
    /\ UNCHANGED <<drops, taskVars, reaperVars, closeVars, alive>>

-----------------------------------------------------------------------------
(* Acquiring. *)

\* acquire_async up to the wait
Acquire(t) ==
    /\ pc[t] = "start" /\ handles /\ DrainDone(t)
    /\ IF pool.open
       THEN /\ \E cclass \in AskClasses, wantsNew \in AskNew :
                 /\ cclass = PoolClass \/ Event("class")
                 /\ wantsNew => Event("new")
                 /\ Commit(EnqueueRequest(AfterDrain(t), t, cclass, wantsNew))
            /\ pc' = [pc EXCEPT ![t] = "wait"]
            /\ timed' = IF pool.mode = "TIMEDWAIT" THEN timed \cup {t}
                        ELSE timed
       ELSE /\ Commit(AfterDrain(t))
            /\ pc' = [pc EXCEPT ![t] = "failed"]
            /\ UNCHANGED timed
    /\ UNCHANGED <<drops, lease, reaperVars, closeVars, alive>>

\* a poll of acquire_wait_loop begins: the task is not parked
Polls(t) == pc[t] = "wait" /\ t \notin pool.parked /\ CanLock(t)

Position(t) == RequestPosition(pool, t)

Req(t) == pool.requests[Position(t)]

\* Pending: the task registers on async_waiters before it unlocks
Park(s, t) == [s EXCEPT !.parked = @ \cup {t}]

PollFails(t) ==
    /\ Polls(t)
    /\ \/ ~pool.open
       \/ ~HasRequest(pool, t)
       \/ pool.open /\ HasRequest(pool, t) /\ Req(t).error
    /\ LET i == Position(t)
       IN Commit(AbandonRequest(
            IF pool.open /\ HasRequest(pool, t)
            THEN SetRequest(pool, i, [pool.requests[i] EXCEPT !.error = FALSE])
            ELSE pool, t))
    /\ pc' = [pc EXCEPT ![t] = "abort"]
    /\ UNCHANGED <<drops, lease, timed, reaperVars, closeVars, alive>>

\* the request is live, and fulfill gets past its early returns
Pollable(t) == Polls(t) /\ pool.open /\ HasRequest(pool, t) /\ ~Req(t).error

PollCompleted(t) ==
    /\ Pollable(t) /\ Req(t).completed
    /\ Commit(FinishCompletedRequest(pool, Position(t)))
    /\ IF Req(t).conn = {}
       THEN pc' = [pc EXCEPT ![t] = "abort"] /\ UNCHANGED lease
       ELSE /\ pc' = [pc EXCEPT ![t] = "hold"]
            /\ \E c \in Req(t).conn : lease' = [lease EXCEPT ![t] = c.id]
    /\ UNCHANGED <<drops, timed, reaperVars, closeVars, alive>>

PollPending(t) ==
    /\ Pollable(t) /\ ~Req(t).completed /\ Req(t).bg_processing
    /\ Commit(Park(pool, t))
    /\ UNCHANGED <<drops, taskVars, reaperVars, closeVars, alive>>

Scans(t) == Pollable(t) /\ ~Req(t).completed /\ ~Req(t).bg_processing

\* the candidate is dropped; a request that was pinged before stops scanning
ScanUnfit(t) ==
    /\ Event("unfit")
    /\ Scans(t) /\ HasCandidate(pool, Position(t))
    /\ LET s == CheckUnfit(pool, Position(t))
       IN IF Req(t).requires_ping THEN Commit(Park(s, t)) ELSE Continue(t, s)
    /\ UNCHANGED <<drops, taskVars, reaperVars, closeVars, alive>>

ScanNeedsPing(t) ==
    /\ Event("ping")
    /\ Scans(t) /\ HasCandidate(pool, Position(t))
    /\ Commit(Park(CheckNeedsPing(pool, Position(t)), t))
    /\ UNCHANGED <<drops, taskVars, reaperVars, closeVars, alive>>

\* the candidate is given to the request, and the same poll finishes it
ScanFit(t) ==
    /\ Event("noping")
    /\ Scans(t) /\ HasCandidate(pool, Position(t))
    /\ LET s == CheckFit(pool, Position(t))
       IN Commit(FinishCompletedRequest(s, Position(t)))
    /\ pc' = [pc EXCEPT ![t] = "hold"]
    /\ lease' = [lease EXCEPT ![t] = Candidate(pool, Position(t)).id]
    /\ UNCHANGED <<drops, timed, reaperVars, closeVars, alive>>

ScanExhausted(t) ==
    /\ Scans(t) /\ ~HasCandidate(pool, Position(t))
    /\ IF NoConnectionAvailable(pool)
       THEN /\ Commit(AbandonRequest(pool, t))
            /\ pc' = [pc EXCEPT ![t] = "abort"]
       ELSE /\ Commit(Park(QueueForBg(pool, Position(t)), t))
            /\ UNCHANGED pc
    /\ UNCHANGED <<drops, lease, timed, reaperVars, closeVars, alive>>

\* AsyncAcquireRequest::abandon, after an error or when the future is dropped
Abandon(t) ==
    /\ lock = Nobody
    /\ Commit(WakeWaiters(AbandonRequest(pool, t)))
    /\ pc' = [pc EXCEPT ![t] = "failed"]
    /\ UNCHANGED <<drops, lease, timed, reaperVars, closeVars, alive>>

AbortWait(t)  == pc[t] = "abort" /\ Abandon(t)
CancelWait(t) == Event("cancel") /\ pc[t] = "wait" /\ Abandon(t)
Timeout(t)    == Event("expire") /\ t \in timed /\ pc[t] = "wait" /\ Abandon(t)

-----------------------------------------------------------------------------
(* Giving a connection back. *)

LeasedConn(t) == {c \in pool.busy : c.id = lease[t]}

\* PooledConnection::release; on ConnectionNotAcquired the guard is re-armed
\* and its Drop sends the id
Release(t) ==
    /\ pc[t] = "hold" /\ DrainDone(t)
    /\ CASE ~pool.open -> Commit(pool) /\ UNCHANGED drops
         [] pool.open /\ LeasedConn(t) = {} ->
              /\ Commit(WakeWaiters(NotifyBg(pool)))
              /\ drops' = Append(drops, lease[t])
         [] OTHER ->
              /\ \E fit \in Fitness, c \in LeasedConn(t) :
                   Commit(WakeWaiters(
                     ReturnConnectionHelper(TakeBusy(pool, c), c, fit)))
              /\ UNCHANGED drops
    /\ pc' = [pc EXCEPT ![t] = "done"]
    /\ UNCHANGED <<lease, timed, reaperVars, closeVars, alive>>

\* PooledConnection::drop_from_pool
DropFromPool(t) ==
    /\ Event("discard") /\ pc[t] = "hold" /\ DrainDone(t)
    /\ IF ~pool.open \/ LeasedConn(t) = {} THEN Commit(pool)
       ELSE \E c \in LeasedConn(t) :
              Commit(WakeWaiters(DropConn(TakeBusy(pool, c), c)))
    /\ pc' = [pc EXCEPT ![t] = "done"]
    /\ UNCHANGED <<drops, lease, timed, reaperVars, closeVars, alive>>

\* Drop of an armed guard: no lock is taken
DropGuard(t) ==
    /\ pc[t] = "hold" /\ lock # t
    /\ drops' = Append(drops, lease[t])
    /\ pool' = WakeWaiters(NotifyBg(pool))
    /\ pc' = [pc EXCEPT ![t] = "done"]
    /\ UNCHANGED <<lock, lease, timed, reaperVars, closeVars, alive>>

-----------------------------------------------------------------------------
(* The reaper: one iteration of reaper_main's loop. *)

\* top of the loop: the Weak upgrades, drop returns are drained, a request is
\* picked unless post-processing left one
ReaperTop ==
    /\ rpc = "top" /\ handles /\ DrainDone(Reaper)
    /\ LET picks == pool.open /\ cur = {}
           next  == IF picks THEN PeekNextRequest(pool) ELSE cur
       IN /\ Commit(IF picks THEN GetNextRequest(pool) ELSE pool)
          /\ IF pool.open /\ next # {}
             THEN rpc' = "process" /\ cur' = next
             ELSE rpc' = "effect" /\ cur' = {}
    /\ UNCHANGED <<drops, taskVars, held, fresh, closeVars, alive>>

\* process_request, the section that decides what to do
ReaperProcess(t) ==
    /\ rpc = "process" /\ t \in cur /\ lock = Nobody
    /\ LET r     == Req(t)
           known == HasRequest(pool, t)
           taken == SetRequest(pool, Position(t), [r EXCEPT !.conn = {}])
           pings == known /\ r.requires_ping /\ r.conn # {}
           makes == /\ known /\ ~r.requires_ping
                    /\ r.is_replacing \/ r.is_extra \/ ~CclassMatches(r)
       IN \/ /\ pings
             /\ Commit(taken)
             /\ rpc' = "ping" /\ held' = r.conn /\ UNCHANGED fresh
          \/ /\ makes
             /\ Commit([taken EXCEPT !.next_conn_id = @ + 1])
             /\ rpc' = "create" /\ held' = r.conn
             /\ fresh' = {NewConn(pool.next_conn_id, r.cclass, r.is_extra)}
          \/ /\ ~pings /\ ~makes
             /\ Commit(pool)
             /\ rpc' = "post" /\ UNCHANGED <<held, fresh>>
    /\ UNCHANGED <<drops, taskVars, cur, closeVars, alive>>

\* the ping returns: a healthy connection goes back to its request if there
\* still is one, an unhealthy one is closed without the lock
ReaperPing(t, healthy) ==
    /\ rpc = "ping" /\ t \in cur /\ lock = Nobody
    /\ IF healthy
       THEN /\ Commit(IF HasRequest(pool, t)
                      THEN SetRequest(pool, Position(t),
                                      [Req(t) EXCEPT !.conn = held])
                      ELSE pool)
            /\ UNCHANGED alive
       ELSE Commit(pool) /\ alive' = alive \ Ids(held)
    /\ rpc' = "post" /\ held' = {}
    /\ UNCHANGED <<drops, taskVars, cur, fresh, closeVars>>

\* the dedicated create returns; the replaced connection is retired first
Retired(s, conns) ==
    IF conns = {} THEN s ELSE DropConn(s, CHOOSE c \in conns : TRUE)

ReaperCreate(t, ok) ==
    /\ rpc = "create" /\ t \in cur /\ lock = Nobody
    /\ ok \/ Event("refuse")
    /\ LET s == Retired(pool, held)
           i == RequestPosition(s, t)
       IN Commit(
            CASE HasRequest(s, t) /\ ok ->
                   SetRequest(s, i, [s.requests[i] EXCEPT !.conn = fresh])
              [] HasRequest(s, t) /\ ~ok ->
                   SetRequest(s, i, [s.requests[i] EXCEPT !.error = TRUE])
              [] ~HasRequest(s, t) /\ ok ->
                   NotifyBg([s EXCEPT !.to_drop =
                                @ \cup {NotExtra(c) : c \in fresh}])
              [] OTHER -> s)
    /\ alive' = IF ok THEN alive \cup Ids(fresh) ELSE alive
    /\ rpc' = "post" /\ held' = {} /\ fresh' = {}
    /\ UNCHANGED <<drops, taskVars, cur, closeVars>>

ReaperPost(t) ==
    /\ rpc = "post" /\ t \in cur /\ lock = Nobody
    /\ LET s == PostProcessRequest(pool, t)
       IN Commit(GetNextRequest(s)) /\ cur' = PeekNextRequest(s)
    /\ rpc' = "top"
    /\ UNCHANGED <<drops, taskVars, held, fresh, closeVars, alive>>

\* a growth effect moves to in_flight_open_effects and its create begins
ReaperEffect ==
    /\ rpc = "effect" /\ lock = Nobody
    /\ IF pool.open /\ pool.open_effects # <<>>
       THEN LET id == Head(pool.open_effects)
            IN /\ Commit([pool EXCEPT !.open_effects = Tail(@),
                                      !.in_flight = @ \cup {id}])
               /\ fresh' = {NewConn(id, PoolClass, FALSE)}
               /\ rpc' = "open"
       ELSE Commit(pool) /\ rpc' = "drop" /\ UNCHANGED fresh
    /\ UNCHANGED <<drops, taskVars, cur, held, closeVars, alive>>

ReaperOpen(ok) ==
    /\ rpc = "open" /\ lock = Nobody
    /\ ok \/ Event("refuse")
    /\ \E c \in fresh :
         Commit(IF ok THEN PostCreateConn(pool, c)
                ELSE PostCreateFailed(pool, c.id))
    /\ alive' = IF ok THEN alive \cup Ids(fresh) ELSE alive
    /\ rpc' = "top" /\ fresh' = {}
    /\ UNCHANGED <<drops, taskVars, cur, held, closeVars>>

\* a connection of the close queue is popped and its transport closed
ReaperDrop ==
    /\ rpc = "drop" /\ lock = Nobody
    /\ \/ /\ pool.to_drop = {}
          /\ Commit(pool) /\ rpc' = "sweep" /\ UNCHANGED alive
       \/ \E c \in pool.to_drop :
            /\ Commit([pool EXCEPT !.to_drop = @ \ {c}])
            /\ alive' = alive \ {c.id}
            /\ rpc' = "top"
    /\ UNCHANGED <<drops, taskVars, cur, held, fresh, closeVars>>

\* sweep_idle_timeout, one connection from the head of a free list
ReaperSweep(list) ==
    /\ rpc = "sweep" /\ CanLock(Reaper) /\ pool.timeout
    /\ ActiveOpenCount(pool) > PoolMin /\ pool[list] # <<>>
    /\ Continue(Reaper, DropConn([pool EXCEPT ![list] = Tail(@)],
                                 Head(pool[list])))
    /\ UNCHANGED <<drops, taskVars, reaperVars, closeVars, alive>>

\* mutant: the reaper never exits
BugRestNeverExits ==
    /\ rpc = "sweep" /\ CanLock(Reaper)
    /\ Commit(pool)
    /\ rpc' = IF pool.open_effects # <<>> \/ pool.to_drop # {} THEN "top"
              ELSE "parked"
    /\ UNCHANGED <<drops, taskVars, cur, held, fresh, closeVars, alive>>

\* the rest of the iteration: exit, go round again, or park on bg
ReaperRest ==
    /\ rpc = "sweep" /\ CanLock(Reaper)
    /\ Commit(pool)
    /\ rpc' = CASE ~pool.open /\ pool.to_drop = {} -> "exited"
                [] pool.open_effects # <<>> \/ pool.to_drop # {}
                    \/ PeekNextRequest(pool) # {} -> "top"
                [] pool.timeout /\ ActiveOpenCount(pool) > PoolMin
                    /\ ~NothingFree(pool) -> "parked_timed"
                [] OTHER -> "parked"
    /\ UNCHANGED <<drops, taskVars, cur, held, fresh, closeVars, alive>>

\* a stored permit, or the one-second tick when idle connections may time out
ReaperWake ==
    /\ rpc \in {"parked", "parked_timed"} /\ pool.bg
    /\ pool' = [pool EXCEPT !.bg = FALSE]
    /\ rpc' = "top"
    /\ UNCHANGED <<lock, drops, taskVars, cur, held, fresh, closeVars, alive>>

ReaperTick ==
    /\ rpc = "parked_timed"
    /\ rpc' = "top"
    /\ UNCHANGED <<pool, lock, drops, taskVars, cur, held, fresh, closeVars,
                   alive>>

\* the Weak no longer upgrades; EngineInner's Drop closed what was left
ReaperGone ==
    /\ rpc = "top" /\ ~handles /\ lock = Nobody
    /\ Commit(CloseAll(pool))
    /\ alive' = alive \ Ids(OwnedConns(pool))
    /\ rpc' = "exited" /\ cur' = {}
    /\ UNCHANGED <<drops, taskVars, held, fresh, closeVars>>

-----------------------------------------------------------------------------
(* Closing the pool. *)

\* request_worker_shutdown
CloseRequest(c, force) ==
    /\ cpc[c] = "idle" /\ handles /\ DrainDone(c)
    /\ force => Event("force")
    /\ \/ /\ ~pool.open
          /\ Commit(WakeWaiters(NotifyBg(pool)))
          /\ cpc' = [cpc EXCEPT ![c] = "take"]
       \/ /\ pool.open /\ ~force
          /\ \/ pool.busy # {}
             \/ \E i \in DOMAIN pool.requests : pool.requests[i].waiting
          /\ Commit(AfterDrain(c))
          /\ cpc' = [cpc EXCEPT ![c] = "failed"]
       \/ /\ pool.open
          /\ \/ force
             \/ /\ pool.busy = {}
                /\ \A i \in DOMAIN pool.requests : ~pool.requests[i].waiting
          /\ Commit(ShutDown(pool))
          /\ cpc' = [cpc EXCEPT ![c] = "take"]
    /\ UNCHANGED <<drops, taskVars, reaperVars, joinable, handles, env, alive>>

\* the reaper's join handle is taken; a call that finds none returns
CloseTake(c) ==
    /\ cpc[c] = "take"
    /\ pool' = NotifyBg(pool)
    /\ cpc' = [cpc EXCEPT ![c] = IF joinable THEN "join" ELSE "closed"]
    /\ joinable' = FALSE
    /\ UNCHANGED <<lock, drops, taskVars, reaperVars, handles, env, alive>>

CloseJoined(c) ==
    /\ cpc[c] = "join" /\ rpc = "exited"
    /\ cpc' = [cpc EXCEPT ![c] = "closed"]
    /\ UNCHANGED <<pool, lock, drops, taskVars, reaperVars, joinable, handles,
                   env, alive>>

\* the caller's Cx is cancelled, or the close future dropped, while it joins
CloseCancelled(c) ==
    /\ Event("cancel") /\ cpc[c] = "join"
    /\ cpc' = [cpc EXCEPT ![c] = "failed"]
    /\ UNCHANGED <<pool, lock, drops, taskVars, reaperVars, joinable, handles,
                   env, alive>>

\* Drop of the last PoolEngine handle: guards and calls own one each
LastHandle ==
    /\ Event("forget") /\ handles /\ lock = Nobody
    /\ \A t \in Tasks : pc[t] \in {"start", "done", "failed"}
    /\ \A c \in Closers : cpc[c] \in {"idle", "closed", "failed"}
    /\ Commit(NotifyBg(CloseAll(pool)))
    /\ alive' = alive \ Ids(OwnedConns(pool))
    /\ handles' = FALSE
    /\ UNCHANGED <<drops, taskVars, reaperVars, cpc, joinable, env>>

-----------------------------------------------------------------------------
(* Settings changed while the pool runs. *)

SetGetmode(m) ==
    /\ Event("mode") /\ lock = Nobody /\ handles /\ m # pool.mode
    /\ Commit([pool EXCEPT !.mode = m])
    /\ UNCHANGED <<drops, taskVars, reaperVars, closeVars, alive>>

SetTimeoutSecs ==
    /\ Event("retime") /\ lock = Nobody /\ handles
    /\ Commit(NotifyBg([pool EXCEPT !.timeout = ~@]))
    /\ UNCHANGED <<drops, taskVars, reaperVars, closeVars, alive>>

-----------------------------------------------------------------------------
TaskStep(t) ==
    \/ DrainOne(t)
    \/ Acquire(t) \/ PollFails(t) \/ PollCompleted(t) \/ PollPending(t)
    \/ ScanUnfit(t) \/ ScanNeedsPing(t) \/ ScanFit(t) \/ ScanExhausted(t)
    \/ AbortWait(t) \/ CancelWait(t) \/ Timeout(t)
    \/ Release(t) \/ DropFromPool(t) \/ DropGuard(t)

ReaperStep ==
    \/ DrainOne(Reaper)
    \/ ReaperTop
    \/ \E t \in Tasks : \/ ReaperProcess(t)
                        \/ \E b \in BOOLEAN : ReaperPing(t, b)
                        \/ \E b \in BOOLEAN : ReaperCreate(t, b)
                        \/ ReaperPost(t)
    \/ ReaperEffect
    \/ \E b \in BOOLEAN : ReaperOpen(b)
    \/ ReaperDrop
    \/ \E list \in {"free_new", "free_used"} : ReaperSweep(list)
    \/ ReaperRest \/ ReaperWake \/ ReaperTick \/ ReaperGone

CloserStep(c) ==
    \/ DrainOne(c)
    \/ \E force \in BOOLEAN : CloseRequest(c, force)
    \/ CloseTake(c) \/ CloseJoined(c) \/ CloseCancelled(c)

Next ==
    \/ \E t \in Tasks : TaskStep(t)
    \/ ReaperStep
    \/ \E c \in Closers : CloserStep(c)
    \/ DrainOne(Observer) \/ Observe
    \/ LastHandle
    \/ \E m \in SetModes : SetGetmode(m)
    \/ SetTimeoutSecs

Spec == Init /\ [][Next]_vars

(***************************************************************************)
(* Fairness.  The reaper is a task on a runtime thread of its own and the  *)
(* backend calls it makes are bounded by connect and ping timeouts; a      *)
(* woken task is polled again; whoever holds the mutex runs on and         *)
(* releases it; a bounded wait times out; close runs on.  Nothing is       *)
(* assumed of acquire, cancellation or the settings.  FairSpec adds the    *)
(* one thing asked of the application: a guard is given back some day.     *)
(***************************************************************************)
Polled(t) ==
    \/ PollFails(t) \/ PollCompleted(t) \/ PollPending(t)
    \/ ScanUnfit(t) \/ ScanNeedsPing(t) \/ ScanFit(t) \/ ScanExhausted(t)
    \/ AbortWait(t) \/ Timeout(t)

GivesBack(t) == Release(t) \/ DropFromPool(t) \/ DropGuard(t)

EngineFairness ==
    /\ WF_vars(ReaperStep)
    /\ \A t \in Tasks : WF_vars(Polled(t)) /\ WF_vars(lock = t /\ TaskStep(t))
    /\ \A c \in Closers :
         /\ WF_vars(CloseTake(c) \/ CloseJoined(c))
         /\ WF_vars(lock = c /\ CloserStep(c))
    /\ WF_vars(lock = Observer /\ (DrainOne(Observer) \/ Observe))

FairSpec == Spec /\ EngineFairness /\ \A t \in Tasks : WF_vars(GivesBack(t))

-----------------------------------------------------------------------------
(* Properties. *)

\* Every variable stays in its domain: pool is the record PoolState declares.
TypeOK ==
    /\ PoolType(pool)
    /\ lock \in Tasks \cup Closers \cup {Nobody, Reaper, Observer}
    /\ drops \in Seq(Nat)
    /\ pc \in [Tasks -> TaskPcs] /\ lease \in [Tasks -> Nat]
    /\ timed \subseteq Tasks
    /\ rpc \in ReaperPcs /\ cur \in Option(Tasks)
    /\ held \in Option(PooledConn) /\ fresh \in Option(PooledConn)
    /\ cpc \in [Closers -> CloserPcs]
    /\ joinable \in BOOLEAN /\ handles \in BOOLEAN
    /\ alive \subseteq ConnIds

\* connections the pool can still reach, with the one the reaper took out
Tracked == OwnedConns(pool) \cup held

Slots ==
    ActiveOpenCount(pool) + Cardinality(pool.to_drop) + Cardinality(held)

Holders == {t \in Tasks : pc[t] = "hold"}

\* No double hand-out: a connection is in one list, one request, one guard or
\* in the reaper's hands, never in two of them (drain_drop_returns, reject and
\* the hand-over loops move it).
NoDoubleHandout ==
    /\ Cardinality(Ids(Tracked)) = Slots
    /\ \A t, u \in Holders : lease[t] = lease[u] => t = u

\* A connection created for a request of another class may be overwritten in
\* its request and lost, so what that breaks is stated for pools of one class.
\* Environments with pings come with classes: fulfill may leave a request that
\* requires_ping pending without queueing it (engine.rs:152), so a parked
\* request need not be queued there either.
OneClass == ~Event("class")

\* No leak, no use after close: the sessions open on the database are exactly
\* those the pool can still reach and will therefore reuse or close.
SessionsAccounted == OneClass => alive = Ids(Tracked)

\* While the pool is open, busy records exactly the guards that exist and the
\* ids dropped guards have sent, so release never meets
\* ConnectionNotAcquired and no connection stays busy with nobody holding it.
BusyMatchesGuards ==
    pool.open =>
        /\ Ids(pool.busy) = {lease[t] : t \in Holders} \cup ToSet(drops)
        /\ Cardinality(pool.busy) = Cardinality(Holders) + Len(drops)

\* idle, in use, promised to a request or being validated
InService ==
    (OwnedConns(pool) \ pool.to_drop) \cup (IF rpc = "ping" THEN held ELSE {})

\* Sessions in service stay within max, with opens pending, connections being
\* replaced and waiters giving up, unless the application switches the getmode:
\* only FORCEGET goes beyond it.
WithinMax ==
    ~Event("mode") => Cardinality({c \in InService : ~c.is_pool_extra}) <= PoolMax

\* No lost wakeup: a task whose poll would now return is not left registered on
\* async_waiters, except while the reaper is about to post-process its request.
NoLostWakeup ==
    \A t \in pool.parked :
        /\ pool.open /\ HasRequest(pool, t) /\ ~Req(t).completed
        /\ Req(t).error => rpc = "post" /\ t \in cur

\* The reaper never sleeps through work: without a permit there is no returned
\* id, no open to start, no transport to close and no waiter it could serve.
ReaperSeesWork ==
    rpc \in {"parked", "parked_timed"} /\ ~pool.bg =>
        /\ pool.open /\ drops = <<>>
        /\ pool.open_effects = <<>> /\ pool.to_drop = {}
        /\ \A t \in PeekNextRequest(pool) : ~Req(t).waiting

\* nothing will happen until a task or the application does something
Quiescent ==
    /\ rpc \in {"parked", "parked_timed"} /\ ~pool.bg
    /\ drops = <<>> /\ lock = Nobody /\ pool.open

\* A parked task is in the reaper's queue: fulfill never returns pending on a
\* request it has neither completed nor queued.
ParkedIsQueued ==
    OneClass => \A t \in pool.parked : HasRequest(pool, t) =>
        Req(t).bg_processing \/ Req(t).completed \/ Req(t).error

\* No reservation leaks: a pool at rest has no slot reserved for an open that
\* nobody will perform (open_effects, in_flight, requests that are opening).
NoReservationLeak == Quiescent => PendingOpenCount(pool) = 0

\* While sessions can be opened, a pool at rest holds at least min of them,
\* whatever was dropped, swept, discarded or found dead.
KeepsMin ==
    Quiescent /\ ~Event("refuse") => ActiveOpenCount(pool) >= PoolMin

\* close joins the reaper, so all transports are closed when it returns.
CloseClosesAll ==
    OneClass => \A c \in Closers : cpc[c] = "closed" => alive = {}

\* No party of the engine sleeps through its work: neither a parked task, nor
\* the reaper, nor both waiting for each other.
NobodyOversleeps == NoLostWakeup /\ ReaperSeesWork /\ ParkedIsQueued

\* No session outlives the pool's knowledge of it, nor its close.
NothingLeaks == SessionsAccounted /\ CloseClosesAll

\* A pool at rest is complete: no reservation is left over and min is restored.
RestsComplete == NoReservationLeak /\ KeepsMin

\* What a task receives is what it asked for: a connection of the class it
\* named and, under PURITY_NEW, one nobody has used.
HandoutHonoursRequest ==
    [][\A t \in Tasks : pc[t] = "wait" /\ pc'[t] = "hold" =>
        /\ \E c \in pool'.busy : c.id = lease'[t] /\ Accepts(Req(t), c)
        /\ Req(t).wants_new =>
             \A c \in Tracked : c.id = lease'[t] => ~c.ever_acquired]_vars

\* the request of t stands before that of u, asks for the same, and both wait
Ahead(t, u) ==
    /\ HasRequest(pool, t) /\ HasRequest(pool, u)
    /\ Position(t) < Position(u)
    /\ AwaitsConn(Req(t)) /\ AwaitsConn(Req(u))
    /\ Req(t).cclass = Req(u).cclass /\ Req(t).wants_new = Req(u).wants_new

ServedNow(u) ==
    \/ pc'[u] = "hold"
    \/ HasRequest(pool', u) /\ pool'.requests[RequestPosition(pool', u)].conn # {}

\* First come, first served: a parked task is never overtaken by a later
\* request that asks for the same.
FifoHandout ==
    [][\A t \in pool.parked, u \in Tasks : Ahead(t, u) => ~ServedNow(u)]_vars

\* Every acquire returns, with a connection or an error, provided guards are
\* given back.
AcquireReturns ==
    \A t \in Tasks : pc[t] = "wait" ~> pc[t] \in {"hold", "failed"}

\* close returns: the reaper it joins drains the close queue and exits.
CloseReturns ==
    \A c \in Closers : cpc[c] = "join" ~> cpc[c] \in {"closed", "failed"}
=============================================================================
