------------------------------ MODULE PoolState ------------------------------
(***************************************************************************)
(* The state a connection pool keeps under its mutex (PoolState in         *)
(* crates/oracledb/src/pool.rs) and the functions of pool.rs, pool/        *)
(* engine.rs and pool/acquire.rs that change it while the lock is held.    *)
(*                                                                         *)
(* A pool state is a record, and every function that takes                 *)
(* `&mut PoolState` is an operator from records to records.  Two fields    *)
(* stand for the two notifiers of EngineInner that those functions poke:   *)
(*   bg      the permit stored in the reaper's Notify by notify_one        *)
(*   parked  the tasks registered on async_waiters; notify_waiters empties *)
(*           it                                                            *)
(* An Option is a set of at most one element.                              *)
(*                                                                         *)
(* What is read from a clock or from the transport (connection_is_open,    *)
(* max_lifetime_session, ping_interval) is a verdict chosen when it is     *)
(* read: an unfit connection is dropped at once and never examined again,  *)
(* so the choice loses and adds nothing.                                   *)
(***************************************************************************)
EXTENDS Naturals, Sequences, FiniteSets, SequencesExt

CONSTANTS
    Tasks,       \* acquire calls: each one makes a single request
    PoolMin,         \* PoolConfig::min
    PoolMax,         \* PoolConfig::max
    Increment,   \* PoolConfig::increment
    Classes,     \* connection classes, NoClass among them
    NoClass,     \* `cclass: None`
    PoolClass    \* PoolConfig::creation_cclass

ASSUME SizeAssumption ==
    /\ PoolMin \in Nat /\ PoolMax \in Nat \ {0} /\ Increment \in Nat
    /\ PoolMin <= PoolMax
ASSUME ClassAssumption == NoClass \in Classes /\ PoolClass \in Classes
ASSUME TaskAssumption == IsFiniteSet(Tasks)

Modes == {"WAIT", "NOWAIT", "FORCEGET", "TIMEDWAIT"}

-----------------------------------------------------------------------------
(* PooledConn.  The instants it carries are replaced by verdicts. *)

Option(S) == {o \in SUBSET S : \A x, y \in o : x = y}

ConnIds == Nat \ {0}

PooledConn == [id : ConnIds, cclass : Classes, is_pool_extra : BOOLEAN,
               ever_acquired : BOOLEAN]

NewConn(id, cclass, extra) ==
    [id |-> id, cclass |-> cclass, is_pool_extra |-> extra,
     ever_acquired |-> FALSE]

NotExtra(conn) == [conn EXCEPT !.is_pool_extra = FALSE]

(* Request.  cclass_matches never changes, so it is derived. *)

Request == [task : Tasks, cclass : Classes, wants_new : BOOLEAN,
            requires_ping : BOOLEAN, bg_processing : BOOLEAN,
            is_extra : BOOLEAN, is_replacing : BOOLEAN,
            in_progress : BOOLEAN, completed : BOOLEAN, waiting : BOOLEAN,
            conn : Option(PooledConn), error : BOOLEAN]

CclassMatches(r) == r.cclass \in {NoClass, PoolClass}

Accepts(r, conn) == r.cclass = NoClass \/ conn.cclass = r.cclass

PoolStates == [open : BOOLEAN, mode : Modes,
               timeout : BOOLEAN,   \* timeout_secs > 0
               free_new : Seq(PooledConn), free_used : Seq(PooledConn),
               busy : SUBSET PooledConn, to_drop : SUBSET PooledConn,
               requests : Seq(Request), open_effects : Seq(ConnIds),
               in_flight : SUBSET ConnIds, next_conn_id : ConnIds,
               bg : BOOLEAN, parked : SUBSET Tasks]

PoolType(s) ==
    /\ s \in PoolStates
    /\ IsFiniteSet(s.busy) /\ IsFiniteSet(s.in_flight)

HasRequest(s, t) == \E i \in DOMAIN s.requests : s.requests[i].task = t

RequestPosition(s, t) ==
    CHOOSE i \in DOMAIN s.requests : s.requests[i].task = t

SetRequest(s, i, r) == [s EXCEPT !.requests[i] = r]

NotifyBg(s) == [s EXCEPT !.bg = TRUE]

WakeWaiters(s) == [s EXCEPT !.parked = {}]

-----------------------------------------------------------------------------
(* Derived counts: nothing about the size of the pool is stored. *)

RequestIsOpening(r) ==
    /\ r.bg_processing /\ ~r.requires_ping /\ ~r.completed /\ ~r.error
    /\ r.in_progress \/ r.is_extra \/ r.is_replacing

CountRequests(s, Test(_)) ==
    Cardinality({i \in DOMAIN s.requests : Test(s.requests[i])})

\* mutant: queued growth is not reserved, only opens in flight are
BugPendingOpenCount(s) ==
    Cardinality(s.in_flight) + CountRequests(s, RequestIsOpening)

PendingOpenCount(s) ==
    Len(s.open_effects) + Cardinality(s.in_flight)
        + CountRequests(s, RequestIsOpening)

HasConn(r) == r.conn # {}

ActiveOpenCount(s) ==
    Len(s.free_new) + Len(s.free_used) + Cardinality(s.busy)
        + CountRequests(s, HasConn)

ReservedOpenCount(s) == ActiveOpenCount(s) + PendingOpenCount(s)

CompatibleIdleCount(s, r) ==
    IF r.wants_new THEN 0
    ELSE Cardinality({i \in DOMAIN s.free_used : Accepts(r, s.free_used[i])})
            + (IF CclassMatches(r) THEN Len(s.free_new) ELSE 0)

DemandsGrowth(r) ==
    /\ r.waiting /\ CclassMatches(r) /\ ~r.completed /\ ~r.requires_ping
    /\ ~r.is_extra /\ ~r.is_replacing /\ r.conn = {} /\ ~r.error

CompatibleWaitingDemand(s) == CountRequests(s, DemandsGrowth)

Monus(a, b) == IF a > b THEN a - b ELSE 0     \* u32::saturating_sub

Least(a, b) == IF a < b THEN a ELSE b

Greatest(a, b) == IF a > b THEN a ELSE b

-----------------------------------------------------------------------------
(* Growing, dropping and rejecting connections. *)

ScheduleOpenEffects(s, n) ==
    [s EXCEPT !.open_effects = @ \o [i \in 1..n |-> s.next_conn_id + i - 1],
              !.next_conn_id = @ + n]

EnsureMinConnections(s) ==
    IF s.open
    THEN NotifyBg(ScheduleOpenEffects(s, Monus(PoolMin, ReservedOpenCount(s))))
    ELSE s

\* conn has already been taken out of the list that held it
DropConn(s, conn) ==
    NotifyBg(EnsureMinConnections([s EXCEPT !.to_drop = @ \cup {conn}]))

Reject(s, r) ==
    IF r.conn = {} THEN s
    ELSE LET conn == CHOOSE c \in r.conn : TRUE
             Retire == NotifyBg([s EXCEPT !.to_drop = @ \cup {NotExtra(conn)}])
         IN WakeWaiters(
              CASE ~s.open \/ conn.is_pool_extra -> Retire
                [] s.open /\ ~conn.is_pool_extra /\ ~conn.ever_acquired ->
                     [s EXCEPT !.free_new = Append(@, conn)]
                [] OTHER -> [s EXCEPT !.free_used = Append(@, conn)])

AbandonRequest(s, t) ==
    IF ~HasRequest(s, t) THEN s
    ELSE LET i == RequestPosition(s, t)
         IN IF s.requests[i].bg_processing
            THEN SetRequest(s, i, [s.requests[i] EXCEPT !.waiting = FALSE])
            ELSE Reject([s EXCEPT !.requests = RemoveAt(@, i)], s.requests[i])

-----------------------------------------------------------------------------
(* The acquiring task: enqueue_request, and the pieces of fulfill. *)

EnqueueRequest(s, t, cclass, wantsNew) ==
    [s EXCEPT !.requests = Append(@,
        [task |-> t, cclass |-> cclass, wants_new |-> wantsNew,
         requires_ping |-> FALSE, bg_processing |-> FALSE,
         is_extra |-> FALSE, is_replacing |-> FALSE, in_progress |-> FALSE,
         completed |-> FALSE, waiting |-> TRUE, conn |-> {},
         error |-> FALSE])]

AddRequestForBg(s, i) ==
    NotifyBg(SetRequest(s, i,
        [s.requests[i] EXCEPT !.bg_processing = TRUE, !.completed = FALSE]))

\* mutant: PURITY_NEW is forgotten and a used connection is offered
BugUsedCandidates(s, i) ==
    {k \in DOMAIN s.free_used : Accepts(s.requests[i], s.free_used[k])}

\* the free connections request i may take, scanned from the tail (LIFO)
UsedCandidates(s, i) ==
    {k \in DOMAIN s.free_used : /\ ~s.requests[i].wants_new
                                /\ Accepts(s.requests[i], s.free_used[k])}

NewCandidates(s, i) ==
    {k \in DOMAIN s.free_new : CclassMatches(s.requests[i])}

HasCandidate(s, i) == UsedCandidates(s, i) \cup NewCandidates(s, i) # {}

\* used connections are examined before new ones
Candidate(s, i) ==
    IF UsedCandidates(s, i) # {} THEN s.free_used[Max(UsedCandidates(s, i))]
    ELSE Last(s.free_new)

\* mutant: the candidate is copied, not taken
BugWithoutCandidate(s, i) == s

WithoutCandidate(s, i) ==
    IF UsedCandidates(s, i) # {}
    THEN [s EXCEPT !.free_used = RemoveAt(@, Max(UsedCandidates(s, i)))]
    ELSE [s EXCEPT !.free_new = Front(@)]

\* check_connection on the next candidate, by its verdict
CheckUnfit(s, i) == DropConn(WithoutCandidate(s, i), Candidate(s, i))

CheckFit(s, i) ==
    SetRequest(WithoutCandidate(s, i), i,
        [s.requests[i] EXCEPT !.conn = {Candidate(s, i)}, !.completed = TRUE])

CheckNeedsPing(s, i) ==
    AddRequestForBg(
        SetRequest(WithoutCandidate(s, i), i,
            [s.requests[i] EXCEPT !.conn = {Candidate(s, i)},
                                  !.requires_ping = TRUE]), i)

AtCapacity(s) == ReservedOpenCount(s) >= PoolMax

NothingFree(s) == s.free_new = <<>> /\ s.free_used = <<>>

GrowthFor(s, i) ==
    LET pending   == PendingOpenCount(s)
        supply    == pending + CompatibleIdleCount(s, s.requests[i])
        shortfall == Monus(CompatibleWaitingDemand(s), supply)
        desired   == IF pending = 0 THEN Greatest(Increment, shortfall)
                     ELSE shortfall
    IN Least(desired, Monus(PoolMax, ReservedOpenCount(s)))

\* the end of fulfill: no candidate is left and the request is queued for the
\* reaper; a pool at its maximum first makes room if it can
QueueForBg(s, i) ==
    LET r  == [s.requests[i] EXCEPT !.requires_ping = FALSE]
        s0 == SetRequest(s, i, r)
        replace == SetRequest(s, i, [r EXCEPT !.is_replacing = TRUE])
    IN AddRequestForBg(
         CASE AtCapacity(s0) /\ s0.free_new # <<>> ->
                [replace EXCEPT !.to_drop = @ \cup {Last(s0.free_new)},
                                !.free_new = Front(@)]
           [] AtCapacity(s0) /\ s0.free_new = <<>> /\ s0.free_used # <<>> ->
                [replace EXCEPT !.to_drop = @ \cup {Last(s0.free_used)},
                                !.free_used = Front(@)]
           [] AtCapacity(s0) /\ NothingFree(s0) /\ s0.mode = "FORCEGET" ->
                SetRequest(s, i, [r EXCEPT !.is_extra = TRUE])
           [] ~AtCapacity(s0) /\ CclassMatches(s0.requests[i]) ->
                ScheduleOpenEffects(s0, GrowthFor(s0, i))
           [] OTHER -> s0, i)

\* fulfill's NOWAIT error at the same point
NoConnectionAvailable(s) ==
    AtCapacity(s) /\ NothingFree(s) /\ s.mode = "NOWAIT"

FinishCompletedRequest(s, i) ==
    [s EXCEPT !.requests = RemoveAt(@, i),
              !.busy = @ \cup {[c EXCEPT !.ever_acquired = TRUE] :
                                    c \in s.requests[i].conn}]

-----------------------------------------------------------------------------
(* The reaper: which request it may work on, and what becomes of results. *)

QueuedForBg(r) ==
    r.bg_processing /\ ~r.completed /\ ~r.error /\ ~r.in_progress

Workable(s, r) ==
    \/ ~r.waiting \/ r.requires_ping \/ r.is_replacing \/ r.is_extra
    \/ ~CclassMatches(r) /\ ReservedOpenCount(s) < PoolMax

\* only the first queued request is considered: a plain waiter there stops
\* the scan
PeekNextRequest(s) ==
    LET queued == {i \in DOMAIN s.requests : QueuedForBg(s.requests[i])}
    IN IF queued # {} /\ Workable(s, s.requests[Min(queued)])
       THEN {s.requests[Min(queued)].task}
       ELSE {}

GetNextRequest(s) ==
    IF PeekNextRequest(s) = {} THEN s
    ELSE LET t == CHOOSE x \in PeekNextRequest(s) : TRUE
             i == RequestPosition(s, t)
         IN SetRequest(s, i, [s.requests[i] EXCEPT !.in_progress =
                                                     s.requests[i].waiting])

\* mutant: a connection lost to a failed ping is not replaced
BugPostProcessRequest(s, t) ==
    IF ~HasRequest(s, t) THEN s
    ELSE LET i  == RequestPosition(s, t)
             s0 == SetRequest(s, i,
                       [s.requests[i] EXCEPT !.in_progress = FALSE,
                                             !.bg_processing = FALSE,
                                             !.completed = @ \/ s.requests[i].conn # {}])
         IN WakeWaiters(
              IF s.requests[i].waiting THEN s0
              ELSE Reject([s0 EXCEPT !.requests = RemoveAt(@, i)],
                          s.requests[i]))

PostProcessRequest(s, t) ==
    IF ~HasRequest(s, t) THEN s
    ELSE LET i  == RequestPosition(s, t)
             r  == s.requests[i]
             s0 == SetRequest(s, i,
                       [r EXCEPT !.in_progress = FALSE,
                                 !.bg_processing = FALSE,
                                 !.completed = @ \/ r.conn # {}])
             s1 == IF r.conn = {} /\ r.requires_ping
                   THEN EnsureMinConnections(s0) ELSE s0
         IN WakeWaiters(
              IF r.waiting THEN s1
              ELSE Reject([s1 EXCEPT !.requests = RemoveAt(@, i)], r))

\* requests a finished connection may be handed to, in queue order
AwaitsConn(r) ==
    ~r.in_progress /\ r.conn = {} /\ r.waiting /\ ~r.completed /\ ~r.error

\* mutant: the task that received a connection is not woken
BugHandOver(s, i, conn) ==
    SetRequest(s, i,
        [s.requests[i] EXCEPT !.conn = {conn}, !.completed = TRUE,
                              !.bg_processing = FALSE])

HandOver(s, i, conn) ==
    WakeWaiters(SetRequest(s, i,
        [s.requests[i] EXCEPT !.conn = {conn}, !.completed = TRUE,
                              !.bg_processing = FALSE]))

CompleteOpenEffect(s, id) == [s EXCEPT !.in_flight = @ \ {id}]

\* post_create_conn, creation failed: one waiter on pool growth is told
PostCreateFailed(s, id) ==
    LET s0 == CompleteOpenEffect(s, id)
        told == {i \in DOMAIN s0.requests :
                    LET r == s0.requests[i]
                    IN /\ r.bg_processing /\ r.waiting /\ ~r.requires_ping
                       /\ ~r.is_extra /\ ~r.is_replacing
                       /\ CclassMatches(r) /\ r.conn = {}}
    IN IF s0.open /\ told # {}
       THEN WakeWaiters(SetRequest(s0, Min(told),
                [s0.requests[Min(told)] EXCEPT !.bg_processing = FALSE,
                                               !.error = TRUE]))
       ELSE s0

\* mutant: an open that finishes after close forgets its connection
BugPostCreateConn(s, conn) ==
    LET s0 == CompleteOpenEffect(s, conn.id)
    IN IF s0.open THEN WakeWaiters([s0 EXCEPT !.free_new = Append(@, conn)])
       ELSE s0

\* post_create_conn, creation succeeded
PostCreateConn(s, conn) ==
    LET s0 == CompleteOpenEffect(s, conn.id)
        full == ActiveOpenCount(s0) + 1 >= PoolMax
        takers == {i \in DOMAIN s0.requests :
                     /\ AwaitsConn(s0.requests[i])
                     /\ \/ Accepts(s0.requests[i], conn)
                        \/ ~CclassMatches(s0.requests[i]) /\ full}
    IN CASE ~s0.open ->
              NotifyBg([s0 EXCEPT !.to_drop = @ \cup {conn}])
         [] s0.open /\ takers = {} ->
              WakeWaiters([s0 EXCEPT !.free_new = Append(@, conn)])
         [] s0.open /\ takers # {} /\ Accepts(s0.requests[Min(takers)], conn) ->
              HandOver(s0, Min(takers), conn)
         [] OTHER ->
              SetRequest(s0, Min(takers),
                  [s0.requests[Min(takers)] EXCEPT !.conn = {conn},
                                                   !.is_replacing = TRUE])

Takers(s, conn) ==
    {i \in DOMAIN s.requests :
        /\ AwaitsConn(s.requests[i]) /\ ~s.requests[i].wants_new
        /\ Accepts(s.requests[i], conn)}

\* mutants: the last waiter is served first; nobody is served; a surplus
\* connection is forgotten
BugReturnToLast(s, conn, fit) ==
    CASE ~fit -> DropConn(s, NotExtra(conn))
      [] fit /\ Takers(s, conn) # {} ->
           HandOver(s, Max(Takers(s, conn)), NotExtra(conn))
      [] OTHER -> [s EXCEPT !.free_used = Append(@, NotExtra(conn))]

BugReturnToNobody(s, conn, fit) ==
    IF ~fit THEN DropConn(s, NotExtra(conn))
    ELSE [s EXCEPT !.free_used = Append(@, NotExtra(conn))]

\* return_connection_helper; conn has left busy.  fit: its transport is open
\* and it has not outlived max_lifetime_session.  A connection whose transport
\* is closed keeps is_pool_extra in the code; nobody reads the flag of a
\* connection in to_drop, so the two ways of being unfit are one
ReturnConnectionHelper(s, conn, fit) ==
    LET takers  == Takers(s, conn)
        surplus == conn.is_pool_extra /\ ActiveOpenCount(s) + 1 > PoolMax
    IN CASE ~fit \/ surplus -> DropConn(s, NotExtra(conn))
         [] fit /\ ~surplus /\ takers # {} ->
              HandOver(s, Min(takers), NotExtra(conn))
         [] OTHER -> [s EXCEPT !.free_used = Append(@, NotExtra(conn))]

-----------------------------------------------------------------------------
(* Closing. *)

\* every connection the pool state still owns
OwnedConns(s) ==
    ToSet(s.free_new) \cup ToSet(s.free_used) \cup s.busy \cup s.to_drop
        \cup UNION {s.requests[i].conn : i \in DOMAIN s.requests}

\* requests.retain(|r| r.in_progress)
InProgress(q) ==
    LET F[i \in 0..Len(q)] ==
            IF i = 0 THEN <<>>
            ELSE IF q[i].in_progress THEN Append(F[i-1], q[i]) ELSE F[i-1]
    IN F[Len(q)]

\* request_worker_shutdown_locked; requests in the reaper's hands stay
ShutDown(s) ==
    LET kept == InProgress(s.requests)
    IN WakeWaiters(NotifyBg(
         [s EXCEPT !.open = FALSE, !.open_effects = <<>>,
                   !.to_drop = OwnedConns(s),
                   !.free_new = <<>>, !.free_used = <<>>, !.busy = {},
                   !.requests = [i \in DOMAIN kept |->
                        [kept[i] EXCEPT !.waiting = FALSE, !.conn = {}]]]))

\* close_all_connections, when the last pool handle is dropped
CloseAll(s) ==
    [s EXCEPT !.open = FALSE,
              !.free_new = <<>>, !.free_used = <<>>, !.busy = {},
              !.to_drop = {},
              !.requests = [i \in DOMAIN @ |-> [@[i] EXCEPT !.conn = {}]]]

\* mutant: ids start at 0, which a guard uses for "none"
BugStartState(mode, timeout) ==
    ScheduleOpenEffects(
      [open |-> TRUE, mode |-> mode, timeout |-> timeout, free_new |-> <<>>,
       free_used |-> <<>>, busy |-> {}, to_drop |-> {}, requests |-> <<>>,
       open_effects |-> <<>>, in_flight |-> {}, next_conn_id |-> 0,
       bg |-> FALSE, parked |-> {}],
      PoolMin)

\* PoolEngine::start
StartState(mode, timeout) ==
    ScheduleOpenEffects(
      [open |-> TRUE, mode |-> mode, timeout |-> timeout, free_new |-> <<>>,
       free_used |-> <<>>, busy |-> {}, to_drop |-> {}, requests |-> <<>>,
       open_effects |-> <<>>, in_flight |-> {}, next_conn_id |-> 1,
       bg |-> FALSE, parked |-> {}],
      PoolMin)
=============================================================================
