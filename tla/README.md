# A TLA+ model of rust-oracledb

rust-oracledb is a pure-Rust thin driver for the Oracle database: an async
`Connection` that speaks TNS/TTC over one socket, a connection pool, cancellation
that leaves the session usable, and layers (row streams, SODA, Arrow, a Python
shim) on top. This directory models the parts whose correctness depends on the
order of events: the connection pool, session recovery after cancellation, the
server cursors of a connection, paging, pipelines, transactions, retries, and the
connect sequence. TLC checks the models on small instances, and TLAPS proves part of
what is checked for every value of the constants.

`PROJECT.json` lists the runs, the source lines each definition stands for, the
mutants, the findings, the hazards and the theorems.

## 1. Inventory

### Connection pool engine (`pool.rs`, `pool/engine.rs`, `pool/acquire.rs`)

*State.* One mutex guards `PoolState`: the idle lists `free_new` and `free_used`,
the `busy` map, the queue of `Request`s, connections waiting to be closed
(`to_drop`), opens that are scheduled (`open_effects`) or under way, the close flag
and the settings. Outside the mutex there are the `drop_returns` channel, the
notification of the reaper (`bg`), the notification of waiters, and the handle that
`close` takes to join the reaper.

*Operations.* `acquire` enqueues a request and polls it until it is completed, has
failed or is given up. `release`, `drop_from_pool` and the drop of a guard give a
connection back. The reaper opens, pings, closes and sweeps. `close`, the drop of
the last handle and two setters complete the list.

*Interaction.* Tasks and the reaper meet only under the mutex and through the two
notifications. A dropped guard never takes the mutex: it sends its id through the
channel, and whoever locks next drains it. Backend calls run without the mutex.

*Hard behaviours.* Wakeups between unlock and park. Requests cancelled while the
reaper works for them. Connections that are in nobody's list while they are pinged
or created. Capacity freed while others wait. `close` against everything.

*What makes it correct.* A session has one holder. The sessions open on the
database are those the pool can reach. `max` is respected, and `min` is restored.
Waiters are served, in order, with what they asked for. Every acquire and every
close returns.

### Session recovery (`recovery.rs`, `lib.rs`, `row_stream.rs`)

*State.* `SessionRecovery.phase`, one atomic with five values (Ready, InFlight,
BreakSent, Draining, Dead); `Connection.dead`; the write half behind an async mutex;
the read half, owned; and what is on the wire.

*Operations.* Every request first calls `ensure_clean_before_request`, writes, and
reads under a `CancelDrainGuard` whose drop records that the response is stranded.
`recover_from_call_timeout`, `Connection::cancel` and `drain_cancel_response` break
and drain. `CancelHandle::cancel` sends a BREAK from another thread.
`fetch_rows_request` asks for a page ahead of its read.

*Interaction.* The owner holds `&mut Connection`. Handles share only the atomic and
the write mutex. The server answers a BREAK with a marker, and a RESET with a marker
followed by ORA-01013.

*Hard behaviours.* Futures dropped at any await. Deadlines that race with answers.
Two BREAKs in flight. A BREAK that finds the server idle. A drain that waits for a
marker somebody else consumed. One step of a drain failing.

*What makes it correct.* No operation reads another's response. Ready means a clean
wire. A cancelled session survives. A dead one stays dead. Whoever locked the write half
gives it back. Every operation returns.

### The other modelled parts

| Part | State | Hard behaviour | What makes it correct |
|---|---|---|---|
| pure pool lifecycle (`pool.rs:318-735`) | slots, waiters, effects | completions in any order, after a cancel or a close | one effect per slot, min and max kept, every waiter answered |
| statement and cursor cache (`lib.rs:7971-8150`) | LRU list, cursors in use, copies, close queue, metadata per cursor | reuse of a statement that is being read, reuse of cursor numbers by the server | a cursor has one owner, is closed once and never leaked; metadata is that of the statement |
| transactions (`lib.rs:4324-4970`, shim `pool.rs:350-401`) | sessionless data, transaction context, transaction flag | begins and suspends that ride on another call, lost responses | nothing uncommitted crosses a release; the client agrees with the server |
| paging (`rows.rs`, `row_stream.rs`, `lib.rs:5118-6620`, `thin/fetch.rs`) | buffered page, seed row, end flag, cursor | pages that start compressed, empty pages, failing callbacks, look-ahead | rows in order and once, an end means all, the cursor is released or closed |
| pipelining (`lib.rs:8252-8453`) | outstanding response boundaries | broken off between two boundaries | each answer meets its operation; the flag follows the server |
| retry (`retry.rs`) | attempts, backoff | acknowledgement lost after the effect, cancellation | nothing non-idempotent is applied twice; the budget holds |
| connect (`lib.rs:3099-3830`, `11128-11412`) | candidates, plans, round counters, reported phase | failover on three levels, RESEND and REDIRECT, mixed protocols | tokens stay on TCPS, endpoints keep their settings, exactly the allowed endpoints are tried, it ends |

These are sequential inside one connection: the adversary is the server, the network
and the caller that drops a future, and not another thread. The pool engine, session
recovery and the paging of a stream meet in `Connection`: a pooled connection is
released through the transaction rules, a page ahead is abandoned through session
recovery, and a cursor that is abandoned goes through the cursor cache.

### Parts that are not modelled

The statement shape cache, session close, LOB streaming, change notification,
transport and TLS, byte-level codecs, authentication and crypto, advanced queuing,
direct path load, SODA, Arrow, SQL conversion, observability and derive macros.
`PROJECT.json` has the reason for each; section 7 summarises them.

## 2. Modules

| Module | Content |
|---|---|
| `PoolState` | the guarded state and every function that transforms it under the mutex, as operators from state to state |
| `PoolEngine` | the tasks, guards, reaper, closers and observers that apply them; fairness; the pool's properties |
| `PoolContract` | what a pool promises, without queues, reaper or locks |
| `PoolRefinement` | `PoolEngine` with its mapping to `PoolContract` |
| `PoolEngineProofs` | proofs: the types of the state and of the engine, one place per connection with the refinement, and the contract |
| `PoolSessionProofs` | proofs on top of those: no session lost, and never more of them than max |
| `SessionRecovery` | phase machine, owner, drain, handles, wire and server; its properties |
| `SessionRecoveryProofs` | proofs: types, phases, and what the wire holds at every step |
| `PoolLifecycle` | `PurePoolState` and the driver that performs its effects |
| `PoolLifecycleProofs` | proofs |
| `CursorCache` | the cursors of one connection and the server that numbers them |
| `CursorCacheProofs` | proofs |
| `Transactions`, `MCTransactions` | one pooled session, its borrowers, and the server's transactions; the symmetry it is checked with |
| `RowPaging` | one result set, the page decoder, and the five readers of the driver |
| `RowPagingProofs` | proofs: both decoders, then the readers |
| `Pipeline` | pipelines and ordinary calls on one wire |
| `PipelineProofs` | proofs |
| `Retry` | the retry executor around one operation |
| `Connect`, `MCConnect` | the connect sequence, and the descriptors it is checked with |
| `MCCalls` | `Connect` and `Retry` for TLC: a behaviour is one of the two |
| `CallProofs` | proofs about `Transactions`, `Retry` and `Connect`: what calls do on the server, and what the client knows of it |

The definitions named `Bug...` are plausible mistakes in the definition that follows
them. None is used by a specification. `PROJECT.json` pairs each with the property
that notices it. Several runs check a conjunction of named invariants (for example
`NothingLeaks`): the parts are defined, with their comments, just before it.

### How the pool model corresponds to the code

The variable `pool` is the Rust struct `PoolState` as a record, field by field; maps
are sets of records and `Option` is a set of at most one element. One action is one
critical section, with the backend call made just before it without the lock. A loop
that runs under the lock takes one step per iteration and keeps `lock`, so that the
lock-free send of a dropped guard (`DropGuard`) can fall between iterations and
nothing else can. `Fitness` decides whether a transport is alive and young enough at
the moment the code asks; `Event("ping")` and `Event("noping")` say what the ping
interval can answer. Time appears only as these verdicts and as the freedom of
`Timeout`, `ReaperTick` and `ReaperSweep` to happen.

`Environments` is a set of sets of outside events. A behaviour chooses one of them at
the start (`env`), so that one run covers several combinations: whether futures are
cancelled, deadlines expire, transports die, opens are refused, guards are discarded,
the application asks for other classes or purities, or switches the getmode. Some
invariants are stated for the environments in which the code keeps them:
`WithinMax` without "mode" (only FORCEGET goes beyond max), and `SessionsAccounted`,
`ParkedIsQueued` and `CloseClosesAll` without "class" (section 6, *Lost replacement*).
`pool_faults` has pings in its class environment only, so these three are not checked
with pings there: a ping loses a session (section 6, *Ping leaks*), and `fulfill` may
leave a request that `requires_ping` pending without queueing it (*Scan stops*).

Two simplifications under the mutex: `return_connection_helper` clears `is_pool_extra`
on the lifetime path and not on the closed path, and the model clears it on both, since
nobody reads the flag of a connection in `to_drop`. `ReaperDrop` takes a connection out
of `to_drop` under the lock and closes it without the lock in one step: the connection
is in no list any more and only the reaper's own next step could see the difference.

Tasks acquire once. A behaviour needs several tasks, not several calls of one task,
since a task has no memory from one acquire to the next.

### How the session model corresponds to the code

`phase` is the atomic. Each method of `SessionRecovery` is one atomic access and is
given as the phase it leaves, so that actions show what happens between two of them.
`pc` is the await point of the owner's current future, `then` what it does after a
drain. A packet carries the number of the operation it answers, which is what
`OwnResponse` compares; the driver cannot see it. `Environments` works as in the pool.
The drain runs on a thread the owner joins, which is why nothing interrupts it but its
own bound. Connection phases before login and `close` are outside the model.

A write that fails and a future ended from outside while it waits for the write mutex or
flushes are `SendFails` and `AbandonSend`; `fetch_rows_request` gives the session up on
every error of its send, a cancelled wait for the mutex included, and the other
operations only return the error.

The server is external. It answers in order. It acknowledges BREAK by a marker
whether it is busy or idle and drops a request that follows an unacknowledged BREAK.
It answers RESET by a marker and ORA-01013. This is what the loopback tests of
`lib.rs` and `row_stream.rs` script. A request is either entirely on the wire or not
at all: a partially written packet is not modelled.

### How the other models correspond to the code

*PoolLifecycle.* `lc` is `PurePoolState`; each public method is an action and the
private helpers (`drive_waiters`, `ensure_min_opening`, `open_slot`) are operators on
the record, so that an action contains the whole method. `inflight` is the driver of
the repository's exploration test: it takes the effects and reports them in any order.

*CursorCache.* `conn` holds the six collections of `Connection` that name cursors.
Execute is three actions, by its outcome (answered, failed on the server, abandoned
before the answer), each with the lookup, the close piggyback and the recording that
belong to it. The server gives a parse the lowest free number, the worst case for
stale metadata and double closes. `orphans` are the cursors an abandoned execute ran on
when nothing on the client names them any more; the server keeps them open until the
session ends. `Usage` says what callers do; the usages left out of the run are
disagreements of section 6 ("takebusy", "crowd", "copyfail") and the hand-over of a
copied cursor ("bindcopy"). `BindRefCursor` is the shim's sequence for a cursor bound
as an IN REF CURSOR: the statement executes, the entry is invalidated and the shim's
cursor is closed. The owner's release is part of the step, since the shim's borrow of
the connection lasts until then and nothing else runs on the connection in between.

*Transactions.* `client` is `sessionless_data`, `transaction_context` and
`txn_in_progress`; `srv` is the truth. A lost response leaves the choice whether the
server did the work. The borrower may release in any state: `Release(in_del)` is the
whole of `release_blocking`, with the rollback that fails, which keeps the connection
busy, or is ignored under `__del__`. `doubt` is a history: what happened since the last
successful commit or rollback that can leave the client behind the server (an error, a
deferred begin released unsent, a pipelined commit of a tracked transaction, a rollback
that failed under `__del__`). No action reads it; the properties say which disagreement
each of them explains.

*RowPaging.* The server pages and compresses any way the protocol allows. The decoder
(`ParseRowData`, `ParseEnd`, `BorrowedRow`) and the readers are translated separately,
because the owned and the borrowed decoder and the five readers carry the seed row
in different places. `cid` says whether the first response names a cursor; without one
`next_batch` declines to fetch. A reader can be dropped at each of its awaits. Cells are values; the byte encoding of a cell is left out.

*Pipeline.* The recovery phase is armed around each read only, and the drain is one
step, since `SessionRecovery` has its details. Slots are matched by position, as in
the code, and the model's tokens tell whether that was right.

*Retry.* `BackoffFor` keeps the saturating shift and the failing `checked_mul`
(`MaxDuration` stands for what a `Duration` holds).

*Connect.* A descriptor is the record of the settings that decide control. A shuffle
is every permutation. The listener answers anything at any time. `wire`, `tried` and
`consulted` are histories for the properties.

## 3. Runs

| Run | Instance | What it shows |
|---|---|---|
| `pool_wait` | 3 tasks, min 1, max 2, WAIT, graceful or forced close | every acquire and close returns; waiters are served in order |
| `pool_faults` | 2 tasks, min 1, max 2; three environments: (1) TIMEDWAIT with cancellation, deadlines, dead transports, refused opens, discards, idle sweep, forced close and drop of the last handle; (2) three classes, both purities, pings, deaths, discards and idle sweep; (3) getmode switched to NOWAIT and FORCEGET with cancellation, refusals and discards | no leak, no double hand-out, busy equals guards, within max, nobody sleeps through work, hand-outs honour class and purity, a pool at rest is complete, the engine implements the contract |
| `session_recovery` | 1 handle, 4 operations, 3 cancels, three environments | own responses only, clean when Ready, a session survives cancellation |
| `session_contended` | 2 handles, 2 operations, 2 cancels, all events at once | operations return, Draining is owned, the write mutex is given back, nothing but a running drain stores over Dead |
| `pool_lifecycle` | min 1, max 2, 4 waiters, 2 faults | one effect per slot, one place per waiter, limits, no more servable waiters than closes that will serve them, everyone is answered |
| `cursor_cache` | 2 owners, 2 queries (one with a bind variable, one with LOBs), 1 DML, cache of 2, 4 executes | one owner per cursor, none leaked, each closed once, cache and metadata true |
| `transactions` | 2 borrowers, 2 sessionless ids, 1 XID, up to permutation of each | what crosses a release and where the client disagrees with the server is explained by `doubt`; callers are told the truth |
| `row_paging` | tables of up to 3 rows, 2 columns and 2 values, pages of 2, 1 idle empty page, 5 readers | the table is read in order, once and to the end; cursor and wire are left as they should be; every reader that has a cursor ends |
| `pipeline` | up to 2 operations, 3 calls | answers meet their operations, the flag follows the server, every call returns |
| `calls` | a connect: FAILOVER and LOAD_BALANCE in every combination, mixed protocols, unreadable wallets, 4 credentials, 1 resend, 2 redirects; or a retried operation: 48 policies, with and without idempotency and hook | a connect stays secure, its failover is exact, it returns; a retry has at most one effect, keeps budget and backoff, and stops |
| `bug_drop_in_send`, `bug_missed_wakeup` | the smallest with the counterexample | section 6 |

The two runs named `bug_...` expect a violation of a property that a line of the
repository states and the code does not keep. The other configurations of that name do
the same for the other disagreements of section 6; they are kept for the reader and are
not in `PROJECT.json`.

*Bounds.* Two tasks and a pool of two are enough for each pairwise race (two requests,
or a request and a guard, against reaper and closer). Three tasks on two connections
give an order among waiters that differs from the order of grants. `MaxConnId` bounds
the sessions opened in one behaviour: with 4, both slots can be lost and replaced.
`MaxOps` 4 of the session lets an abandoned operation be followed by one that
drains, one that is abandoned again, and one that observes the result. `MaxCancels` 3
lets a handle break an operation, an idle session, and the operation that drains.
Three rows with pages of two give a page boundary, a short last page and an empty one;
two values are enough for a wrong seed to show. Four executes fill the cache, evict,
reuse a number and execute once more on it. Three calls let a broken-off pipeline be
followed by a call that drains and one that reads. Two redirects with one resend in
between let each counter and each half of the request be stale. Four waiters on two
slots leave two in the queue while both slots are answered.

*Deadlock.* The runs say `CHECK_DEADLOCK FALSE`, because the system really may rest:
a pool whose tasks are done, a session whose owner issues no more operations, a
reader that has ended. That nobody rests in the middle is what the liveness properties
check.

*Fairness.* For the pool: weak fairness of the reaper (a task on a runtime thread of
its own, whose backend calls are bounded by connect and ping timeouts), of polling a
woken task, of whoever holds the mutex, of a bounded wait, and of a close that has
begun. Nothing is assumed of starting an acquire, of cancellation or of settings.
`FairSpec` adds that a guard is given back some day, without which no waiter could be
served. For the session: weak fairness of the owner's task, of each handle's thread
and of the server. The write mutex is fair enough under weak fairness only because
cancels are finitely many (`MaxCancels`); with an endless stream of cancels the FIFO
order of the async mutex would be needed. The drain's five-second bound is the
fairness of `DrainTimeout`. `PoolLifecycle`: the driver takes effects and answers
each, and a slot in use is released some day. `RowPaging` and `Pipeline`: the server
answers and the client polls; dropping a future is never assumed. `Retry`: the running
attempt, the timer and the reconnect end. `Connect`: each step of the client ends (a
dial is bounded by the transport timeout) and the listener answers something; the
timeout over the whole exchange is not assumed, so `ConnectReturns` rests on the
round counters.

*Environments of the session runs.* `session_recovery` combines the owner's own ways
of abandoning an operation in one environment, concurrent handles with the shim's
reconciliation in a second, and the owner's ways with faults in a third. It leaves out
a handle together with the owner's timeouts, a reclaimed stream, and a drop during the
flush, because in those combinations the code does not keep the properties (section
6, with a configuration for each). `session_contended` has one environment with every event,
failing writes among them.

## 4. Properties

Each property has a comment in its module that names the behaviour it is about, and a
mutant of the code's model that violates it under the run's own configuration. The
ones that carry the most:

- `NothingLeaks`: the sessions open on the database are exactly those the pool can
  reach, and none is open after close. It relates the backend to every list, request
  and local variable, so any path that forgets a connection, in any order of events,
  violates it.
- `NobodyOversleeps`: the ways in which a sleeping party could miss its work. The
  liveness properties depend on it.
- `ImplementsContract`: every step of the engine is a step, or no step, of a pool
  without queue and reaper.
- `OwnResponse`, `CleanWhenReady`: what the cancel-on-drop guard and the drain promise.
- `DeadIsKept`, `WriteMutexHeld`: however an operation, a handle or a drain is cut
  short, a session that was given up is not revived by anything but the drain that was
  already running, and the write half that every later request needs is free again.
- `OperationReturns`: no drain waits for ever for a marker, whoever consumed it.
- `CursorsAccounted`, `CacheHonest`: every cursor of the server is cached, held or
  queued for close exactly once, except the one an abandoned execute ran on, and what the client remembers is true of the cursor
  that has this number now.
- `NothingCrossesRelease`: a borrower never works in a transaction another one asked
  for, although the decision to roll back rests on a flag of the client, unless one of
  four named things happened before the release.
- `ReadsTheTable`: decompression and paging deliver the result set for every table,
  every compression and every split, through five readers and two decoders.
- `SafeToRepeat`: at most one effect of a non-idempotent operation, whatever is lost.
- `StaysSecure`: failover, shuffles, renegotiation and redirects never move a message
  to another DESCRIPTION's settings nor a token to plain TCP.

## 5. What is proved

TLAPS checks these for every value of the constants that the modules' named
assumptions allow (sizes are natural numbers, tasks and handles are finite sets, model
values differ). A theorem with an assumption of its own says so below. The ones on
`Usage` exclude what breaks the property (section 6); the one on
the session's rivals also excludes handles, under which `session_recovery` finds the
properties to hold on its instance.

**Pool** (`PoolEngineProofs`, then `PoolSessionProofs`): any number of tasks, closers
and connections. The first four theorems hold for any getmode and every environment
event; the next three, those of `PoolSessionProofs`, have hypotheses, which are stated
with them and are all needed (section 6).

- `TypeCorrect`: `Spec => []TypeOK`. `TypeOK` is inductive by itself.
  `PoolEngineProofs` has one lemma for each operator of `PoolState`, saying that it maps
  well-formed states to well-formed states, and one per action; the two interesting ones
  are that growth is a natural number although it is computed by subtraction
  (`GrowthIsNat`), and that the candidate chosen by a scan is an element of the list it
  is removed from (`CandidateType`).
- `EngineImplementsContract`: `Spec => ImplementsContract`, the refinement of
  `PoolContract`; `ExclusiveHandout`: `Spec => []NoDoubleHandout`; `BusyIsGuards`:
  `Spec => []BusyMatchesGuards`. All three follow from one inductive invariant,
  `OwnershipInv`: every id has at most one place among the free lists, the busy map,
  the requests, the close queue, the planned opens and the reaper's hands
  (`Tidy`, `ReaperApart`); ids in use are below the next id to be given out, so a new
  connection is new (also `Tidy`); what has a place is an open session (`SessionsKnown`);
  guards hold different sessions (`GuardsApart`); and busy is what is held or has been
  dropped (`BusyIsLent`). `SessionsKnown` is what the contract's `Lease` needs, the two
  last are what makes a release find its connection. Each operator of `PoolState` has a
  lemma saying that it only moves connections between places (`Rehomes`), each action a
  lemma saying that the invariant is kept and that the step is one of the contract.
- `NoSessionIsLost`: without pings, and if close is called once,
  `Spec => []NothingLeaks`; `EverySessionIsReached`: without pings,
  `Spec => []SessionsAccounted`, however often close is called. `NothingLeaks` speaks of
  pools of one class by itself. `OwnershipInv` says that what has a place is open;
  `LeakInv` adds the converse, that an open session has a place. For this it has to say
  where a request may hold a connection (`Tame`): only when it is completed, so that its
  task takes it, or while the reaper post-processes it; a request the reaper works on
  has none, so nothing is overwritten. Each operator has a lemma that it carries every
  placed connection along (`Carries`). For the close, `ShutInv` says what a closed pool
  still has: empty lists, and a connection at most in the request that is about to be
  post-processed, which then goes to the close queue; the reaper exits only when the
  queue is empty. With one call of close, that call is the one that joins
  (`CloserInv`).
- `StaysWithinMax`: without pings and with one class, and if the getmode is not
  FORCEGET and is not switched, `Spec => []WithinMax`. `WithinMax` is not inductive: a planned open,
  one in flight and a replacement whose old connection is already retired all become
  sessions later, without another look at max. `MaxInv` counts them: the ids in service,
  planned and in flight (`Seats`) and the requests a connection is owed to (`Promises`)
  are together at most max (`Room`). `ReservedCovers` shows that this is what
  `ReservedOpenCount` bounds, so growth fits (`ScheduleFits`), and `ReplaceFits` that a
  replacement exchanges a seat for a promise. A request with `is_replacing` must not
  pass into post-processing unserved and waiting, or its next scan would be promised a
  second connection; this is `PlainReq`, which depends on the step the reaper is at.
  In a closed pool one request at most still has a connection (`ClosedOne`).
- `ContractCorrect`: in the contract a session has at most one holder, and until the
  pool is shut what a caller holds is open. With the refinement, which is a theorem
  too, this is a statement about the engine. It is proved of an instance of
  `PoolContract` with constants and variables of its own.

**Pool lifecycle** (`PoolLifecycleProofs`), for every min and max and any number of
waiters and failures, without further assumptions.

- `SlotsStayConsistent`: `[]SlotsConsistent`; `QueueStaysOwed`: `[]QueueIsOwed`. The
  inductive invariant `LifecycleInv` says the same as the properties, in a form that a
  single operation can be followed through: an effect is outstanding exactly if its slot
  is in the state that waits for it (`Matched`), a waiter a slot carries is neither
  queued nor carried by another (`Carried`), and of the waiters in the queue and the
  slots that could serve them (idle or not yet opened) one is no more than the slots
  being retired (`Owed`). Between the
  answer to an effect and the new state of its slot the slot waits for nothing, so
  `Sound` has the set of such slots as a parameter.
- The loop of `drive_waiters` is one operator in the model, and its lemma `DriveSound`
  is the heart: from any sound state it reaches one in which a waiter is left only if
  the pool is full and busy (`Driven`). The operations that lack the call keep `Owed`
  for a reason of their own: `PingFailed` and `ReapIdle` add a retiring slot with the
  waiter or instead of the idle slot, `CloseState` empties the queue, and a grant to a
  waiter takes no idle slot.

**Session** (`SessionRecoveryProofs`).

- `SessionTypeCorrect`: `Spec => []TypeOK`, with the wire's channels typed as sequences
  of packets.
- `DrainingAlwaysOwned`: `Spec => []DrainingIsOwned`. It is inductive relative to the
  types: only `Begin` and `StartDrain` enter Draining, and they enter a drain step
  together; every step that leaves the drain writes the phase.
- `WriteMutexGivenBack`: `Spec => []WriteMutexHeld`, in every environment. Each step
  that ends a future of the owner or of a handle is shown to give the mutex back; a
  deadline or a reclaim can end the owner only where it does not hold it.
- `DeadStaysDead`: `Spec => DeadIsKept`, in every environment, failing writes included.
  It needs that a session the owner gave up has the phase Dead and no drain running
  (`GaveUp`), so that the one step that stores without looking, `FinishDrainReady`,
  cannot follow. `DeadIsFinal`, which also speaks of a Dead stored by a handle during a
  drain, is false (section 6, *Ready over Dead*).
- `OwnResponsesOnly`, `ReadyIsClean`, `CancelsAreSurvived`: `[]OwnResponse`,
  `[]CleanWhenReady`, `[]SurvivesCancel`, if no environment has a cancel handle, a
  reclaimed stream or a future dropped inside a flush (`Rivals`). Every other event is
  allowed: drops, timeouts, cancels, read-ahead, shutdown, stalls, garbled packets,
  fatal errors and failing writes. The inductive invariant `WireInv` says for every step
  of the owner what both channels and the server can contain (`WireAt`): before the
  marker that acknowledges a BREAK only data of the interrupted operation, after it
  nothing (`Breaking`); after the RESET one marker and one ORA-01013 (`Resetting`). A
  BREAK may reach the server after the response was sent, so `Breaking` has to allow an
  idle server and any prefix of data. These are the first and third environments of
  `session_recovery`; the second, with a handle, is only model-checked.

**Transactions** (`CallProofs`), for every use, without further assumptions.

- `HandoverIsClean`: `[]NothingCrossesRelease`; `ClientKnowsServer`: `[]ClientKnows`;
  `ServerTransactionKept`: `KeepsServerTransaction`. The invariant `TxnInv` adds to the
  properties that a flag survives a release only if a rollback failed under `__del__`,
  which is an error (`PoolIsClean`), that the client agrees with the server in the pool
  as well (`Agreed`), that a begin which still waits for an execute belongs to the
  present borrower unless one was released unsent (`Waiting`), and that a transaction
  the server began is known to be the server's (`ServerBegan`). Without `Waiting` a
  begin deferred by one borrower could be sent by the next without a doubt recorded.

**Cursors** (`CursorCacheProofs`), for any number of owners, statements and executions,
if callers do none of the things that section 6 shows to break the properties
("takebusy", "crowd", "copyfail" and "bindcopy" not in `Usage`) and the cache is not of
size 0, where every query crowds it (`Restrained`). Rebinds, failures, abandoned executes, uncached
statements and hand-overs are allowed.

- `CursorsStayApart`: `[]CursorsInUse`; `NoCursorGoesAstray`: `[]CursorsAccounted`;
  `CacheTellsTheTruth`: `[]CacheHonest`. One inductive invariant, `CursorInv`, gives all
  three. Its heart, `Core`, is a statement about sets: the entries of the cache, the
  close queue, the ids in use, the copies, the retained metadata, what the owners hold
  and what the server has open. Beyond the properties it says that a held query is
  marked in use and nothing else is (`UseTrue`), so that an eviction or a failure of
  a statement that is not in use meets no reader; that copies and uncached cursors are
  not in the cache, and a held cursor is one of these or cached (`RawApart`); and that
  metadata is true also for cached cursors nobody reads at the moment, and kept for no
  other (`MetadataTrue`), since the next execute of the statement finds it there. The
  proof has a layer of lemmas on `Core` alone (one per kind of change), a layer that says
  what each `Connection` method does to those sets (`CloseFacts`, `ReleaseFacts`,
  `PutEvicts`, ...), and one lemma per action.
- `Retain` stands for `Vec::retain` and is a recursive function; that it keeps exactly
  the elements at the given positions, each once and in a sequence, is proved from the
  least position at which it would fail (`RetainMembers`).
- A fresh cursor always has a number: the server has opened at most one cursor per
  execution (`Types`), and `Ids` has one more.

**Pipelining** (`PipelineProofs`), if no call ends between two of its writes
("limit" and "dropsend" not in `Usage`).

- `PipelineAnswersMatch`: `[]AnswersMatch`; `PipelineFlagFollows`: `FlagFollowsServer`.
  Responses carry no token, so `PipelineInv` has to count: the replies read, the replies
  on the wire and the requests on the wire are together the messages sent (`Pending`),
  the k-th reply answers the k-th message and says ok exactly if it was performed
  (`Answers`), and the last successful reply carries the server's transaction state
  (`LastReport`).

**Retry** (`CallProofs`), for every policy.

- `RetriesAreSafe`: `[]SafeToRepeat`; `RetriesWithinPolicy`: `[]PolicyHolds`;
  `CancelStopsAttempts`: `CancelWins`. `RetryInv` adds to the properties how the
  counters of started and failed attempts differ at each step (`Counters`), that an
  operation which is not idempotent never reaches the head of the loop again
  (`OneShot`), that a lost session is on its way to be replaced
  (`LostIsReconnecting`) and that the k-th sleep is the policy's k-th backoff
  (`BackoffsFollowPolicy`). `BackoffMonotone` proves the arithmetic.

**Connect** (`CallProofs`), for every descriptor the parser can return, every
credential, any redirect targets and limits, without further assumptions.

- `ConnectStaysSecure`: `[]StaysSecure`; `PhaseReportedIsFurthest`:
  `[](ConnectTypeOK /\ PhaseIsFurthest)`. The inductive invariant `ConnectInv` has, next
  to what was sent (`WireIsSafe`), what is about to be: every candidate is an endpoint of
  its own DESCRIPTION (`ConnectShape`), the peer has the plan and the protocol of the
  address that was dialled and the request is that of the last redirect
  (`PeerIsGenuine`), and a login that sends a token has a TCPS peer (`TokensAreSafe`).
- `Resolved` shows that shuffles, truncations and filters on three levels invent no
  endpoint and leave no empty group. It rests on `FlattenMembers`, an induction over
  `FlattenSeq` by a least counterexample.

**Row paging** (`RowPagingProofs`), for every table, number of columns, array size and
limit, if no caller drives `next_batch` again over a page that is already on the wire
("redrive" not in `Usage`; section 6 shows what that loses). Empty pages, server errors,
deadlines, drops, failing callbacks and reclaimed streams are allowed.

- `ReadersReadTheTable`: `[]ReadsTheTable`; `ReadersLeaveNothing`:
  `[]LeavesNothingBehind`. The first half of the module is about the codec: a page of
  any number of rows, each compressed against the row before it or not, is parsed back
  to those rows by `Parse` and by `ParseBorrowed`, provided the seed is the row that
  precedes the page (`PageIsRead`). Both decoders are loops over the messages, written
  as recursive functions. That such a function exists, and what it computes, is shown by
  induction on the number of messages; the induction is carried out with the least
  number for which the statement fails, since the library's induction theorems cannot be
  instantiated here (`LeastNat`, `ParseLoop`, `BorrowedLoop`, `FlattenLoop`).
- The inductive invariant `PagingInv`: the rows a reader has delivered, holds back and
  has buffered are together a prefix of the table (`Received`), exactly the part that is
  not on the wire; a response on the wire is the next page, and ORA-01403 ends it only
  at the end of the table (`Wire`); the seed is the last row received, also after an
  empty page (`Reader`); the cursor, if the response named one, is in use until the last page (`Cursor`); and what
  the properties ask of a finished reader holds (`Verdict`). The invariant has to speak
  of the seed as the last row received and not as the last row of the last page: with
  an empty page between two compressed ones these differ.

Only model-checked:

- liveness under fairness, which is out of the prover's reach;
- of `Connect`, that failover tries exactly the endpoints it should, and how often
  (`StaysWithinFailover` and `GivesUpLast`, in `FailoverExact`). Both identify an endpoint
  by its host, so they speak of descriptors in which no host occurs twice, and the second
  counts attempts over whole rounds;
- `OwnResponse`, `CleanWhenReady` and `SurvivesCancel` with handles and streams;
- `NobodyOversleeps` and `RestsComplete` of the pool. Both fail in pools that the run's
  constants do not contain, because only the head of the queue is looked at (*Head of
  line* and *Reaper sleeps* in section 6), so a theorem would need a hypothesis on the
  order of the queue.

## 6. Disagreements between the code and its documentation

### With a counterexample of TLC

Each of these has a configuration `bug_....cfg` under which TLC finds the named property
violated: `tlc -config bug_X.cfg M`, with `M` = `PoolEngine`, `PoolLifecycle`,
`SessionRecovery`, `CursorCache`, `Transactions`, `RowPaging` or `Pipeline`, the module
that defines the property. `bug_drop_in_send` and `bug_missed_wakeup` are runs of
`PROJECT.json`.

*Pool*

- *Ping exceeds max*, `bug_ping_beyond_max` (`WithinMax`, `engine.rs:619`): a connection
  taken out of its request for a ping is counted nowhere, so a pool with max 1 opens a
  second session, where the lifecycle test counts slots being validated against max
  (`pool.rs:2410-2417`).
- *Ping leaks*, `bug_ping_leak` (`CloseClosesAll`, `engine.rs:652`): a connection that
  answers its ping after its request disappeared (cancelled, then removed by close) is
  dropped without `close_connection`, where `pool.rs:1657-1659` says all transports are
  closed when close returns.
- *Stranded by a discard*, `bug_stranded` (`AcquireReturns`, `engine.rs:15`): with min 0,
  a discarded connection frees capacity and nothing opens one for the task that already
  waits; a cancelled acquire that gives its place up (`pool.rs:1849`) does the same.
  `CHANGELOG.md:1006-1009` says concurrent acquirers are all served.
- *Wrong class*, `bug_wrong_class` (`HandoutHonoursRequest`, `engine.rs:161`): a
  connection created for a cancelled request of class cb joins `free_new`, and the scan
  of that list, "only when the cclass matches" (160), does not compare classes.
- *Pure lifecycle*, `bug_missed_wakeup` (`NoMissedWakeup`, `pool.rs:526`): the
  exploration test asserts "idle slot coexisted with a queued waiter: missed wakeup"
  (`pool.rs:2424-2427`) up to depth 7; the first state that refutes it is at depth 8,
  after an unhealthy ping requeued its waiter. `QueueIsOwed` is what holds instead.

*Session recovery*

- *Drop in send*, `bug_drop_in_send` (`OwnResponse`, `lib.rs:5969`): a future dropped
  while its request is being flushed leaves the phase Ready. The next operation reads
  the wrong response, where `lib.rs:10306-10313` says a cancelled fetch never poisons
  the stream.
- *Ready over Dead*, `bug_ready_over_dead` (`DeadIsFinal`, `recovery.rs:448`):
  `finish_drain_ready` overwrites the Dead a handle stored when its write failed during
  the drain, where `lib.rs:1466-1469` says the connection must be discarded.
- *Reset race*, `bug_reset_race` (`CleanWhenReady`, `lib.rs:10382`): a timeout between a
  RESET and its answer makes the drain mistake one exchange's marker for another's. It
  reports a clean wire that is not clean, where `lib.rs:10153` says the stream is clean.
  Phase A compares the packet type and never the marker type.
- *Stream reclaim*, `bug_stream_reclaim` (`SurvivesCancel`, `row_stream.rs:221`):
  reclaiming a stream while the server is executing its fetch ends with a dead session,
  since the fetch's own read has already consumed what the drain waits for;
  `row_stream.rs:191-194` says a clean connection is handed back.

*Cursors, transactions, paging, pipelines*

- *Busy statement taken*, `bug_take_busy` (`CursorExclusive`, `lib.rs:7995`):
  `statement_cache_take` does not look at `in_use_cursors`, whose ids "must NOT be
  reused by a second cursor" (`lib.rs:2887-2890`).
- *Busy cursor evicted*, `bug_evict_busy` (`LiveCursorOpen`, `lib.rs:11698`): eviction
  looks at age only. With `statement_cache_size` 0 the first query's own cursor is
  queued for close while its owner reads from it, where `lib.rs:2284-2286` says it is
  closed after use; with a larger cache it takes more open queries than it has room for
  (`Usage` "crowd").
- *Lost response and release*, `bug_release_after_loss` (`ReleaseRollsBack`, shim
  `pool.rs:376`): the release rolls back by the client's flag, which a lost response
  leaves behind the server, so the next borrower gets the open transaction; shim
  `pool.rs:370-372` says an in-progress transaction is rolled back.
- *Pipelined commit*, `bug_pipeline_commit` (`TracksOnlyActive`, `lib.rs:8407`): a
  successful commit in a pipeline leaves `sessionless_data`, which `lib.rs:2908-2910`
  says is `None` when no sessionless transaction is active.
- *Collect spins*, `bug_collect_spins` (`NeverHangs`, `rows.rs:467`): a first response
  that promises more rows and has cursor id 0 keeps `collect` in its loop, since
  `next_batch` declines (416-418) and leaves `more_rows` set. `docs/FUZZING.md:5` says
  a server must never be able to hang the client.
- *Define dropped*, `bug_define_drop` (`InUseIsHeld`, `lib.rs:5169`): a `query_with`
  dropped at its define await leaves the cursor in `in_use_cursors` (set at 5636, no
  guard), where `lib.rs:2887-2893` says the set holds the ids of live cursors.
- *Limit in a pipeline*, `bug_pipeline_limit` (`OwnResponse`, `lib.rs:8313`): a limit or
  build error at a later operation returns with earlier operations written and the phase
  Ready, and the next call reads their responses; `lib.rs:5861-5866` says recovery is
  armed so that this cannot happen. A future dropped between two of the writes does the
  same ("dropsend").

### Without a configuration

Found with the same modules and other constants, or from reading. Either no line of the
repository states the property, or it is a variant of a case above.

*Pool engine*

- *Lost replacement* (`engine.rs:337-341`): a new connection of the wrong class is
  given to a request to be replaced; the next scan overwrites the request's
  connection, and the first one is dropped without `close_connection`.
- *Head of line* (`engine.rs:253`): `peek_next_request` stops at the first request it
  cannot work on. With min = max = 1, refused opens and mode switches, the reserved
  open of a request behind it is never performed (`NoReservationLeak`).
- *Second close* (`pool.rs:1680`): it returns at once, although the doc at 1658-1659
  says that all transports are closed when close returns.
- *Scan stops* (`engine.rs:152`): `requires_ping` stays set after a failed ping, so the
  next scan for that request returns as soon as it has dropped one dead candidate,
  where the comments (36-37 and 155) say that scanning continues.
- *Extra kept* (`engine.rs:370`): a FORCEGET connection is kept on return when another
  one was closed meanwhile, where a test comment (`pool.rs:3618`) says it is discarded.
  The test counts the active connections and not the planned opens: with FORCEGET from
  the start, max 2 and a planned open, the kept connection and the open exceed max
  (`WithinMax` with InitMode FORCEGET).
- *Cancelled class exceeds max* (`engine.rs:247-252` and 620-632): a cancelled request
  of another class is picked although the pool is full, and since nobody waits for it
  `in_progress` stays false and its creation is not reserved. The connection is created
  all the same and joins `free_new` (`WithinMax`, PoolMax 1, events class and cancel).
- *Reaper sleeps* (`engine.rs:358`): a request for an extra connection stands behind a
  plain waiter. A returned connection is handed to that waiter, the extra request
  becomes the head, and the hand-over does not notify the reaper, which stays parked
  (`ReaperSeesWork`, three tasks, PoolMax 1, a switch to FORCEGET).

*Session recovery*

- *Recovery and the write mutex* (`lib.rs:9695`): the drain only tries the mutex. A
  handle that holds it makes the owner give the session up, while `recovery.rs:175-178`
  says `Close` is the only disposition that marks the connection dead. `SurvivesCancel`
  fails with the events handle and timeout, or handle and ahead.
- *Unrecorded BREAK* (`lib.rs:8555`): a handle's future dropped after its write leaves
  a BREAK that nobody knows of (event drop_handle).
- *Second BREAK* (`lib.rs:5764`): `ensure_clean_before_request` always sends its own
  BREAK, also when a handle has sent one; the comment at 10256 warns that a second
  BREAK desynchronises. In `session_recovery` the two acknowledgements are drained
  together, because the markers after the RESET are skipped; they are not when an
  earlier RESET is outstanding (*Reset race*).

*Cursors*

- An execute abandoned before its answer leaks the cursor it ran on when no cache entry
  names it: one just parsed by the server, or one that an uncached execute had taken
  from the cache (`orphans`). It stays open until the session ends.
- A failed copy invalidates the live original ("copyfail"). A copied cursor bound as an
  IN REF CURSOR is queued for close by its owner although PL/SQL has it ("bindcopy").
- From reading, not modelled: the limit checks at `lib.rs:5533-5537` come after
  `take_close_cursors_piggyback` and lose the close queue; the shim keeps its
  `cursor_id` after a failed execute, does not release the previous one in
  `executemany`, never closes cursors of `cache_statement=False` and of pipelined
  queries, and its `close` gives up when the connection is busy
  (`pyshim/src/cursor.rs:974`), which leaves a copy open; the mark in
  `in_use_cursors` survives the hand-over of an IN REF CURSOR whose owner is not closed.

*Transactions*

- A deferred begin that was not executed before the release rides on the next
  borrower's first execute: the flag is not set, so the release rolls nothing back and
  keeps `sessionless_data`. This is the "begin" of `doubt`, under which `Isolation` makes
  no claim.
- A release from `__del__` ignores a failed rollback and returns the session with its
  branch (the "del" of `doubt`). `tpc_rollback` keeps `transaction_context`; a limit
  error after `prepare_sessionless_suspend` leaves the post-detach pending; a failed
  deferred resume leaves the client believing it is active.

*Paging*

- A `next_batch` that is dropped and called again on the same `Rows` loses the page
  (`Usage` "redrive").
- The drop of `Rows` with a fetch in flight puts a cursor back into the cache that is
  not proven good, unlike `close_cursor_on_error` (`lib.rs:8071-8078`).
- `query_one` says "too many rows" when the first response has one row, promises more
  and has no cursor id, whatever the result set has.

## 7. Not modelled, and the plan

Not modelled, and why:

- *Bytes.* Framing, parsing and encoding of single messages and values, crypto, TLS,
  OSON, vectors, direct path, AQ payloads, SODA's SQL, Arrow and SQL conversion: pure
  functions of one input, which the repository's property tests and fuzzing reach, and
  a state machine does not. This is most of the repository's lines.
- *Statement shape cache.* One map behind a mutex; each call is one critical section
  and the reaction is a refetch. One thing to know: the first connection that observes
  a new shape consumes the self-healed flag (`shape_cache.rs:153-220`).
- *Session close* consumes the connection, so nothing can follow it on the wire. *LOB
  streaming* and *change notification* are sequences of ordinary operations.
- *Time.* Durations appear as choices. Partially written packets, the classic
  (pre-23ai) end-of-response detection and the blocking facade, which runs the same
  futures under `block_on`, are left out.
- `Rows::scroll`, `classify_sql`, retry delays and keepalive.

What remains, in order of value:

1. Proofs: `OwnResponse` with one handle, whose wire can hold two BREAKs; the parts of
   `NobodyOversleeps` that do not depend on the head of the queue; `GivesUpLast`, for
   descriptors whose hosts differ.
2. `Rows::scroll` as a sixth reader of `RowPaging`.
3. `Pipeline` on the full drain of `SessionRecovery` in place of its one-step drain.
