---------------------------- MODULE Transactions ----------------------------
(***************************************************************************)
(* The transactions of one pooled session: local ones, sessionless ones    *)
(* (begun at once or by a piggyback on the next execute, suspended at once *)
(* or on success of an execute) and the branches of two-phase commit.      *)
(* Sources: crates/oracledb/src/lib.rs, crates/oracledb-protocol/src/thin/ *)
(* sessionless.rs, and the end-of-request handling of the pool in          *)
(* crates/oracledb-pyshim/src/pool.rs.                                     *)
(*                                                                         *)
(* `client` is what the Connection believes, `srv` what is true on the     *)
(* server.  A call is answered, or its response is lost (the future is     *)
(* dropped or times out and the session is recovered by BREAK and drain),  *)
(* in which case the server may or may not have done the work.             *)
(*                                                                         *)
(* The server is external.  Assumed of it: it carries one transaction at a *)
(* time, refuses plain COMMIT and ROLLBACK inside a branch, refuses to     *)
(* decide another branch while one is attached, never reuses an id, and    *)
(* may abort a detached transaction when its timeout expires.              *)
(***************************************************************************)
EXTENDS Naturals, FiniteSets

CONSTANTS
    Borrowers,   \* who takes the session from the pool in turn
    Ids,         \* sessionless transaction ids
    Xids,        \* branches of global transactions
    Usage        \* what borrowers and network do, see below

(* Usage may contain                                                        *)
(*   "lost"      a response is lost                                         *)
(*   "fail"      a statement fails on the server                            *)
(*   "limit"     a batch exceeds the client's own limits                    *)
(*   "pipeline"  commits are sent in pipelines                              *)
ASSUME TransactionsAssumption ==
    /\ Ids \cap Xids = {} /\ "local" \notin Ids \cup Xids
    /\ "none" \notin Ids \cup Xids /\ "pool" \notin Borrowers
    /\ Usage \subseteq {"lost", "fail", "limit", "pipeline"}

VARIABLES
    client,   \* sess: at most one SessionlessData, ctx: transaction_context,
              \* flag: txn_in_progress
    srv,      \* cur, byServer, fate of every id, dirty
    user,     \* the borrower, or "pool"
    doubt,    \* history: what happened since the last successful commit or
              \* rollback that can leave the client's view behind the server's
    asked,    \* history: the borrower that asked for the current transaction
    deferrer, \* history: the borrower that issued the last deferred begin
    told      \* history: what the caller was told of a branch

vars == <<client, srv, user, doubt, asked, deferrer, told>>

None == "none"
Txns == Ids \cup Xids
Allowed(what) == what \in Usage

(* doubt collects                                                           *)
(*   "error"  a call was refused, failed, or its response was lost          *)
(*   "begin"  the session was released with a deferred begin not sent       *)
(*   "piped"  a pipelined commit ended a tracked sessionless transaction    *)
(*   "del"    __del__ released the session after its rollback failed        *)
(* An "error" makes "begin" and "piped" say nothing more.                   *)
Doubted(what) ==
    LET all == doubt \cup what
    IN  doubt' = IF "error" \in all THEN all \ {"begin", "piped"} ELSE all

-----------------------------------------------------------------------------
(* The server *)

Detached(s, t) == s.fate[t] = "active" /\ s.cur # t
CanStart(s, t, resume) ==
    s.cur = None /\ IF resume THEN Detached(s, t) ELSE s.fate[t] = "unused"

Attach(s, t, by) ==
    [s EXCEPT !.cur = t, !.byServer = by, !.fate[t] = "active"]
Detach(s) == [s EXCEPT !.cur = None, !.byServer = FALSE]
Settle(s, t, fate) ==
    [s EXCEPT !.fate[t] = fate, !.dirty = @ \ {t},
              !.cur = IF @ = t THEN None ELSE @]
EndCurrent(s, fate) ==
    IF s.cur \in Ids THEN Detach(Settle(s, s.cur, fate)) ELSE Detach(s)

\* the statement itself: a DML opens a local transaction when there is none
Work(s, kind) ==
    IF kind # "dml" THEN s
    ELSE [s EXCEPT !.cur = IF @ = None THEN "local" ELSE @,
                   !.dirty = IF s.cur \in Xids THEN @ \cup {s.cur} ELSE @]

-----------------------------------------------------------------------------
(* What the client makes of a response *)

Begun(id, resume, pending) ==
    [id |-> id, resume |-> resume, op |-> {"start"},
     pending |-> pending, byServer |-> FALSE]

\* apply_sessionless_state
ApplyState(c, sync) ==
    CASE sync = "unset" -> [c EXCEPT !.sess = {}, !.flag = FALSE]
      [] sync \in {"set", "server"} ->
            [c EXCEPT !.flag = TRUE,
                      !.sess = IF @ # {}
                               THEN {[d EXCEPT !.byServer = sync = "server",
                                               !.pending = FALSE] : d \in @}
                               ELSE {[Begun(None, FALSE, FALSE) EXCEPT
                                        !.byServer = sync = "server"]}]
      [] OTHER -> c

BugCanSuspend == client.sess # {}

\* prepare_sessionless_suspend_on_success
CanSuspend == \E d \in client.sess : ~d.byServer
FoldSuspend(c) ==
    [c EXCEPT !.sess = {[d EXCEPT !.op = IF d.pending THEN @ \cup {"post"} ELSE {"post"},
                                  !.pending = TRUE] : d \in @}]

\* take_sessionless_piggyback: what rides on the execute, and what remains
Piggyback(c) == {d \in c.sess : d.pending}
Taken(c) == [c EXCEPT !.sess = {[d EXCEPT !.pending = FALSE] : d \in @}]

-----------------------------------------------------------------------------
(* Calls *)

\* answered: accepted and recorded, or refused
Answered(ok, server, recorded) ==
    IF ok THEN srv' = server /\ client' = recorded /\ UNCHANGED doubt
    ELSE Doubted({"error"}) /\ UNCHANGED <<srv, client>>
\* the response is lost: what is left of the client's state is `kept`
Lost(ok, server, kept) ==
    /\ Allowed("lost") /\ client' = kept /\ Doubted({"error"})
    /\ srv' \in (IF ok THEN {srv, server} ELSE {srv})
Call(ok, server, recorded) ==
    \/ Answered(ok, server, recorded)
    \/ Lost(ok, server, client)

Credit(by) == asked' = IF srv'.cur = None THEN None
                       ELSE IF srv.cur = None THEN by ELSE asked
Frame == Credit(user) /\ UNCHANGED <<user, deferrer, told>>

\* start_sessionless_transaction; a deferred one waits for the next execute
Start(id, resume, deferred) ==
    /\ client.sess = {} /\ user # "pool"
    /\ \/ /\ deferred
          /\ client' = [client EXCEPT !.sess = {Begun(id, resume, TRUE)}]
          /\ deferrer' = user
          /\ UNCHANGED <<srv, doubt>>
       \/ /\ ~deferred
          /\ Call(CanStart(srv, id, resume), Attach(srv, id, FALSE),
                  ApplyState([client EXCEPT !.sess = {Begun(id, resume, FALSE)}], "set"))
          /\ UNCHANGED deferrer
    /\ Credit(user) /\ UNCHANGED <<user, told>>

\* suspend_sessionless_transaction
Suspend ==
    /\ CanSuspend /\ user # "pool"
    /\ Call(srv.cur \in Ids, Detach(srv),
            ApplyState([client EXCEPT !.sess = {}], "unset"))
    /\ Frame

\* The execute of a query, a DML or a PL/SQL block that starts a sessionless
\* transaction itself.  A piggyback is processed first, its post-detach only
\* after the statement succeeded.
Rides(d) ==
    /\ "start" \in d.op => CanStart(srv, d.id, d.resume)
    /\ d.op = {"post"} => srv.cur \in Ids
Executed(kind, ride, id) ==
    LET begun == IF \E d \in ride : "start" \in d.op
                 THEN Attach(srv, (CHOOSE d \in ride : TRUE).id, FALSE) ELSE srv
        posted == \E d \in ride : "post" \in d.op
        worked == IF kind = "plsql" THEN Attach(begun, id, TRUE) ELSE Work(begun, kind)
    IN  [begun |-> begun,
         server |-> IF posted THEN Detach(worked) ELSE worked,
         sync |-> IF posted THEN "unset"
                  ELSE IF kind = "plsql" THEN "server"
                  ELSE IF ride # {} THEN "set" ELSE "none"]

BugRecordExecute(c, sync, server) == ApplyState(c, sync)

\* the SYNC piggyback first, then the end-of-call status
RecordExecute(c, sync, server) ==
    [ApplyState(c, sync) EXCEPT !.flag = server.cur # None]

Execute(kind, id, suspend) ==
    LET folded == IF suspend THEN FoldSuspend(client) ELSE client
        ride == Piggyback(folded)
        sent == Taken(folded)
        run == Executed(kind, ride, id)
        ok == (\A d \in ride : Rides(d)) /\ (kind = "plsql" => CanStart(run.begun, id, FALSE))
    IN  /\ user # "pool" /\ (suspend => CanSuspend)
        /\ \/ /\ ok /\ UNCHANGED doubt
              /\ srv' = run.server /\ client' = RecordExecute(sent, run.sync, run.server)
           \/ /\ ~ok /\ client' = sent /\ Doubted({"error"}) /\ UNCHANGED srv
           \/ /\ Allowed("fail") /\ ok       \* the statement fails, the begin stands
              /\ srv' = run.begun /\ client' = sent /\ Doubted({"error"})
           \/ Lost(ok, run.server, sent)
           \/ /\ Allowed("limit")            \* refused before the piggyback is taken
              /\ client' = folded /\ Doubted({"error"}) /\ UNCHANGED srv
        /\ Credit(IF \E d \in ride : "start" \in d.op THEN deferrer ELSE user)
        /\ UNCHANGED <<user, deferrer, told>>

\* commit and rollback: also forget a begin that was never sent
Ended(c) == [c EXCEPT !.sess = {}, !.flag = FALSE]

EndOfTransaction(fate) ==
    /\ user # "pool"
    /\ \/ /\ srv.cur \notin Xids
          /\ srv' = EndCurrent(srv, fate) /\ client' = Ended(client)
          /\ doubt' = {}
       \/ srv.cur \in Xids /\ Doubted({"error"}) /\ UNCHANGED <<srv, client>>
       \/ Lost(srv.cur \notin Xids, EndCurrent(srv, fate), client)
    /\ Frame

Commit == EndOfTransaction("committed")
Rollback == EndOfTransaction("aborted")

\* a pipelined commit refreshes the flag and leaves sessionless_data alone
PipelineCommit ==
    /\ Allowed("pipeline") /\ user # "pool"
    /\ \/ /\ srv.cur \notin Xids
          /\ srv' = EndCurrent(srv, "committed")
          /\ client' = [client EXCEPT !.flag = FALSE]
          /\ Doubted(IF \E d \in client.sess : ~d.pending THEN {"piped"} ELSE {})
       \/ srv.cur \in Xids /\ Doubted({"error"}) /\ UNCHANGED <<srv, client>>
       \/ Lost(srv.cur \notin Xids, EndCurrent(srv, "committed"), client)
    /\ Frame

-----------------------------------------------------------------------------
(* Two-phase commit.  Without an xid the call names the branch of the       *)
(* retained context.                                                        *)

Named(arg) == IF arg = None THEN client.ctx ELSE {arg}
Reachable(t) == srv.fate[t] = "active" /\ srv.cur \in {t, None}

TpcBegin(x, resume) ==
    /\ user # "pool"
    /\ Call(CanStart(srv, x, resume), Attach(srv, x, FALSE),
            [client EXCEPT !.ctx = {x}, !.flag = TRUE])
    /\ Frame

TpcEnded(c) == [c EXCEPT !.flag = FALSE, !.ctx = {}]

TpcEnd(arg) ==
    /\ user # "pool"
    /\ Call(srv.cur \in Xids \cap Named(arg), Detach(srv), TpcEnded(client))
    /\ Frame

\* a change of state: the server answers with the state the branch is in now
ChangeState(t, ok, fate, accepted, clears, say) ==
    LET server == Settle(srv, t, fate)
        flagged == [client EXCEPT !.flag = server.cur # None]
    IN  /\ \/ /\ ok /\ accepted /\ UNCHANGED doubt
              /\ srv' = server /\ told' = [told EXCEPT ![t] = say]
              /\ client' = [flagged EXCEPT !.ctx = IF clears THEN {} ELSE @]
           \/ /\ ok /\ ~accepted /\ Doubted({"error"})     \* DPY-5010
              /\ srv' = server /\ client' = flagged /\ UNCHANGED told
           \/ ~ok /\ Doubted({"error"}) /\ UNCHANGED <<srv, client, told>>
           \/ Lost(ok, server, client) /\ UNCHANGED told
        /\ Credit(user) /\ UNCHANGED <<user, deferrer>>

TpcPrepare(arg) ==
    /\ user # "pool"
    /\ \E t \in Named(arg) :
        LET fate == IF t \in srv.dirty THEN "prepared" ELSE "forgotten"
        IN  ChangeState(t, Reachable(t), fate, TRUE, FALSE, fate)

\* the out states tpc_commit accepts
CommitAccepts(one, fate) ==
    IF one THEN fate \in {"committed", "forgotten"} ELSE fate = "committed"

\* one-phase the server may find that it has to roll the branch back
TpcCommit(arg, one) ==
    /\ user # "pool"
    /\ \E t \in Named(arg) :
        \E fate \in (IF ~one THEN {"committed"}
                     ELSE IF t \in srv.dirty THEN {"committed", "aborted"}
                     ELSE {"forgotten"}) :
            ChangeState(t, IF one THEN Reachable(t)
                           ELSE srv.fate[t] = "prepared" /\ srv.cur = None,
                        fate, CommitAccepts(one, fate), TRUE, "committed")

\* the retained context is not cleared
TpcRollback(arg) ==
    /\ user # "pool"
    /\ \E t \in Named(arg) :
        ChangeState(t, Reachable(t) \/ (srv.fate[t] = "prepared" /\ srv.cur = None),
                    "aborted", TRUE, FALSE, "aborted")

-----------------------------------------------------------------------------
(* Pool and server on their own *)

BugRollbackOnRelease(c) == FALSE

\* release_blocking rolls back when the flag says so
RollbackOnRelease(c) == c.flag

\* a rollback that fails keeps the session with its borrower, unless it is
\* __del__ that releases it: then the failure is ignored
Release(in_del) ==
    /\ user # "pool"
    /\ \/ /\ RollbackOnRelease(client) /\ srv.cur \notin Xids
          /\ srv' = EndCurrent(srv, "aborted") /\ client' = Ended(client)
          /\ user' = "pool" /\ doubt' = {}
       \/ /\ RollbackOnRelease(client)          \* refused or lost
          /\ \/ srv.cur \in Xids /\ UNCHANGED srv
             \/ /\ Allowed("lost")
                /\ srv' \in {srv, IF srv.cur \in Xids THEN srv
                                 ELSE EndCurrent(srv, "aborted")}
          /\ user' = IF in_del THEN "pool" ELSE user
          /\ Doubted(IF in_del THEN {"error", "del"} ELSE {"error"})
          /\ UNCHANGED client
       \/ /\ ~RollbackOnRelease(client) /\ user' = "pool"
          /\ Doubted(IF Piggyback(client) # {} THEN {"begin"} ELSE {})
          /\ UNCHANGED <<srv, client>>
    /\ Credit(user) /\ UNCHANGED <<deferrer, told>>

Acquire(b) ==
    /\ user = "pool" /\ user' = b
    /\ UNCHANGED <<client, srv, doubt, asked, deferrer, told>>

\* the timeout of a detached transaction expires
Expire(t) ==
    /\ Detached(srv, t) /\ srv' = Settle(srv, t, "aborted")
    /\ UNCHANGED <<client, user, doubt, asked, deferrer, told>>

Init ==
    /\ client = [sess |-> {}, ctx |-> {}, flag |-> FALSE]
    /\ srv = [cur |-> None, byServer |-> FALSE, dirty |-> {},
              fate |-> [t \in Txns |-> "unused"]]
    /\ user = "pool" /\ doubt = {} /\ asked = None /\ deferrer = None
    /\ told = [t \in Xids |-> "nothing"]

Next ==
    \/ \E id \in Ids, resume, deferred \in BOOLEAN : Start(id, resume, deferred)
    \/ Suspend
    \/ \E kind \in {"query", "dml"}, suspend \in BOOLEAN : Execute(kind, None, suspend)
    \/ \E id \in Ids : Execute("plsql", id, FALSE)
    \/ Commit \/ Rollback \/ PipelineCommit
    \/ \E x \in Xids, resume \in BOOLEAN : TpcBegin(x, resume)
    \/ \E arg \in Xids \cup {None} :
        \/ TpcEnd(arg) \/ TpcPrepare(arg) \/ TpcRollback(arg)
        \/ \E one \in BOOLEAN : TpcCommit(arg, one)
    \/ \E in_del \in BOOLEAN : Release(in_del)
    \/ \E b \in Borrowers : Acquire(b)
    \/ \E t \in Txns : Expire(t)

Spec == Init /\ [][Next]_vars

-----------------------------------------------------------------------------
(* Properties *)

TypeOK ==
    /\ client.sess \subseteq
        [id : Ids \cup {None}, resume : BOOLEAN, op : SUBSET {"start", "post"},
         pending : BOOLEAN, byServer : BOOLEAN]
    /\ Cardinality(client.sess) <= 1 /\ client.flag \in BOOLEAN
    /\ client.ctx \subseteq Xids /\ Cardinality(client.ctx) <= 1
    /\ srv.cur \in Txns \cup {None, "local"} /\ srv.byServer \in BOOLEAN
    /\ srv.fate \in [Txns -> {"unused", "active", "prepared", "committed",
                              "aborted", "forgotten"}]
    /\ srv.dirty \subseteq Xids
    /\ user \in Borrowers \cup {"pool"}
    /\ doubt \subseteq {"error", "begin", "piped", "del"}
    /\ {asked, deferrer} \subseteq Borrowers \cup {None}
    /\ told \in [Xids -> {"nothing", "prepared", "forgotten", "committed", "aborted"}]

\* What a session in the pool may still carry (release_blocking, pyshim
\* pool.rs:370-401): a raised flag only if __del__ ignored a failed rollback, a
\* transaction on the server only if a call failed and no commit or rollback
\* succeeded since, tracked sessionless data only if one of the doubts explains it.
CleanHandover ==
    user = "pool" =>
        /\ client.flag => "del" \in doubt
        /\ "error" \notin doubt => srv.cur = None
        /\ doubt = {} => client.sess = {}

\* A borrower works in a transaction that another borrower asked for only after
\* a failed call or a deferred begin that was handed over with the session.
Isolation ==
    user # "pool" /\ srv.cur # None /\ doubt \cap {"error", "begin"} = {} =>
        asked = user

\* As long as no call failed since the last commit or rollback, client and server
\* agree: the flag is the server's, a current sessionless transaction is tracked,
\* a tracked one is current unless a pipelined commit ended it, and the context
\* is that of the attached branch.
Agrees ==
    "error" \notin doubt /\ user # "pool" =>
        /\ client.flag = (srv.cur # None)
        /\ srv.cur \in Ids => \E d \in client.sess : ~d.pending
        /\ "piped" \notin doubt /\ srv.cur \notin Ids => \A d \in client.sess : d.pending
        /\ srv.cur \in Xids => client.ctx = {srv.cur}

\* What a caller is told of a branch is what became of it.
ToldTheTruth ==
    \A x \in Xids :
        /\ told[x] \in {"committed", "aborted", "forgotten"} =>
              srv.fate[x] = told[x] \/ (told[x] = "committed" /\ srv.fate[x] = "forgotten")
        /\ told[x] = "prepared" => srv.fate[x] \in {"prepared", "committed", "aborted"}

\* The client never detaches a transaction that the server's own PL/SQL began
\* (DPY-3034), unless an error has already told it that its view may be stale.
KeepsServerTransaction ==
    []["error" \notin doubt /\ srv.byServer /\ srv'.cur = None =>
          srv'.fate[srv.cur] # "active"]_vars

\* The end of a request rolls back an in-progress transaction, unless it fails
\* under __del__ (release_blocking, pyshim pool.rs:370-372).  Not so: the flag it
\* looks at is not refreshed by a response that was lost.
ReleaseRollsBack ==
    user = "pool" /\ "del" \notin doubt => srv.cur = None

\* sessionless_data is None when no sessionless transaction is active on the
\* connection (lib.rs:2908-2911), a begin still queued apart.  Not so after a
\* pipelined commit, which leaves it as it was.
TracksOnlyActive ==
    "error" \notin doubt /\ (\E d \in client.sess : ~d.pending) => srv.cur \in Ids

-----------------------------------------------------------------------------
\* A release hands over no transaction, and no borrower meets another's, except
\* after what `doubt` records (release_blocking: the rollback that
\* transaction_in_progress decides on).
NothingCrossesRelease == CleanHandover /\ Isolation

\* What the client believes and what callers are told is what the server has
\* (apply_sessionless_state, tpc_prepare, tpc_commit, tpc_rollback).
ClientKnows == TypeOK /\ Agrees /\ ToldTheTruth
=============================================================================
