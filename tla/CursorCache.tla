---------------------------- MODULE CursorCache ----------------------------
(***************************************************************************)
(* The server cursors of one connection (crates/oracledb/src/lib.rs): the  *)
(* LRU statement cache, the cursors in use, the copies parsed because the  *)
(* cached cursor was busy, the metadata retained per cursor, and the queue *)
(* of cursors that the next execute closes by a piggyback.  Several owners *)
(* (Rows, a row stream, cursors of the Python shim) hold cursors of the    *)
(* connection and use it one at a time.                                    *)
(*                                                                         *)
(* The client's bookkeeping is the record `conn`.  The server is external: *)
(* it gives a fresh parse the lowest free cursor number, so a number comes *)
(* back as soon as it is closed, and it remembers the type family the      *)
(* binds were parsed with.                                                 *)
(***************************************************************************)
EXTENDS Naturals, Sequences, FiniteSets, FiniteSetsExt, SequencesExt, Functions

CONSTANTS
    Owners,       \* who may hold an open cursor
    Queries,      \* statements that return rows
    Dmls,         \* statements that do not
    Binding,      \* statements with a bind variable
    Lobs,         \* queries whose rows carry LOB locators with prefetch data
    CacheSize,    \* statement_cache_size
    Usage,        \* what the callers do, see below
    MaxExecs      \* bound: executions in one behaviour

(* Usage may contain                                                        *)
(*   "fail"       a statement fails on the server                           *)
(*   "abandon"    an execute is dropped, or times out, before its response  *)
(*   "uncached"   cache_statement(false) of a statement nobody is reading   *)
(*   "takebusy"   the same of a statement whose cursor is in use            *)
(*   "crowd"      more open queries than the cache has room for             *)
(*   "copyfail"   the copy of a busy statement fails                        *)
(*   "bindcopy"   the copy of a busy statement is bound as an IN REF CURSOR *)
ASSUME CursorAssumption ==
    /\ Queries \cap Dmls = {} /\ Lobs \subseteq Queries
    /\ Binding \subseteq Queries \cup Dmls
    /\ CacheSize \in Nat /\ MaxExecs \in Nat
    /\ Usage \subseteq {"fail", "abandon", "uncached", "takebusy", "crowd",
                        "copyfail", "bindcopy"}

VARIABLES
    conn,      \* cache, inUse, copied, toClose, columns, lob
    held,      \* owner -> the cursor and statement it holds (at most one)
    srv,       \* open cursor -> [sql, family]
    foreign,   \* open cursors that PL/SQL has been given
    orphans,   \* open cursors that the client has lost with an abandoned
               \* execute: nobody closes them before the session ends
    execs      \* executions so far

vars == <<conn, held, srv, foreign, orphans, execs>>

Sqls == Queries \cup Dmls
Ids == 1..(MaxExecs + 1)
Allowed(what) == what \in Usage

-----------------------------------------------------------------------------
(* Bind shapes: one slot is enough.  An untyped NULL is sent as VARCHAR.  *)
(* A statement without binds always has the same shape.                   *)

BindShapes(sql) == IF sql \in Binding THEN {"number", "null"} ELSE {"number"}
Family(shape) == IF shape = "null" THEN "text" ELSE shape

BugCompatible(cached, new) == TRUE

\* bind_shape_is_compatible
Compatible(cached, new) == new = "null" \/ Family(cached) = Family(new)

\* the shape kept for a cursor that is executed again
Inherited(old, new) == IF new = "null" THEN old ELSE new

-----------------------------------------------------------------------------
(* Connection methods, as functions of the bookkeeping *)

Cached(k, sql) == {i \in DOMAIN k.cache : k.cache[i].sql = sql}
Entry(k, sql) == k.cache[CHOOSE i \in Cached(k, sql) : TRUE]
CachedIds(k) == {k.cache[i].cid : i \in DOMAIN k.cache}

\* Vec::retain and Vec::remove: the elements of q at the positions in keep
Retain(q, keep) ==
    LET F[i \in 0..Len(q)] ==
            IF i = 0 THEN <<>>
            ELSE IF i \in keep THEN Append(F[i-1], q[i]) ELSE F[i-1]
    IN  F[Len(q)]
WithoutCid(q, cid) == Retain(q, {i \in DOMAIN q : q[i].cid # cid})
WithoutSql(q, sql) == Retain(q, {i \in DOMAIN q : q[i].sql # sql})

\* BTreeMap::insert
Insert(f, x, v) == [y \in DOMAIN f \cup {x} |-> IF y = x THEN v ELSE f[y]]

\* cursor_columns and lob_prefetch_cursors lose the cursor
ForgetMetadata(k, ids) ==
    [k EXCEPT !.columns = Restrict(@, DOMAIN @ \ ids), !.lob = @ \ ids]

CloseCursor(k, cid) ==
    [ForgetMetadata(k, {cid}) EXCEPT
        !.cache = WithoutCid(@, cid),
        !.inUse = @ \ {cid}, !.copied = @ \ {cid},
        !.toClose = IF cid \in ToSet(@) THEN @ ELSE Append(@, cid)]

BugReleaseCursor(k, cid) == [k EXCEPT !.inUse = @ \ {cid}]

\* a copy is closed when its owner is done with it; others stay open
ReleaseCursor(k, cid) ==
    LET free == [k EXCEPT !.inUse = @ \ {cid}]
    IN  IF cid \notin k.copied THEN free
        ELSE [ForgetMetadata(free, {cid}) EXCEPT
                !.copied = @ \ {cid}, !.toClose = Append(@, cid)]

CacheInvalidate(k, sql, cids) ==
    LET left == [k EXCEPT !.cache = WithoutSql(@, sql)]
    IN  IF cids = {} THEN left ELSE CloseCursor(left, CHOOSE cid \in cids : TRUE)

BugInUse(k, sql) == FALSE

\* statement_is_in_use
InUse(k, sql) == Cached(k, sql) # {} /\ Entry(k, sql).cid \in k.inUse

\* statement_cache_get and statement_cache_take: the bookkeeping and the
\* cursor to execute, a set of at most one
CacheGet(k, sql, shape) ==
    IF Cached(k, sql) = {} THEN [k |-> k, cid |-> {}]
    ELSE LET e == Entry(k, sql) IN
         IF ~Compatible(e.shape, shape)
         THEN [k |-> CacheInvalidate(k, sql, {e.cid}), cid |-> {}]
         ELSE [k |-> [k EXCEPT !.cache = Append(WithoutSql(@, sql), e)],
               cid |-> {e.cid}]

CacheTake(k, sql, shape) ==
    LET got == CacheGet(k, sql, shape)
    IN  [got EXCEPT !.k.cache = WithoutSql(@, sql)]

\* the entry written for sql: an untyped NULL does not change the family that
\* the cursor was parsed with
Written(k, sql, cid, shape) ==
    LET again == Cached(k, sql) # {} /\ Entry(k, sql).cid = cid
    IN  [sql |-> sql, cid |-> cid,
         shape |-> IF again THEN Inherited(Entry(k, sql).shape, shape) ELSE shape]
\* the cursor that the entry named before
Replaced(k, sql, cid) ==
    IF Cached(k, sql) # {} /\ Entry(k, sql).cid # cid THEN <<Entry(k, sql).cid>> ELSE <<>>
Excess(q) == IF Len(q) > CacheSize THEN Len(q) - CacheSize ELSE 0

\* statement_cache_put: the entry moves to the end, the oldest ones beyond the
\* capacity are queued for close
CachePut(k, sql, cid, shape) ==
    LET grown == Append(WithoutSql(k.cache, sql), Written(k, sql, cid, shape))
        excess == Excess(grown)
        gone == Replaced(k, sql, cid) \o [i \in 1..excess |-> grown[i].cid]
    IN  [ForgetMetadata(k, ToSet(gone)) EXCEPT
            !.cache = SubSeq(grown, excess + 1, Len(grown)),
            !.toClose = @ \o gone]

-----------------------------------------------------------------------------
(* Operations *)

Init ==
    /\ conn = [cache |-> <<>>, inUse |-> {}, copied |-> {}, toClose |-> <<>>,
               columns |-> <<>>, lob |-> {}]
    /\ held = [o \in Owners |-> {}]
    /\ srv = <<>> /\ foreign = {} /\ orphans = {} /\ execs = 0

Lookup(sql, shape, caching) ==
    LET found == IF caching THEN CacheGet(conn, sql, shape)
                 ELSE CacheTake(conn, sql, shape)
    IN  IF caching /\ InUse(conn, sql) THEN [k |-> conn, cid |-> {}, copy |-> TRUE]
        ELSE [k |-> found.k, cid |-> found.cid, copy |-> FALSE]

\* the request: the piggyback closes the queued cursors, then the statement
\* runs on the cursor found or on a new one
Survivors(k) == Restrict(srv, DOMAIN srv \ ToSet(k.toClose))
Parsed(open, sql, shape) ==
    LET cid == Min(Ids \ DOMAIN open)
    IN  [cid |-> cid,
         srv |-> Insert(open, cid, [sql |-> sql, family |-> Family(shape)])]
Ran(look, sql, shape) ==
    LET open == Survivors(look.k)
    IN  IF look.cid = {} THEN Parsed(open, sql, shape)
        ELSE [cid |-> CHOOSE cid \in look.cid : TRUE, srv |-> open]

Sent(k) == [k EXCEPT !.toClose = <<>>]

\* a successful response: into the copies or into the cache, marked in use,
\* its metadata retained
Recorded(k, look, sql, shape, caching, cid, rows) ==
    LET lob == [k EXCEPT !.lob = IF sql \in Lobs /\ rows THEN @ \cup {cid} ELSE @]
        kept == IF look.copy THEN [lob EXCEPT !.copied = @ \cup {cid}]
                ELSE IF caching THEN CachePut(lob, sql, cid, shape) ELSE lob
    IN  IF sql \notin Queries THEN kept
        ELSE [kept EXCEPT !.inUse = @ \cup {cid},
                          !.columns = Insert(@, cid, sql)]

\* the callers' restraint, lifted by Usage
Live == UNION {held[o] : o \in Owners}
Crowded(sql) ==
    LET entries == {e.sql : e \in ToSet(conn.cache)} \cup {sql}
    IN  Cardinality(entries) > CacheSize /\ Live # {}

CanExecute(o, sql, caching) ==
    /\ execs < MaxExecs /\ execs' = execs + 1
    /\ held[o] = {}
    /\ caching \/ Allowed("uncached")
    /\ caching \/ ~InUse(conn, sql) \/ Allowed("takebusy")
    /\ Allowed("crowd") \/ ~Crowded(sql)

ExecuteOk(o, sql, shape, caching, rows) ==
    LET look == Lookup(sql, shape, caching)
        run == Ran(look, sql, shape)
    IN  /\ CanExecute(o, sql, caching)
        /\ srv' = run.srv
        /\ conn' = Recorded(Sent(look.k), look, sql, shape, caching, run.cid, rows)
        /\ held' = [held EXCEPT ![o] = IF sql \in Queries \/ ~caching
                      THEN {[cid |-> run.cid, sql |-> sql, raw |-> ~caching]} ELSE {}]
        /\ UNCHANGED <<foreign, orphans>>

\* the error names the cursor, also when it was parsed for this statement
ExecuteFails(o, sql, shape, caching) ==
    LET look == Lookup(sql, shape, caching)
        run == Ran(look, sql, shape)
        failed == CloseCursor(Sent(look.k), run.cid)
    IN  /\ Allowed("fail") /\ CanExecute(o, sql, caching)
        /\ Allowed("copyfail") \/ ~look.copy
        /\ srv' = run.srv
        /\ conn' = IF caching THEN CacheInvalidate(failed, sql, look.cid)
                   ELSE failed
        /\ UNCHANGED <<held, foreign, orphans>>

\* the future is dropped after the request went out: a cursor parsed for it is
\* never heard of, and one taken from the cache for it is not put back
ExecuteAbandoned(o, sql, shape, caching) ==
    LET look == Lookup(sql, shape, caching)
        run == Ran(look, sql, shape)
    IN  /\ Allowed("abandon") /\ CanExecute(o, sql, caching)
        /\ srv' = run.srv
        /\ orphans' = IF caching /\ look.cid # {} THEN orphans ELSE orphans \cup {run.cid}
        /\ conn' = Sent(look.k)
        /\ UNCHANGED <<held, foreign>>

\* the owner is done: Rows::release_cursor, the shim's close, a drained stream.
\* A cursor executed without the cache is to be closed instead (close_cursor)
Finish(o) ==
    /\ held[o] # {} /\ \A h \in held[o] : ~h.raw
    /\ conn' = ReleaseCursor(conn, (CHOOSE h \in held[o] : TRUE).cid)
    /\ held' = [held EXCEPT ![o] = {}]
    /\ UNCHANGED <<srv, foreign, orphans, execs>>

\* a fetch failed or timed out and the cursor is not trusted any more, or it
\* never belonged to the cache
\* (close_cursor_on_error, BorrowedStreamCursorGuard::drop)
Discard(o) ==
    /\ held[o] # {}
    /\ conn' = CloseCursor(conn, (CHOOSE h \in held[o] : TRUE).cid)
    /\ held' = [held EXCEPT ![o] = {}]
    /\ UNCHANGED <<srv, foreign, orphans, execs>>

\* invalidate_bound_ref_cursors
HandOver(k, cid) ==
    [ForgetMetadata(k, {cid}) EXCEPT
        !.cache = WithoutCid(@, cid)]

\* a cursor is passed to PL/SQL as an IN REF CURSOR: from then on it is the
\* server's, which may close it. Its owner closes it (the shim's close, which
\* releases the id) before it is used again; README section 6 says what happens
\* otherwise
BindRefCursor(o) ==
    LET cid == (CHOOSE h \in held[o] : TRUE).cid
    IN  /\ held[o] # {}
        /\ cid \notin conn.copied \/ Allowed("bindcopy")
        /\ conn' = ReleaseCursor(HandOver(conn, cid), cid)
        /\ held' = [held EXCEPT ![o] = {}]
        /\ foreign' = foreign \cup {cid}
        /\ UNCHANGED <<srv, orphans, execs>>

ServerCloses(cid) ==
    /\ cid \in foreign
    /\ srv' = Restrict(srv, DOMAIN srv \ {cid})
    /\ foreign' = foreign \ {cid}
    /\ UNCHANGED <<conn, held, orphans, execs>>

Next ==
    \/ \E o \in Owners, sql \in Sqls : \E shape \in BindShapes(sql) :
        \/ \E caching \in BOOLEAN, rows \in {TRUE, sql \notin Lobs} :
               ExecuteOk(o, sql, shape, caching, rows)
        \/ \E caching \in BOOLEAN : \/ ExecuteFails(o, sql, shape, caching)
                                   \/ ExecuteAbandoned(o, sql, shape, caching)
    \/ \E o \in Owners : Finish(o) \/ Discard(o) \/ BindRefCursor(o)
    \/ \E cid \in foreign : ServerCloses(cid)

OwnerSymmetry == Permutations(Owners)

Spec == Init /\ [][Next]_vars

-----------------------------------------------------------------------------
(* Properties *)

TypeOK ==
    /\ conn.cache \in Seq([sql : Sqls, cid : Ids, shape : {"number", "null"}])
    /\ Len(conn.cache) <= CacheSize
    /\ conn.inUse \subseteq Ids /\ conn.copied \subseteq Ids
    /\ conn.toClose \in Seq(Ids) /\ conn.lob \subseteq Ids
    /\ \A o \in Owners : held[o] \subseteq [cid : Ids, sql : Sqls, raw : BOOLEAN]

\* Two owners never drive the same query cursor: its fetch position would be
\* reset under the first of them (in_use_cursors, lib.rs:2887-2894).
CursorExclusive ==
    \A o, p \in Owners : \A h \in held[o], g \in held[p] :
        h.cid = g.cid => o = p

\* While an owner reads from a cursor, the cursor is open on the server, is
\* still that statement's and is not queued to be closed.
LiveCursorOpen ==
    \A h \in Live :
        /\ h.cid \in DOMAIN srv /\ srv[h.cid].sql = h.sql
        /\ h.cid \notin ToSet(conn.toClose)

\* Every cursor open on the server is one the client can name: cached, held or
\* queued for close.  Otherwise the session runs out of cursors (ORA-01000).
\* Only an abandoned execute leaks, and no more than the cursor it ran on.
NoCursorLeak ==
    DOMAIN srv \subseteq CachedIds(conn) \cup {h.cid : h \in Live}
                            \cup ToSet(conn.toClose) \cup foreign \cup orphans

\* A cached cursor can be executed as it stands: it is open, parsed for that
\* statement and with the type family the cache remembers, and no two entries
\* share a statement or a cursor.
CachedUsable ==
    /\ \A i \in DOMAIN conn.cache :
        LET e == conn.cache[i] IN
        /\ e.cid \in DOMAIN srv \ (ToSet(conn.toClose) \cup foreign \cup orphans)
        /\ srv[e.cid] = [sql |-> e.sql, family |-> Family(e.shape)]
    /\ \A i, j \in DOMAIN conn.cache :
        conn.cache[i].sql = conn.cache[j].sql
            \/ conn.cache[i].cid = conn.cache[j].cid => i = j

\* A cursor is queued for close once and only while it is open: the server
\* reuses numbers, so a second close would hit somebody else's cursor.
CloseOnce ==
    /\ ToSet(conn.toClose) \subseteq DOMAIN srv \ (foreign \cup orphans)
    /\ Cardinality(ToSet(conn.toClose)) = Len(conn.toClose)

\* The metadata a fetch decodes with is that of the statement being fetched,
\* although the server reuses cursor numbers.
MetadataFresh ==
    \A h \in Live :
        /\ h.cid \in DOMAIN conn.columns => conn.columns[h.cid] = h.sql
        /\ h.cid \in conn.lob => h.sql \in Lobs

-----------------------------------------------------------------------------
\* Statement reuse, copies and evictions leave a cursor alone while its owner
\* reads from it.
CursorsInUse == TypeOK /\ CursorExclusive /\ LiveCursorOpen

\* Every cursor of the server has one fate: kept, in use, or closed once.
CursorsAccounted == NoCursorLeak /\ CloseOnce

\* What the client remembers of a cursor is true of the cursor that has this
\* number now.
CacheHonest == CachedUsable /\ MetadataFresh
=============================================================================
