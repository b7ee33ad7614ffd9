-------------------------- MODULE CursorCacheProofs --------------------------
(***************************************************************************)
(* Proofs about CursorCache: for any number of owners, statements and      *)
(* executions and every non-empty cache, owners that do not crowd the      *)
(* cache, do not take a busy statement out of it and whose copies do not   *)
(* fail never share a cursor, lose one, or close one twice, and what the   *)
(* connection remembers of a cursor number is true of the cursor that has  *)
(* the number now.                                                         *)
(***************************************************************************)
EXTENDS CursorCache, FiniteSetTheorems, SequenceTheorems, NaturalsInduction, TLAPS

Shapes == {"number", "null"}
Entries == [sql : Sqls, cid : Ids, shape : Shapes]
Holds == [cid : Ids, sql : Sqls, raw : BOOLEAN]
Parses == [sql : Sqls, family : {"number", "text"}]

\* a partial function of the ids
Table(f, S) == \E D \in SUBSET Ids : f \in [D -> S]

-----------------------------------------------------------------------------
(* Types *)

\* no two entries share a statement or a cursor
Distinct(q) ==
    \A i, j \in DOMAIN q : q[i].sql = q[j].sql \/ q[i].cid = q[j].cid => i = j

OneToOne(q) == \A i, j \in DOMAIN q : q[i] = q[j] => i = j

\* the bookkeeping is well formed
Books(k) ==
    /\ k = [cache |-> k.cache, inUse |-> k.inUse, copied |-> k.copied,
            toClose |-> k.toClose, columns |-> k.columns, lob |-> k.lob]
    /\ k.cache \in Seq(Entries) /\ Distinct(k.cache)
    /\ k.toClose \in Seq(Ids) /\ OneToOne(k.toClose)
    /\ k.inUse \subseteq Ids /\ k.copied \subseteq Ids /\ k.lob \subseteq Ids
    /\ Table(k.columns, Sqls)

\* every owner holds at most one cursor; the server has opened at most one
\* cursor for each execution
Types ==
    /\ Books(conn) /\ Len(conn.cache) <= CacheSize
    /\ held \in [Owners -> SUBSET Holds]
    /\ \A o \in Owners : \A h, g \in held[o] : h = g
    /\ Table(srv, Parses) /\ foreign \subseteq DOMAIN srv
    /\ execs \in 0..MaxExecs
    /\ IsFiniteSet(DOMAIN srv) /\ Cardinality(DOMAIN srv) <= execs

-----------------------------------------------------------------------------
(* The inductive invariant, on sets: the entries E of the cache, the close   *)
(* queue T, the ids in use U, the copies C, the columns M and LOB marks B    *)
(* retained, what the owners hold L, the cursors of the server s those that *)
(* PL/SQL has been given f, and the lost ones.                               *)

Cids(S) == {x.cid : x \in S}

\* the entries for other cursors, for other statements
NotCid(E, c) == {e \in E : e.cid # c}
NotSql(E, sql) == {e \in E : e.sql # sql}

\* ids in use, columns and LOB marks with those of the cursor c of sql
Using(U, c, sql) == IF sql \in Queries THEN U \cup {c} ELSE U
Described(M, c, sql) == IF sql \in Queries THEN Insert(M, c, sql) ELSE M
Prefetched(B, c, sql, rows) == IF sql \in Lobs /\ rows THEN B \cup {c} ELSE B

\* M forgets X
Forgets(M2, M, X) ==
    DOMAIN M2 = DOMAIN M \ X /\ \A c \in DOMAIN M2 : M2[c] = M[c]

Parse(e) == [sql |-> e.sql, family |-> Family(e.shape)]

\* what is cached or held is open, nobody else's and what it is said to be
EntriesTrue(E, T, s, f) ==
    /\ \A e \in E : e.cid \in DOMAIN s /\ e.cid \notin T \cup f /\ s[e.cid] = Parse(e)
    /\ \A e, g \in E : e.sql = g.sql \/ e.cid = g.cid => e = g

HoldsTrue(L, T, s, f) ==
    /\ \A h \in L : h.cid \in DOMAIN s /\ h.cid \notin T \cup f /\ s[h.cid].sql = h.sql
    /\ \A h, g \in L : h.cid = g.cid => h = g

\* every open cursor is accounted for
AllKnown(E, T, L, s, f) ==
    /\ T \subseteq DOMAIN s /\ f \subseteq DOMAIN s /\ T \cap f = {}
    /\ DOMAIN s \subseteq Cids(E) \cup Cids(L) \cup T \cup f

UseTrue(U, L) == U = Cids({h \in L : h.sql \in Queries})

RawApart(E, C, L) ==
    /\ \A h \in L : h.raw => h.cid \notin Cids(E) \cup C
    /\ \A h \in L : ~h.raw => h.sql \in Queries /\ h.cid \in Cids(E) \cup C
    /\ C \subseteq Cids(L) /\ C \cap Cids(E) = {}

MetadataTrue(E, M, B, L, s, lost) ==
    /\ DOMAIN M \subseteq Cids(E) \cup Cids(L) \cup lost
    /\ B \subseteq Cids(E) \cup Cids(L) \cup lost
    /\ \A c \in DOMAIN M : M[c] = s[c].sql
    /\ \A c \in B : s[c].sql \in Lobs

Core(E, T, U, C, M, B, L, s, f, lost) ==
    /\ EntriesTrue(E, T, s, f \cup lost) /\ HoldsTrue(L, T, s, f \cup lost)
    /\ AllKnown(E, T, L, s, f \cup lost) /\ f \cap lost = {}
    /\ UseTrue(U, L) /\ RawApart(E, C, L) /\ MetadataTrue(E, M, B, L, s, lost)

CursorInv ==
    /\ Types /\ CursorExclusive
    /\ Core(ToSet(conn.cache), ToSet(conn.toClose), conn.inUse, conn.copied,
            conn.columns, conn.lob, Live, srv, foreign, orphans)

\* A cached cursor nobody holds is queued for close.
LEMMA CoreInvalidates ==
    ASSUME NEW E, NEW T, NEW U, NEW C, NEW M, NEW B, NEW L, NEW s, NEW f, NEW lost,
           Core(E, T, U, C, M, B, L, s, f, lost),
           NEW e \in E, e.cid \notin Cids(L), NEW M2, Forgets(M2, M, {e.cid})
    PROVE  Core(E \ {e}, T \cup {e.cid}, U, C, M2, B \ {e.cid}, L, s, f, lost)
BY
   DEF Core, EntriesTrue, HoldsTrue, AllKnown, UseTrue, RawApart, MetadataTrue, Cids, Forgets

\* The queued cursors are closed by the server.
LEMMA CoreFlushes ==
    ASSUME NEW E, NEW T, NEW U, NEW C, NEW M, NEW B, NEW L, NEW s, NEW f, NEW lost,
           Core(E, T, U, C, M, B, L, s, f, lost), NEW s2, Forgets(s2, s, T)
    PROVE  Core(E, {}, U, C, M, B, L, s2, f, lost)
BY
   DEF Core, EntriesTrue, HoldsTrue, AllKnown, UseTrue, RawApart, MetadataTrue, Cids, Forgets

\* A cursor is parsed; nobody has heard of it yet.
LEMMA CoreParses ==
    ASSUME NEW E, NEW T, NEW U, NEW C, NEW M, NEW B, NEW L, NEW s, NEW f, NEW lost,
           Core(E, T, U, C, M, B, L, s, f, lost), NEW c, c \notin DOMAIN s,
           NEW s2, DOMAIN s2 = DOMAIN s \cup {c}, \A x \in DOMAIN s : s2[x] = s[x]
    PROVE  Core(E, T, U, C, M, B, L, s2, f \cup {c}, lost)
BY
   DEF Core, EntriesTrue, HoldsTrue, AllKnown, UseTrue, RawApart, MetadataTrue, Cids

\* The client closes a cursor that was unknown.
LEMMA CoreQueues ==
    ASSUME NEW E, NEW T, NEW U, NEW C, NEW M, NEW B, NEW L, NEW s, NEW f, NEW lost,
           Core(E, T, U, C, M, B, L, s, f, lost), NEW c \in f
    PROVE  Core(E, T \cup {c}, U, C, M, B, L, s, f \ {c}, lost)
BY
   DEF Core, EntriesTrue, HoldsTrue, AllKnown, UseTrue, RawApart, MetadataTrue, Cids

\* The client caches one.
LEMMA CoreCaches ==
    ASSUME NEW E, NEW T, NEW U, NEW C, NEW M, NEW B, NEW L, NEW s, NEW f, NEW lost,
           Core(E, T, U, C, M, B, L, s, f, lost), NEW e, e.cid \in f, s[e.cid] = Parse(e),
           \A g \in E : g.sql # e.sql
    PROVE  Core(E \cup {e}, T, U, C, M, B, L, s, f \ {e.cid}, lost)
BY
   DEF Core, EntriesTrue, HoldsTrue, AllKnown, UseTrue, RawApart, MetadataTrue, Cids

\* An entry is written again with a shape of the same family.
LEMMA CoreRewrites ==
    ASSUME NEW E, NEW T, NEW U, NEW C, NEW M, NEW B, NEW L, NEW s, NEW f, NEW lost,
           Core(E, T, U, C, M, B, L, s, f, lost), NEW e \in E, NEW e2,
           e2.sql = e.sql, e2.cid = e.cid, Parse(e2) = Parse(e)
    PROVE  Core((E \ {e}) \cup {e2}, T, U, C, M, B, L, s, f, lost)
<1> DEFINE N == (E \ {e}) \cup {e2}
<1>1. Cids(N) = Cids(E)
  BY DEF Cids
<1>2. EntriesTrue(N, T, s, f \cup lost)
  BY DEF Core, EntriesTrue
<1> HIDE DEF N
<1>3. AllKnown(N, T, L, s, f \cup lost) /\ RawApart(N, C, L)
  BY <1>1 DEF Core, AllKnown, RawApart
<1>4. MetadataTrue(N, M, B, L, s, lost)
  BY <1>1 DEF Core, MetadataTrue
<1> QED
  BY <1>2, <1>3, <1>4 DEF Core, N

\* Entries are evicted while nobody holds a cursor.
LEMMA CoreEvicts ==
    ASSUME NEW E, NEW T, NEW U, NEW C, NEW M, NEW B, NEW s, NEW f, NEW lost,
           Core(E, T, U, C, M, B, {}, s, f, lost), NEW G \in SUBSET E,
           NEW M2, Forgets(M2, M, Cids(G))
    PROVE  Core(E \ G, T \cup Cids(G), U, C, M2, B \ Cids(G), {}, s, f, lost)
BY
   DEF Core, EntriesTrue, HoldsTrue, AllKnown, UseTrue, RawApart, MetadataTrue, Cids, Forgets

\* An owner takes a cursor of the cache that nobody holds; it remains cached.
LEMMA CoreLends ==
    ASSUME NEW E, NEW T, NEW U, NEW C, NEW M, NEW B, NEW L, NEW s, NEW f, NEW lost,
           Core(E, T, U, C, M, B, L, s, f, lost), NEW e \in E, e.cid \notin Cids(L),
           NEW h, h.cid = e.cid, h.sql = e.sql, h.raw = FALSE, e.sql \in Queries
    PROVE  Core(E, T, U \cup {e.cid}, C, M, B, L \cup {h}, s, f, lost)
<1> DEFINE L2 == L \cup {h}
<1>1. Cids(L2) = Cids(L) \cup {e.cid}
  BY DEF Cids
<1>2. HoldsTrue(L2, T, s, f \cup lost)
  <2>1. s[e.cid].sql = e.sql
    <3>1. s[e.cid] = Parse(e)
      BY DEF Core, EntriesTrue
    <3> QED
      BY <3>1 DEF Parse
  <2>2. \A g \in L : g.cid # e.cid
    BY DEF Cids
  <2>3. e.cid \in DOMAIN s /\ e.cid \notin T \cup (f \cup lost)
    BY DEF Core, EntriesTrue
  <2> QED
    BY <2>1, <2>2, <2>3 DEF Core, HoldsTrue
<1>3. UseTrue(U \cup {e.cid}, L2)
  BY DEF Core, UseTrue, Cids
<1>4. e.cid \in Cids(E) /\ e.cid \notin C
  BY DEF Core, RawApart, Cids
<1>5. RawApart(E, C, L2)
  BY <1>1, <1>4 DEF Core, RawApart
<1> HIDE DEF L2
<1>6. AllKnown(E, T, L2, s, f \cup lost) /\ MetadataTrue(E, M, B, L2, s, lost)
  BY <1>1 DEF Core, AllKnown, MetadataTrue
<1> QED
  BY <1>2, <1>3, <1>5, <1>6 DEF Core, L2

\* An owner takes one out of the cache.
LEMMA CoreTakes ==
    ASSUME NEW E, NEW T, NEW U, NEW C, NEW M, NEW B, NEW L, NEW s, NEW f, NEW lost,
           Core(E, T, U, C, M, B, L, s, f, lost), NEW e \in E, e.cid \notin Cids(L),
           NEW h, h.cid = e.cid, h.sql = e.sql, h.raw = TRUE
    PROVE  Core(E \ {e}, T, Using(U, e.cid, e.sql),
                C, M, B, L \cup {h}, s, f, lost)
<1> DEFINE L2 == L \cup {h}
<1>1. Cids(L2) = Cids(L) \cup {e.cid}
  BY DEF Cids
<1>2. HoldsTrue(L2, T, s, f \cup lost)
  <2>1. s[e.cid].sql = e.sql
    <3>1. s[e.cid] = Parse(e)
      BY DEF Core, EntriesTrue
    <3> QED
      BY <3>1 DEF Parse
  <2>2. \A g \in L : g.cid # e.cid
    BY DEF Cids
  <2>3. e.cid \in DOMAIN s /\ e.cid \notin T \cup (f \cup lost)
    BY DEF Core, EntriesTrue
  <2> QED
    BY <2>1, <2>2, <2>3 DEF Core, HoldsTrue
<1> DEFINE N == E \ {e}
           U2 == Using(U, e.cid, e.sql)
<1>3. UseTrue(U2, L2)
  <2>1. CASE e.sql \in Queries
    BY <2>1 DEF Core, UseTrue, Cids, Using
  <2>2. CASE e.sql \notin Queries
    BY <2>2 DEF Core, UseTrue, Cids, Using
  <2> QED
    BY <2>1, <2>2
<1>4. e.cid \in Cids(E) /\ e.cid \notin C
  BY DEF Core, RawApart, Cids
<1>5. Cids(N) = Cids(E) \ {e.cid}
  BY DEF Core, EntriesTrue, Cids
<1>6. EntriesTrue(N, T, s, f \cup lost)
  BY DEF Core, EntriesTrue
<1>7. \A g \in L : g.cid # e.cid
  BY DEF Cids
<1>8. RawApart(N, C, L2)
  <2> HIDE DEF N
  <2> QED
    BY <1>1, <1>4, <1>5, <1>7 DEF Core, RawApart
<1> HIDE DEF L2, N, U2
<1>9. AllKnown(N, T, L2, s, f \cup lost) /\ MetadataTrue(N, M, B, L2, s, lost)
  BY <1>1, <1>5 DEF Core, AllKnown, MetadataTrue
<1> QED
  BY <1>2, <1>3, <1>6, <1>8, <1>9 DEF Core, L2, N, U2

\* An owner gets a cursor parsed for it, as a copy or without the cache.
LEMMA CoreCopies ==
    ASSUME NEW E, NEW T, NEW U, NEW C, NEW M, NEW B, NEW L, NEW s, NEW f, NEW lost,
           Core(E, T, U, C, M, B, L, s, f, lost),
           NEW h, h.cid \in f, s[h.cid].sql = h.sql, h.raw = FALSE, h.sql \in Queries
    PROVE  Core(E, T, U \cup {h.cid}, C \cup {h.cid}, M, B, L \cup {h}, s, f \ {h.cid}, lost)
BY
   DEF Core, EntriesTrue, HoldsTrue, AllKnown, UseTrue, RawApart, MetadataTrue, Cids

\* A cursor nobody has heard of becomes its owner's alone, outside the cache.
LEMMA CoreOpens ==
    ASSUME NEW E, NEW T, NEW U, NEW C, NEW M, NEW B, NEW L, NEW s, NEW f, NEW lost,
           Core(E, T, U, C, M, B, L, s, f, lost),
           NEW h, h.cid \in f, s[h.cid].sql = h.sql, h.raw = TRUE
    PROVE  Core(E, T, Using(U, h.cid, h.sql), C,
                M, B, L \cup {h}, s, f \ {h.cid}, lost)
BY
   DEF Core, EntriesTrue, HoldsTrue, AllKnown, UseTrue, RawApart, MetadataTrue, Cids,
       Using

\* What is retained of a cursor that is cached or held is what it was parsed for.
LEMMA CoreDescribes ==
    ASSUME NEW E, NEW T, NEW U, NEW C, NEW M, NEW B, NEW L, NEW s, NEW f, NEW lost,
           Core(E, T, U, C, M, B, L, s, f, lost), NEW c \in Cids(E) \cup Cids(L),
           NEW M2, DOMAIN M2 = DOMAIN M \cup {c}, M2[c] = s[c].sql,
           \A x \in DOMAIN M : x # c => M2[x] = M[x]
    PROVE  Core(E, T, U, C, M2, B, L, s, f, lost)
BY DEF Core, EntriesTrue, HoldsTrue, AllKnown, UseTrue, RawApart, MetadataTrue

\* The LOB mark of a cursor that is known to belong to a LOB query.
LEMMA CoreMarks ==
    ASSUME NEW E, NEW T, NEW U, NEW C, NEW M, NEW B, NEW L, NEW s, NEW f, NEW lost,
           Core(E, T, U, C, M, B, L, s, f, lost), NEW c \in Cids(E) \cup Cids(L),
           s[c].sql \in Lobs
    PROVE  Core(E, T, U, C, M, B \cup {c}, L, s, f, lost)
BY DEF Core, EntriesTrue, HoldsTrue, AllKnown, UseTrue, RawApart, MetadataTrue

\* An owner gives a cached cursor back.
LEMMA CoreReleases ==
    ASSUME NEW E, NEW T, NEW U, NEW C, NEW M, NEW B, NEW L, NEW s, NEW f, NEW lost,
           Core(E, T, U, C, M, B, L, s, f, lost), NEW h \in L, ~h.raw, h.cid \notin C
    PROVE  Core(E, T, U \ {h.cid}, C, M, B, L \ {h}, s, f, lost)
<1>1. U \ {h.cid} = Cids({g \in L \ {h} : g.sql \in Queries})
  BY
     DEF Core, EntriesTrue, HoldsTrue, AllKnown, UseTrue, RawApart, MetadataTrue, Cids
<1>2. h.cid \in Cids(E)
  BY
     DEF Core, EntriesTrue, HoldsTrue, AllKnown, UseTrue, RawApart, MetadataTrue
<1>3. Cids(E) \cup Cids(L \ {h}) = Cids(E) \cup Cids(L)
  BY <1>2 DEF Cids
<1>4. C \subseteq Cids(L \ {h})
  BY
     DEF Core, EntriesTrue, HoldsTrue, AllKnown, UseTrue, RawApart, MetadataTrue, Cids
<1> QED
  BY <1>1, <1>3, <1>4
     DEF Core, EntriesTrue, HoldsTrue, AllKnown, UseTrue, RawApart, MetadataTrue

\* A copy given back, or any cursor an owner does not trust, is queued.
LEMMA CoreDiscards ==
    ASSUME NEW E, NEW T, NEW U, NEW C, NEW M, NEW B, NEW L, NEW s, NEW f, NEW lost,
           Core(E, T, U, C, M, B, L, s, f, lost), NEW h \in L,
           NEW M2, Forgets(M2, M, {h.cid})
    PROVE  Core(NotCid(E, h.cid), T \cup {h.cid}, U \ {h.cid}, C \ {h.cid},
                M2, B \ {h.cid}, L \ {h}, s, f, lost)
<1> DEFINE N == NotCid(E, h.cid)
           L2 == L \ {h}
<1>1. UseTrue(U \ {h.cid}, L2)
  BY DEF Core, UseTrue, HoldsTrue, Cids
<1>2. Cids(N) = Cids(E) \ {h.cid} /\ N \subseteq E
  BY DEF Cids, NotCid
<1>3. Cids(L2) = Cids(L) \ {h.cid}
  BY DEF Core, HoldsTrue, Cids
<1>4. \A g \in L2 : g \in L /\ g.cid # h.cid
  BY DEF Core, HoldsTrue
<1>5. EntriesTrue(N, (T \cup {h.cid}), s, f \cup lost)
  BY DEF Core, EntriesTrue, NotCid
<1>6. h.cid \in DOMAIN s /\ h.cid \notin T \cup (f \cup lost)
  BY DEF Core, HoldsTrue
<1>7. HoldsTrue(L2, (T \cup {h.cid}), s, f \cup lost)
  BY <1>4 DEF Core, HoldsTrue
<1> HIDE DEF N, L2
<1>8. AllKnown(N, (T \cup {h.cid}), L2, s, f \cup lost)
  BY <1>2, <1>3, <1>6 DEF Core, AllKnown
<1>9. RawApart(N, C \ {h.cid}, L2)
  BY <1>2, <1>3, <1>4 DEF Core, RawApart
<1>10. MetadataTrue(N, M2, B \ {h.cid}, L2, s, lost)
  BY <1>2, <1>3 DEF Core, MetadataTrue, Forgets
<1> QED
  BY <1>1, <1>5, <1>7, <1>8, <1>9, <1>10 DEF Core, N, L2

\* An owner hands its cursor to the server.
LEMMA CoreHandsOver ==
    ASSUME NEW E, NEW T, NEW U, NEW C, NEW M, NEW B, NEW L, NEW s, NEW f, NEW lost,
           Core(E, T, U, C, M, B, L, s, f, lost), NEW h \in L, h.cid \notin C,
           NEW M2, Forgets(M2, M, {h.cid})
    PROVE  Core(NotCid(E, h.cid), T, U \ {h.cid}, C,
                M2, B \ {h.cid}, L \ {h}, s, f \cup {h.cid}, lost)
<1> DEFINE N == NotCid(E, h.cid)
           L2 == L \ {h}
<1>1. UseTrue(U \ {h.cid}, L2)
  BY DEF Core, UseTrue, HoldsTrue, Cids
<1>2. Cids(N) = Cids(E) \ {h.cid} /\ N \subseteq E
  BY DEF Cids, NotCid
<1>3. Cids(L2) = Cids(L) \ {h.cid}
  BY DEF Core, HoldsTrue, Cids
<1>4. \A g \in L2 : g \in L /\ g.cid # h.cid
  BY DEF Core, HoldsTrue
<1>5. EntriesTrue(N, T, s, (f \cup {h.cid}) \cup lost)
  BY DEF Core, EntriesTrue, NotCid
<1>6. h.cid \in DOMAIN s /\ h.cid \notin T \cup (f \cup lost)
  BY DEF Core, HoldsTrue
<1>7. HoldsTrue(L2, T, s, (f \cup {h.cid}) \cup lost)
  BY <1>4 DEF Core, HoldsTrue
<1> HIDE DEF N, L2
<1>8. AllKnown(N, T, L2, s, (f \cup {h.cid}) \cup lost)
  BY <1>2, <1>3, <1>6 DEF Core, AllKnown
<1>9. RawApart(N, C, L2)
  BY <1>2, <1>3, <1>4 DEF Core, RawApart
<1>10. MetadataTrue(N, M2, B \ {h.cid}, L2, s, lost)
  BY <1>2, <1>3 DEF Core, MetadataTrue, Forgets
<1>11. (f \cup {h.cid}) \cap lost = {}
  BY <1>6 DEF Core
<1> QED
  BY <1>1, <1>5, <1>7, <1>8, <1>9, <1>10, <1>11 DEF Core, N, L2

\* The server closes a cursor of its own.
LEMMA CoreLetsGo ==
    ASSUME NEW E, NEW T, NEW U, NEW C, NEW M, NEW B, NEW L, NEW s, NEW f, NEW lost,
           Core(E, T, U, C, M, B, L, s, f, lost), NEW c \in f, NEW s2, Forgets(s2, s, {c})
    PROVE  Core(E, T, U, C, M, B, L, s2, f \ {c}, lost)
BY
   DEF Core, EntriesTrue, HoldsTrue, AllKnown, UseTrue, RawApart, MetadataTrue, Cids, Forgets

-----------------------------------------------------------------------------
(* Sequences *)

\* A non-empty set of naturals has a least element.
LEMMA LeastNat ==
    ASSUME NEW S \in SUBSET Nat, S # {}
    PROVE  \E m \in S : \A k \in S : m <= k
<1> DEFINE R == OpToRel(<, Nat)
<1>1. IsWellFoundedOn(R, Nat)
  BY NatLessThanWellFounded
<1>2. \A k, m \in Nat : k < m => <<k, m>> \in R
  BY DEF OpToRel
<1> HIDE DEF R
<1>3. PICK m \in S : \A k \in S : ~(<<k, m>> \in R)
  BY <1>1, WFMin
<1>4. ASSUME NEW k \in S PROVE m <= k
  <2>1. ~(k < m) BY <1>2, <1>3
  <2> QED BY <2>1
<1> QED BY <1>4

\* the elements of r are those of q at the positions in keep, once each
Thinned(r, q, keep, n) ==
    /\ Len(r) <= n
    /\ \A i \in DOMAIN r : \E a \in (1..n) \cap keep : r[i] = q[a]
    /\ \A a \in (1..n) \cap keep : \E i \in DOMAIN r : r[i] = q[a]
    /\ \A i, j \in DOMAIN r : i # j =>
         \E a, b \in (1..n) \cap keep : a # b /\ r[i] = q[a] /\ r[j] = q[b]

\* The next position is not kept: the result so far stands.
LEMMA ThinnedSkips ==
    ASSUME NEW S, NEW q \in Seq(S), NEW keep, NEW n \in Nat,
           NEW r \in Seq(S), Thinned(r, q, keep, n), n + 1 \notin keep
    PROVE  Thinned(r, q, keep, n + 1)
<1> DEFINE A == (1..n) \cap keep
           A2 == (1..(n+1)) \cap keep
<1>1. A2 = A
  <2>1. \A a \in 1..(n+1) : a \in 1..n \/ a = n + 1
    OBVIOUS
  <2>2. \A a \in 1..n : a \in 1..(n+1)
    OBVIOUS
  <2> QED
    BY <2>1, <2>2
<1>2. /\ Len(r) <= n
      /\ \A i \in DOMAIN r : \E a \in A : r[i] = q[a]
      /\ \A a \in A : \E i \in DOMAIN r : r[i] = q[a]
      /\ \A i, j \in DOMAIN r : i # j => \E a, b \in A : a # b /\ r[i] = q[a] /\ r[j] = q[b]
  BY DEF Thinned
<1>3. Len(r) <= n + 1
  BY <1>2
<1> HIDE DEF A, A2
<1>4. /\ \A i \in DOMAIN r : \E a \in A2 : r[i] = q[a]
      /\ \A a \in A2 : \E i \in DOMAIN r : r[i] = q[a]
      /\ \A i, j \in DOMAIN r : i # j => \E a, b \in A2 : a # b /\ r[i] = q[a] /\ r[j] = q[b]
  BY <1>1, <1>2
<1> QED
  BY <1>3, <1>4, Zenon DEF Thinned, A2

\* The next position is kept: its element is appended.
LEMMA ThinnedKeeps ==
    ASSUME NEW S, NEW q \in Seq(S), NEW keep, NEW n \in Nat,
           NEW r \in Seq(S), Thinned(r, q, keep, n), n + 1 \in keep
    PROVE  Thinned(Append(r, q[n+1]), q, keep, n + 1)
<1> DEFINE A == (1..n) \cap keep
           A2 == (1..(n+1)) \cap keep
           z == Append(r, q[n+1])
<1>1. A2 = A \cup {n+1} /\ n + 1 \notin A
  <2>1. \A a \in 1..(n+1) : a \in 1..n \/ a = n + 1
    OBVIOUS
  <2>2. \A a \in 1..n : a \in 1..(n+1) /\ a # n + 1
    OBVIOUS
  <2>3. n + 1 \in 1..(n+1)
    OBVIOUS
  <2> QED
    BY <2>1, <2>2, <2>3
<1>2. Len(z) = Len(r) + 1 /\ DOMAIN z = DOMAIN r \cup {Len(r) + 1}
  OBVIOUS
<1>3. z[Len(r) + 1] = q[n+1] /\ \A i \in DOMAIN r : z[i] = r[i] /\ i # Len(r) + 1
  OBVIOUS
<1>4. Len(r) <= n
  BY DEF Thinned
<1>5. \A i \in DOMAIN r : \E a \in A : r[i] = q[a]
  BY DEF Thinned
<1>6. \A a \in A : \E i \in DOMAIN r : r[i] = q[a]
  BY DEF Thinned
<1>7. \A i, j \in DOMAIN r : i # j => \E a, b \in A : a # b /\ r[i] = q[a] /\ r[j] = q[b]
  BY Zenon DEF Thinned
<1> HIDE DEF A, A2, z
<1>8. Len(z) <= n + 1
  BY <1>2, <1>4
<1>9. \A i \in DOMAIN z : \E a \in A2 : z[i] = q[a]
  BY <1>1, <1>2, <1>3, <1>5
<1>10. ASSUME NEW a \in A2 PROVE \E i \in DOMAIN z : z[i] = q[a]
  <2>1. CASE a = n + 1
    BY <1>2, <1>3, <2>1
  <2>2. CASE a \in A
    <3>1. PICK i \in DOMAIN r : r[i] = q[a]
      BY <1>6, <2>2
    <3> QED
      BY <1>2, <1>3, <3>1
  <2> QED
    BY <1>1, <2>1, <2>2
<1>11. ASSUME NEW i \in DOMAIN z, NEW j \in DOMAIN z, i # j
       PROVE  \E a, b \in A2 : a # b /\ z[i] = q[a] /\ z[j] = q[b]
  <2>1. CASE i \in DOMAIN r /\ j \in DOMAIN r
    BY <2>1, <1>1, <1>3, <1>7, <1>11
  <2>2. CASE i = Len(r) + 1
    <3>1. j \in DOMAIN r
      BY <2>2, <1>2, <1>11
    <3>2. PICK b \in A : r[j] = q[b]
      BY <3>1, <1>5
    <3>3. n + 1 # b /\ z[i] = q[n+1] /\ z[j] = q[b]
      BY <3>1, <3>2, <2>2, <1>1, <1>3
    <3> QED
      BY <3>3, <1>1
  <2>3. CASE j = Len(r) + 1
    <3>1. i \in DOMAIN r
      BY <2>3, <1>2, <1>11
    <3>2. PICK b \in A : r[i] = q[b]
      BY <3>1, <1>5
    <3>3. n + 1 # b /\ z[j] = q[n+1] /\ z[i] = q[b]
      BY <3>1, <3>2, <2>3, <1>1, <1>3
    <3> QED
      BY <3>3, <1>1
  <2> QED
    BY <2>1, <2>2, <2>3, <1>2
<1>12. Thinned(z, q, keep, n + 1)
  BY <1>8, <1>9, <1>10, <1>11 DEF Thinned, A2
<1> QED
  BY <1>12 DEF z

\* What Retain computes.  The recursive function is shown to exist by looking at
\* the smallest prefix on which it would not.
LEMMA RetainThins ==
    ASSUME NEW S, NEW q \in Seq(S), NEW keep
    PROVE  Retain(q, keep) \in Seq(S) /\ Thinned(Retain(q, keep), q, keep, Len(q))
<1> DEFINE Step(f, i) == IF i = 0 THEN <<>>
                         ELSE IF i \in keep THEN Append(f[i-1], q[i]) ELSE f[i-1]
           Good(f, n) == f = [i \in 0..n |-> Step(f, i)]
           Bad == {n \in 0..Len(q) : ~\E f : Good(f, n)}
           F == CHOOSE f : Good(f, Len(q))
           Ill == {i \in 0..Len(q) : ~(F[i] \in Seq(S) /\ Thinned(F[i], q, keep, i))}
<1>0. Len(q) \in Nat OBVIOUS
<1>1. Bad = {}
  <2>1. SUFFICES ASSUME NEW m \in Bad, \A k \in Bad : m <= k PROVE FALSE
    <3>1. Bad \in SUBSET Nat BY <1>0
    <3> HIDE DEF Bad
    <3> QED BY <3>1, LeastNat
  <2>2. m \in Nat /\ m <= Len(q) BY <1>0
  <2>3. m # 0
    <3>1. Good([i \in 0..0 |-> <<>>], 0) OBVIOUS
    <3> QED BY <3>1
  <2>4. \E f : Good(f, m-1)
    <3>1. m-1 \in 0..Len(q) BY <2>2, <2>3, <1>0
    <3>2. m-1 \notin Bad
      <4> HIDE DEF Bad
      <4>1. ~(m <= m-1) BY <2>2
      <4> QED BY <2>1, <4>1
    <3> QED BY <3>1, <3>2
  <2>5. PICK f : Good(f, m-1) BY <2>4
  <2> DEFINE g == [i \in 0..m |-> IF i = m THEN Step(f, m) ELSE f[i]]
  <2>6. ASSUME NEW i \in 0..m PROVE g[i] = Step(g, i)
    <3>1. CASE i = m
      <4>1. m-1 \in 0..m /\ m - 1 # m BY <2>2, <2>3
      <4>2. g[m-1] = f[m-1] BY <4>1
      <4>3. g[m] = Step(f, m) BY <2>2
      <4> HIDE DEF g
      <4> QED BY <3>1, <4>2, <4>3, <2>3
    <3>2. CASE i # m
      <4>1. i \in 0..m-1 BY <3>2, <2>2
      <4>2. f[i] = Step(f, i) BY <4>1, <2>5
      <4>3. i # 0 => i-1 \in 0..m /\ i - 1 # m BY <4>1, <2>2
      <4>4. i # 0 => g[i-1] = f[i-1] BY <4>3
      <4>5. g[i] = f[i] BY <3>2
      <4> HIDE DEF g
      <4> QED BY <4>2, <4>4, <4>5
    <3> QED BY <3>1, <3>2
  <2>7. Good(g, m)
    <3>1. g = [i \in 0..m |-> g[i]] OBVIOUS
    <3> HIDE DEF g
    <3> QED BY <3>1, <2>6
  <2> QED BY <2>7
<1>2. Good(F, Len(q))
  <2>1. Len(q) \in 0..Len(q) BY <1>0
  <2>2. \E f : Good(f, Len(q)) BY <1>1, <2>1
  <2> HIDE DEF Good
  <2> QED BY <2>2
<1>3. Retain(q, keep) = F[Len(q)]
  BY DEF Retain
<1> HIDE DEF F
<1>4. Ill = {}
  <2>1. SUFFICES ASSUME NEW m \in Ill, \A k \in Ill : m <= k PROVE FALSE
    <3>1. Ill \in SUBSET Nat BY <1>0
    <3> HIDE DEF Ill
    <3> QED BY <3>1, LeastNat
  <2>2. F[m] = Step(F, m) BY <1>2, <1>0
  <2>3. m # 0
    <3>1. SUFFICES ASSUME m = 0 PROVE FALSE OBVIOUS
    <3>2. F[m] = <<>> BY <2>2, <3>1
    <3>3. <<>> \in Seq(S) /\ Len(<<>>) = 0 /\ DOMAIN <<>> = {} OBVIOUS
    <3>4. (1..0) \cap keep = {} OBVIOUS
    <3>5. Thinned(<<>>, q, keep, 0) BY <3>3, <3>4 DEF Thinned
    <3> QED BY <3>1, <3>2, <3>3, <3>5
  <2>4. m-1 \in Nat /\ m - 1 + 1 = m /\ m \in DOMAIN q BY <2>3, <1>0
  <2>5. F[m-1] \in Seq(S) /\ Thinned(F[m-1], q, keep, m-1)
    <3>1. m-1 \in 0..Len(q) BY <2>3, <1>0
    <3>2. m-1 \notin Ill BY <2>1, <2>3, <1>0
    <3> QED BY <3>1, <3>2
  <2>6. CASE m \in keep
    <3>1. F[m] = Append(F[m-1], q[m]) BY <2>2, <2>3, <2>6
    <3>2. Thinned(Append(F[m-1], q[m-1+1]), q, keep, m-1+1)
      BY <2>4, <2>5, <2>6, ThinnedKeeps
    <3>3. F[m] \in Seq(S) BY <3>1, <2>4, <2>5
    <3> QED BY <3>1, <3>2, <3>3, <2>4
  <2>7. CASE m \notin keep
    <3>1. F[m] = F[m-1] BY <2>2, <2>3, <2>7
    <3>2. Thinned(F[m-1], q, keep, m-1+1)
      BY <2>4, <2>5, <2>7, ThinnedSkips
    <3> QED BY <3>1, <3>2, <2>4, <2>5
  <2> QED BY <2>6, <2>7
<1> QED BY <1>0, <1>3, <1>4

\* The members of a sequence.
LEMMA Members ==
    ASSUME NEW S, NEW q \in Seq(S)
    PROVE  /\ ToSet(q) = {q[i] : i \in DOMAIN q} /\ ToSet(q) \subseteq S
           /\ DOMAIN q = 1..Len(q) /\ Len(q) \in Nat
           /\ \A i \in DOMAIN q : q[i] \in S /\ q[i] \in ToSet(q)
           /\ \A x \in ToSet(q) : \E i \in DOMAIN q : q[i] = x
BY DEF ToSet

\* Appending adds one member at the end.
LEMMA AppendMembers ==
    ASSUME NEW S, NEW q \in Seq(S), NEW x \in S
    PROVE  /\ Append(q, x) \in Seq(S) /\ Len(Append(q, x)) = Len(q) + 1
           /\ ToSet(Append(q, x)) = ToSet(q) \cup {x}
           /\ DOMAIN Append(q, x) = DOMAIN q \cup {Len(q) + 1}
           /\ Append(q, x)[Len(q) + 1] = x
           /\ \A i \in DOMAIN q : Append(q, x)[i] = q[i] /\ i # Len(q) + 1
<1> DEFINE z == Append(q, x)
<1>1. z \in Seq(S) /\ Len(z) = Len(q) + 1 /\ DOMAIN z = DOMAIN q \cup {Len(q) + 1}
  OBVIOUS
<1>2. z[Len(q) + 1] = x /\ \A i \in DOMAIN q : z[i] = q[i] /\ i # Len(q) + 1
  OBVIOUS
<1> HIDE DEF z
<1>3. ToSet(z) = ToSet(q) \cup {x}
  BY <1>1, <1>2 DEF ToSet
<1> QED
  BY <1>1, <1>2, <1>3 DEF z

\* Retain keeps the elements at the given positions, each once.
LEMMA RetainMembers ==
    ASSUME NEW S, NEW q \in Seq(S), NEW keep, NEW r, r = Retain(q, keep)
    PROVE  /\ r \in Seq(S) /\ Len(r) <= Len(q)
           /\ ToSet(r) = {q[i] : i \in DOMAIN q \cap keep}
           /\ \A i, j \in DOMAIN r : i # j =>
                \E a, b \in DOMAIN q : a # b /\ r[i] = q[a] /\ r[j] = q[b]
<1> DEFINE K == (1..Len(q)) \cap keep
<1>1. r \in Seq(S) /\ Thinned(r, q, keep, Len(q))
  BY RetainThins
<1>2. K = DOMAIN q \cap keep
  OBVIOUS
<1>3. \A i \in DOMAIN r : \E a \in K : r[i] = q[a]
  BY <1>1 DEF Thinned
<1>4. \A a \in K : \E i \in DOMAIN r : r[i] = q[a]
  BY <1>1 DEF Thinned
<1>5. Len(r) <= Len(q)
  BY <1>1 DEF Thinned
<1>6. \A i, j \in DOMAIN r : i # j => \E a, b \in K : a # b /\ r[i] = q[a] /\ r[j] = q[b]
  BY <1>1 DEF Thinned
<1> HIDE DEF K
<1>7. ToSet(r) = {q[i] : i \in K}
  BY <1>3, <1>4 DEF ToSet
<1>8. K \subseteq DOMAIN q
  BY <1>2
<1>9. \A i, j \in DOMAIN r : i # j =>
         \E a, b \in DOMAIN q : a # b /\ r[i] = q[a] /\ r[j] = q[b]
  BY <1>6, <1>8
<1>10. {q[i] : i \in K} = {q[i] : i \in DOMAIN q \cap keep}
  BY <1>2
<1> QED
  BY <1>1, <1>5, <1>7, <1>9, <1>10

\* Retain creates no duplicate entries.
LEMMA RetainDistinct ==
    ASSUME NEW q \in Seq(Entries), Distinct(q), NEW keep, NEW r, r = Retain(q, keep)
    PROVE  Distinct(r)
<1>1. \A i, j \in DOMAIN r : i # j =>
         \E a, b \in DOMAIN q : a # b /\ r[i] = q[a] /\ r[j] = q[b]
  BY RetainMembers
<1> QED
  BY <1>1 DEF Distinct

\* The entries for other cursors stay, and only they.
LEMMA WithoutCidFacts ==
    ASSUME NEW q \in Seq(Entries), Distinct(q), NEW c, NEW r, r = WithoutCid(q, c)
    PROVE  /\ r \in Seq(Entries) /\ Distinct(r) /\ Len(r) <= Len(q)
           /\ ToSet(r) = NotCid(ToSet(q), c)
<1> DEFINE keep == {i \in DOMAIN q : q[i].cid # c}
<1>1. r = Retain(q, keep)
  BY DEF WithoutCid
<1>2. {q[i] : i \in DOMAIN q \cap keep} = NotCid(ToSet(q), c)
  BY DEF ToSet, NotCid
<1> HIDE DEF keep
<1>3. /\ r \in Seq(Entries) /\ Len(r) <= Len(q)
      /\ ToSet(r) = {q[i] : i \in DOMAIN q \cap keep}
  BY <1>1, RetainMembers
<1> QED
  BY <1>1, <1>2, <1>3, RetainDistinct

\* The entries for other statements stay, and only they.
LEMMA WithoutSqlFacts ==
    ASSUME NEW q \in Seq(Entries), Distinct(q), NEW c, NEW r, r = WithoutSql(q, c)
    PROVE  /\ r \in Seq(Entries) /\ Distinct(r) /\ Len(r) <= Len(q)
           /\ ToSet(r) = NotSql(ToSet(q), c)
<1> DEFINE keep == {i \in DOMAIN q : q[i].sql # c}
<1>1. r = Retain(q, keep)
  BY DEF WithoutSql
<1>2. {q[i] : i \in DOMAIN q \cap keep} = NotSql(ToSet(q), c)
  BY DEF ToSet, NotSql
<1> HIDE DEF keep
<1>3. /\ r \in Seq(Entries) /\ Len(r) <= Len(q)
      /\ ToSet(r) = {q[i] : i \in DOMAIN q \cap keep}
  BY <1>1, RetainMembers
<1> QED
  BY <1>1, <1>2, <1>3, RetainDistinct

\* A new entry for a new statement and cursor creates no duplicate.
LEMMA AppendDistinct ==
    ASSUME NEW q \in Seq(Entries), Distinct(q), NEW e \in Entries,
           \A g \in ToSet(q) : g.sql # e.sql /\ g.cid # e.cid
    PROVE  Distinct(Append(q, e))
<1> DEFINE z == Append(q, e)
<1>1. /\ DOMAIN z = DOMAIN q \cup {Len(q) + 1} /\ z[Len(q) + 1] = e
      /\ \A i \in DOMAIN q : z[i] = q[i] /\ i # Len(q) + 1
  BY AppendMembers
<1>2. \A i \in DOMAIN q : q[i].sql # e.sql /\ q[i].cid # e.cid
  BY Members
<1> HIDE DEF z
<1>3. Distinct(z)
  BY <1>1, <1>2 DEF Distinct
<1> QED
  BY <1>3 DEF z

\* A cursor that is not queued can be queued once more.
LEMMA AppendOneToOne ==
    ASSUME NEW q \in Seq(Ids), OneToOne(q), NEW c \in Ids, c \notin ToSet(q)
    PROVE  OneToOne(Append(q, c))
<1> DEFINE z == Append(q, c)
<1>1. /\ DOMAIN z = DOMAIN q \cup {Len(q) + 1} /\ z[Len(q) + 1] = c
      /\ \A i \in DOMAIN q : z[i] = q[i] /\ i # Len(q) + 1
  BY AppendMembers
<1>2. \A i \in DOMAIN q : q[i] # c
  BY Members
<1> HIDE DEF z
<1>3. OneToOne(z)
  BY <1>1, <1>2 DEF OneToOne
<1> QED
  BY <1>3 DEF z

-----------------------------------------------------------------------------
(* The bookkeeping *)

\* r is k without the metadata of the cursors in X
Forgot(r, k, X) ==
    /\ Books(r) /\ r.cache = k.cache /\ r.inUse = k.inUse
    /\ r.copied = k.copied /\ r.toClose = k.toClose
    /\ Forgets(r.columns, k.columns, X) /\ r.lob = k.lob \ X

\* Forgetting metadata touches nothing else.
LEMMA ForgetFacts ==
    ASSUME NEW k, Books(k), NEW X
    PROVE  Forgot(ForgetMetadata(k, X), k, X)
<1> DEFINE r == ForgetMetadata(k, X)
           M == Restrict(k.columns, DOMAIN k.columns \ X)
<1>1. r = [cache |-> k.cache, inUse |-> k.inUse, copied |-> k.copied,
           toClose |-> k.toClose, columns |-> M, lob |-> k.lob \ X]
  <2>1. k = [cache |-> k.cache, inUse |-> k.inUse, copied |-> k.copied,
             toClose |-> k.toClose, columns |-> k.columns, lob |-> k.lob]
    BY DEF Books
  <2>2. r = [k EXCEPT !.columns = M, !.lob = k.lob \ X]
    BY DEF ForgetMetadata
  <2> HIDE DEF M, r
  <2> QED
    BY <2>1, <2>2
<1>2. Forgets(M, k.columns, X)
  BY DEF Forgets, Restrict
<1>3. Table(M, Sqls)
  BY DEF Books, Table, Restrict
<1> HIDE DEF M, r
<1>4. Forgot(r, k, X)
  BY <1>1, <1>2, <1>3 DEF Books, Forgot
<1> QED
  BY <1>4 DEF r

\* r is k with the cursor c queued for close
Closed(r, k, c) ==
    /\ Books(r) /\ Len(r.cache) <= Len(k.cache)
    /\ ToSet(r.cache) = NotCid(ToSet(k.cache), c)
    /\ r.inUse = k.inUse \ {c} /\ r.copied = k.copied \ {c}
    /\ ToSet(r.toClose) = ToSet(k.toClose) \cup {c}
    /\ Forgets(r.columns, k.columns, {c}) /\ r.lob = k.lob \ {c}

\* close_cursor.
LEMMA CloseFacts ==
    ASSUME NEW k, Books(k), NEW c \in Ids
    PROVE  Closed(CloseCursor(k, c), k, c)
<1> DEFINE r == CloseCursor(k, c)
           m == ForgetMetadata(k, {c})
           q == WithoutCid(k.cache, c)
           t == IF c \in ToSet(k.toClose) THEN k.toClose ELSE Append(k.toClose, c)
<1>1. Forgot(m, k, {c})
  BY ForgetFacts
<1>2. /\ q \in Seq(Entries) /\ Distinct(q) /\ Len(q) <= Len(k.cache)
      /\ ToSet(q) = NotCid(ToSet(k.cache), c)
  BY WithoutCidFacts DEF Books
<1>3. t \in Seq(Ids) /\ OneToOne(t) /\ ToSet(t) = ToSet(k.toClose) \cup {c}
  <2>1. k.toClose \in Seq(Ids) /\ OneToOne(k.toClose)
    BY DEF Books
  <2>2. CASE c \in ToSet(k.toClose)
    BY <2>1, <2>2
  <2>3. CASE c \notin ToSet(k.toClose)
    BY <2>1, <2>3, AppendMembers, AppendOneToOne
  <2> QED
    BY <2>2, <2>3
<1>4. r = [cache |-> q, inUse |-> k.inUse \ {c}, copied |-> k.copied \ {c},
           toClose |-> t, columns |-> m.columns, lob |-> m.lob]
  <2>1. r = [m EXCEPT !.cache = WithoutCid(m.cache, c), !.inUse = m.inUse \ {c},
                      !.copied = m.copied \ {c},
                      !.toClose = IF c \in ToSet(m.toClose) THEN m.toClose
                                  ELSE Append(m.toClose, c)]
    BY DEF CloseCursor
  <2> HIDE DEF m
  <2> QED
    BY <2>1, <1>1 DEF Books, Forgot
<1> HIDE DEF m, q, t, r
<1>5. Closed(r, k, c)
  BY <1>1, <1>2, <1>3, <1>4 DEF Books, Forgot, Closed
<1> QED
  BY <1>5 DEF r

\* r is k with the cursor c not in use any more
Released(r, k, c) ==
    /\ Books(r) /\ r.cache = k.cache /\ r.inUse = k.inUse \ {c}
    /\ r.copied = k.copied \ {c}
    /\ c \notin k.copied => /\ r.toClose = k.toClose
                            /\ r.columns = k.columns /\ r.lob = k.lob
    /\ c \in k.copied => /\ ToSet(r.toClose) = ToSet(k.toClose) \cup {c}
                         /\ Forgets(r.columns, k.columns, {c}) /\ r.lob = k.lob \ {c}

\* release_cursor of a cursor that is not queued for close.
LEMMA ReleaseFacts ==
    ASSUME NEW k, Books(k), NEW c \in Ids, c \notin ToSet(k.toClose)
    PROVE  Released(ReleaseCursor(k, c), k, c)
<1> DEFINE r == ReleaseCursor(k, c)
           free == [k EXCEPT !.inUse = k.inUse \ {c}]
           m == ForgetMetadata(free, {c})
           t == Append(k.toClose, c)
<1>1. free = [cache |-> k.cache, inUse |-> k.inUse \ {c}, copied |-> k.copied,
              toClose |-> k.toClose, columns |-> k.columns, lob |-> k.lob]
  <2>1. k = [cache |-> k.cache, inUse |-> k.inUse, copied |-> k.copied,
             toClose |-> k.toClose, columns |-> k.columns, lob |-> k.lob]
    BY DEF Books
  <2> QED BY <2>1
<1>2. Books(free)
  <2> HIDE DEF free
  <2> QED BY <1>1 DEF Books
<1>3. CASE c \notin k.copied
  <2>1. r = free
    BY <1>3 DEF ReleaseCursor
  <2> HIDE DEF free, r
  <2>2. Released(r, k, c)
    BY <1>1, <1>2, <1>3, <2>1 DEF Released
  <2> QED
    BY <2>2 DEF r
<1>4. CASE c \in k.copied
  <2>1. r = [m EXCEPT !.copied = m.copied \ {c}, !.toClose = Append(m.toClose, c)]
    BY <1>4 DEF ReleaseCursor
  <2> HIDE DEF free, r
  <2>2. Forgot(m, free, {c})
    BY <1>2, ForgetFacts
  <2> HIDE DEF m
  <2>3. t \in Seq(Ids) /\ OneToOne(t) /\ ToSet(t) = ToSet(k.toClose) \cup {c}
    BY AppendMembers, AppendOneToOne DEF Books
  <2>4. r = [cache |-> k.cache, inUse |-> k.inUse \ {c}, copied |-> k.copied \ {c},
             toClose |-> t, columns |-> m.columns, lob |-> k.lob \ {c}]
    BY <1>1, <2>1, <2>2 DEF Books, Forgot
  <2> HIDE DEF t
  <2>5. Forgets(m.columns, k.columns, {c}) /\ Table(m.columns, Sqls)
    BY <1>1, <2>2 DEF Books, Forgot
  <2>6. Released(r, k, c)
    BY <1>4, <2>3, <2>4, <2>5 DEF Books, Released
  <2> QED
    BY <2>6 DEF r
<1> QED
  BY <1>3, <1>4

\* The entry found for a statement is the only one it has.
LEMMA EntryFacts ==
    ASSUME NEW k, Books(k), NEW sql
    PROVE  /\ Cached(k, sql) = {} => \A g \in ToSet(k.cache) : g.sql # sql
           /\ Cached(k, sql) # {} =>
                /\ Entry(k, sql) \in ToSet(k.cache) /\ Entry(k, sql) \in Entries
                /\ Entry(k, sql).sql = sql
                /\ \A g \in ToSet(k.cache) : g.sql = sql => g = Entry(k, sql)
<1>1. k.cache \in Seq(Entries) /\ Distinct(k.cache)
  BY DEF Books
<1>2. CASE Cached(k, sql) = {}
  BY <1>1, <1>2, Members DEF Cached
<1>3. CASE Cached(k, sql) # {}
  <2> DEFINE i == CHOOSE n \in Cached(k, sql) : TRUE
  <2>1. i \in Cached(k, sql)
    BY <1>3
  <2>2. Entry(k, sql) = k.cache[i]
    BY DEF Entry
  <2> HIDE DEF i
  <2>3. i \in DOMAIN k.cache /\ k.cache[i].sql = sql
    BY <2>1 DEF Cached
  <2>4. \A g \in ToSet(k.cache) : g.sql = sql => g = k.cache[i]
    BY <1>1, <2>3 DEF Distinct, ToSet
  <2> QED
    BY <1>1, <1>3, <2>2, <2>3, <2>4, Members
<1> QED
  BY <1>2, <1>3

\* r is k without the entry for sql
Dropped(r, k, sql) ==
    /\ Books(r) /\ Len(r.cache) <= Len(k.cache)
    /\ ToSet(r.cache) = NotSql(ToSet(k.cache), sql)
    /\ r.inUse = k.inUse /\ r.copied = k.copied /\ r.toClose = k.toClose
    /\ r.columns = k.columns /\ r.lob = k.lob

\* Removing a statement's entry touches nothing else.
LEMMA DropSqlFacts ==
    ASSUME NEW k, Books(k), NEW sql
    PROVE  Dropped([k EXCEPT !.cache = WithoutSql(k.cache, sql)], k, sql)
<1> DEFINE q == WithoutSql(k.cache, sql)
           r == [k EXCEPT !.cache = q]
<1>1. /\ q \in Seq(Entries) /\ Distinct(q) /\ Len(q) <= Len(k.cache)
      /\ ToSet(q) = NotSql(ToSet(k.cache), sql)
  BY WithoutSqlFacts DEF Books
<1> HIDE DEF q
<1>2. r = [cache |-> q, inUse |-> k.inUse, copied |-> k.copied,
           toClose |-> k.toClose, columns |-> k.columns, lob |-> k.lob]
  <2>1. k = [cache |-> k.cache, inUse |-> k.inUse, copied |-> k.copied,
             toClose |-> k.toClose, columns |-> k.columns, lob |-> k.lob]
    BY DEF Books
  <2> QED
    BY <2>1
<1> HIDE DEF r
<1>3. Dropped(r, k, sql)
  BY <1>1, <1>2 DEF Books, Dropped
<1> QED
  BY <1>3 DEF r, q

\* r is k without the entry for sql, and the cursor c queued for close
Invalidated(r, k, sql, c) ==
    /\ Books(r) /\ Len(r.cache) <= Len(k.cache)
    /\ ToSet(r.cache) = NotCid(NotSql(ToSet(k.cache), sql), c)
    /\ r.inUse = k.inUse \ {c} /\ r.copied = k.copied \ {c}
    /\ ToSet(r.toClose) = ToSet(k.toClose) \cup {c}
    /\ Forgets(r.columns, k.columns, {c}) /\ r.lob = k.lob \ {c}

\* statement_cache_invalidate.
LEMMA InvalidateFacts ==
    ASSUME NEW k, Books(k), NEW sql, NEW c \in Ids
    PROVE  Invalidated(CacheInvalidate(k, sql, {c}), k, sql, c)
<1> DEFINE left == [k EXCEPT !.cache = WithoutSql(k.cache, sql)]
           r == CacheInvalidate(k, sql, {c})
<1>1. r = CloseCursor(left, c)
  <2>1. (CHOOSE d \in {c} : TRUE) = c
    OBVIOUS
  <2> QED
    BY <2>1 DEF CacheInvalidate
<1>2. Dropped(left, k, sql)
  BY DropSqlFacts
<1> HIDE DEF left, r
<1>3. Closed(r, left, c)
  BY <1>1, <1>2, CloseFacts DEF Dropped
<1>4. ToSet(r.cache) = NotCid(NotSql(ToSet(k.cache), sql), c)
  BY <1>2, <1>3 DEF Dropped, Closed
<1>5. Len(r.cache) <= Len(k.cache)
  <2>1. Len(r.cache) \in Nat /\ Len(left.cache) \in Nat /\ Len(k.cache) \in Nat
    BY <1>2, <1>3 DEF Dropped, Closed, Books
  <2> QED
    BY <2>1, <1>2, <1>3 DEF Dropped, Closed
<1>6. Invalidated(r, k, sql, c)
  BY <1>2, <1>3, <1>4, <1>5 DEF Dropped, Closed, Invalidated
<1> QED
  BY <1>6 DEF r

\* r is k in another order
Reordered(r, k) ==
    /\ Books(r) /\ ToSet(r.cache) = ToSet(k.cache)
    /\ r.inUse = k.inUse /\ r.copied = k.copied /\ r.toClose = k.toClose
    /\ r.columns = k.columns /\ r.lob = k.lob

\* the lookup moves the entry it finds to the end
LEMMA TouchFacts ==
    ASSUME NEW k, Books(k), NEW sql, Cached(k, sql) # {}
    PROVE  Reordered([k EXCEPT !.cache = Append(WithoutSql(k.cache, sql), Entry(k, sql))], k)
<1> DEFINE q == WithoutSql(k.cache, sql)
           e == Entry(k, sql)
           z == Append(q, e)
           r == [k EXCEPT !.cache = z]
<1>1. /\ q \in Seq(Entries) /\ Distinct(q)
      /\ ToSet(q) = NotSql(ToSet(k.cache), sql)
  BY WithoutSqlFacts DEF Books
<1>2. /\ e \in ToSet(k.cache) /\ e \in Entries /\ e.sql = sql
      /\ \A g \in ToSet(k.cache) : g.sql = sql => g = e
  BY EntryFacts
<1>3. r = [cache |-> z, inUse |-> k.inUse, copied |-> k.copied,
           toClose |-> k.toClose, columns |-> k.columns, lob |-> k.lob]
  <2>1. k = [cache |-> k.cache, inUse |-> k.inUse, copied |-> k.copied,
             toClose |-> k.toClose, columns |-> k.columns, lob |-> k.lob]
    BY DEF Books
  <2> QED
    BY <2>1
<1> HIDE DEF q, e
<1>4. \A g \in ToSet(q) : g.sql # e.sql /\ g.cid # e.cid
  <2>1. k.cache \in Seq(Entries) /\ Distinct(k.cache)
    BY DEF Books
  <2>2. \A g, d \in ToSet(k.cache) : g.cid = d.cid => g = d
    BY <2>1, Members DEF Distinct
  <2> QED
    BY <1>1, <1>2, <2>2 DEF NotSql
<1>5. z \in Seq(Entries) /\ ToSet(z) = ToSet(q) \cup {e} /\ Distinct(z)
  BY <1>1, <1>2, <1>4, AppendMembers, AppendDistinct
<1>6. ToSet(q) \cup {e} = ToSet(k.cache)
  BY <1>1, <1>2 DEF NotSql
<1> HIDE DEF z, r
<1>7. /\ r.cache = z /\ r.inUse = k.inUse /\ r.copied = k.copied /\ r.toClose = k.toClose
      /\ r.columns = k.columns /\ r.lob = k.lob
  BY <1>3
<1>8. Books(r)
  BY <1>3, <1>5, <1>7 DEF Books
<1>9. Reordered(r, k)
  BY <1>5, <1>6, <1>7, <1>8 DEF Reordered
<1> QED
  BY <1>9 DEF r, z, q, e

\* A sequence without repetitions has as many members as positions.
LEMMA OneToOneLen ==
    ASSUME NEW S, NEW q \in Seq(S), OneToOne(q)
    PROVE  IsFiniteSet(ToSet(q)) /\ Cardinality(ToSet(q)) = Len(q)
<1>1. Len(q) \in Nat /\ DOMAIN q = 1..Len(q)
  OBVIOUS
<1>2. q \in Bijection(1..Len(q), ToSet(q))
  BY <1>1 DEF Bijection, Injection, Surjection, IsInjective, ToSet, OneToOne
<1>3. ExistsBijection(1..Len(q), ToSet(q))
  BY <1>2 DEF ExistsBijection
<1>4. IsFiniteSet(1..Len(q))
  BY <1>1, FS_Interval
<1> QED
  BY <1>1, <1>3, <1>4, FS_CountingElements, FS_Bijection

\* The cache has as many entries as positions.
LEMMA DistinctLen ==
    ASSUME NEW q \in Seq(Entries), Distinct(q)
    PROVE  IsFiniteSet(ToSet(q)) /\ Cardinality(ToSet(q)) = Len(q)
<1>1. OneToOne(q)
  BY DEF OneToOne, Distinct
<1> QED
  BY <1>1, OneToOneLen

\* a cache with fewer entries is not longer
LEMMA SubsetLen ==
    ASSUME NEW q \in Seq(Entries), Distinct(q), NEW r \in Seq(Entries), Distinct(r),
           ToSet(r) \subseteq ToSet(q)
    PROVE  Len(r) <= Len(q)
<1>1. /\ IsFiniteSet(ToSet(q)) /\ Cardinality(ToSet(q)) = Len(q)
      /\ IsFiniteSet(ToSet(r)) /\ Cardinality(ToSet(r)) = Len(r)
  BY DistinctLen
<1>2. Cardinality(ToSet(r)) <= Cardinality(ToSet(q))
  BY <1>1, FS_Subset
<1> QED
  BY <1>1, <1>2

\* nor is one for fewer statements
LEMMA StatementLen ==
    ASSUME NEW q \in Seq(Entries), Distinct(q), NEW X, IsFiniteSet(X),
           \A e \in ToSet(q) : e.sql \in X
    PROVE  Len(q) <= Cardinality(X)
<1> DEFINE f == [i \in 1..Len(q) |-> q[i].sql]
<1>1. Len(q) \in Nat /\ DOMAIN q = 1..Len(q) /\ \A i \in DOMAIN q : q[i] \in ToSet(q)
  BY Members
<1>2. f \in Injection(1..Len(q), X)
  BY <1>1 DEF Injection, IsInjective, Distinct
<1> HIDE DEF f
<1>3. Cardinality(1..Len(q)) <= Cardinality(X)
  BY <1>2, FS_Injection
<1>4. Cardinality(1..Len(q)) = Len(q)
  BY <1>1, FS_Interval
<1> QED
  BY <1>3, <1>4

-----------------------------------------------------------------------------
(* The lookup *)

CoreOf(k, L, s, f, lost) ==
    Core(ToSet(k.cache), ToSet(k.toClose), k.inUse, k.copied, k.columns, k.lob, L, s, f, lost)

\* a cached cursor is held only if it is in use
LEMMA IdleIsFree ==
    ASSUME NEW E, NEW T, NEW U, NEW C, NEW M, NEW B, NEW L, NEW s, NEW f, NEW lost,
           Core(E, T, U, C, M, B, L, s, f, lost), NEW e \in E, e.cid \notin U
    PROVE  e.cid \notin Cids(L) /\ e.cid \notin C
<1>1. e.cid \in Cids(E)
  BY DEF Cids
<1>2. ASSUME NEW h \in L, h.cid = e.cid PROVE FALSE
  <2>1. h.sql \in Queries
    BY <1>1, <1>2 DEF Core, RawApart
  <2>2. h.cid \in U
    BY <2>1 DEF Core, UseTrue, Cids
  <2> QED
    BY <1>2, <2>2
<1>3. e.cid \notin C
  BY <1>1 DEF Core, RawApart
<1> QED
  BY <1>2, <1>3 DEF Cids

\* the statement of a cursor in use is a query
LEMMA BusyIsQuery ==
    ASSUME NEW E, NEW T, NEW U, NEW C, NEW M, NEW B, NEW L, NEW s, NEW f, NEW lost,
           Core(E, T, U, C, M, B, L, s, f, lost), NEW e \in E, e.cid \in U
    PROVE  e.sql \in Queries
<1>1. PICK h \in L : h.sql \in Queries /\ h.cid = e.cid
  BY DEF Core, UseTrue, Cids
<1>2. s[h.cid].sql = h.sql
  BY DEF Core, HoldsTrue
<1>3. s[e.cid] = Parse(e)
  BY DEF Core, EntriesTrue
<1> QED
  BY <1>1, <1>2, <1>3 DEF Parse

\* the lookup found the entry e
Hit(look, e, sql, shape, caching) ==
    /\ look.copy = FALSE /\ look.cid = {e.cid}
    /\ e \in ToSet(conn.cache) /\ e \in Entries /\ e.sql = sql
    /\ Compatible(e.shape, shape) /\ e.cid \notin Cids(Live)
    /\ Books(look.k)
    /\ ToSet(look.k.cache) = IF caching THEN ToSet(conn.cache) ELSE ToSet(conn.cache) \ {e}
    /\ look.k.inUse = conn.inUse /\ look.k.copied = conn.copied
    /\ look.k.toClose = conn.toClose
    /\ look.k.columns = conn.columns /\ look.k.lob = conn.lob

\* nothing to use was found, and the entry with other binds is gone
Miss(look, sql) ==
    /\ look.copy = FALSE /\ look.cid = {}
    /\ Books(look.k) /\ CoreOf(look.k, Live, srv, foreign, orphans)
    /\ ToSet(look.k.cache) = NotSql(ToSet(conn.cache), sql)

\* the cursor of the statement is in use
Busy(look, sql) ==
    /\ look.copy = TRUE /\ look.cid = {} /\ look.k = conn /\ sql \in Queries

\* the entry found has binds of another type and is invalidated
LEMMA RebindMisses ==
    ASSUME CursorInv, NEW sql \in Sqls, Cached(conn, sql) # {}, ~InUse(conn, sql),
           NEW r, r = CacheInvalidate(conn, sql, {Entry(conn, sql).cid})
    PROVE  /\ Books(r) /\ CoreOf(r, Live, srv, foreign, orphans)
           /\ ToSet(r.cache) = NotSql(ToSet(conn.cache), sql)
<1> DEFINE e == Entry(conn, sql)
           E == ToSet(conn.cache)
<1>1. Books(conn) /\ CoreOf(conn, Live, srv, foreign, orphans)
  BY DEF CursorInv, Types, CoreOf
<1>2. /\ e \in E /\ e \in Entries /\ e.sql = sql
      /\ \A g \in E : g.sql = sql => g = e
  BY <1>1, EntryFacts
<1>3. e.cid \notin conn.inUse
  BY DEF InUse
<1> HIDE DEF e, E
<1>4. e.cid \notin Cids(Live) /\ e.cid \notin conn.copied
  BY <1>1, <1>2, <1>3, IdleIsFree DEF CoreOf, E
<1>5. e.cid \in Ids
  BY <1>2 DEF Entries
<1>6. Invalidated(r, conn, sql, e.cid)
  BY <1>1, <1>5, InvalidateFacts DEF e
<1>7. \A g \in E : g.cid = e.cid => g = e
  BY <1>1, <1>2 DEF CoreOf, Core, EntriesTrue, E
<1>8. NotCid(NotSql(E, sql), e.cid) = E \ {e} /\ NotSql(E, sql) = E \ {e}
  BY <1>2, <1>7 DEF NotCid, NotSql
<1>9. Core(E \ {e}, ToSet(conn.toClose) \cup {e.cid}, conn.inUse, conn.copied,
           r.columns, conn.lob \ {e.cid}, Live, srv, foreign, orphans)
  <2>1. Core(E, ToSet(conn.toClose), conn.inUse, conn.copied, conn.columns, conn.lob,
             Live, srv, foreign, orphans)
    BY <1>1 DEF CoreOf, E
  <2>2. Forgets(r.columns, conn.columns, {e.cid})
    BY <1>6 DEF Invalidated
  <2> QED
    BY <1>2, <1>4, <2>1, <2>2, CoreInvalidates, Zenon
<1>10. /\ ToSet(r.cache) = E \ {e} /\ ToSet(r.toClose) = ToSet(conn.toClose) \cup {e.cid}
       /\ r.inUse = conn.inUse /\ r.copied = conn.copied /\ r.lob = conn.lob \ {e.cid}
  <2>1. /\ ToSet(r.cache) = NotCid(NotSql(E, sql), e.cid)
        /\ r.inUse = conn.inUse \ {e.cid} /\ r.copied = conn.copied \ {e.cid}
        /\ ToSet(r.toClose) = ToSet(conn.toClose) \cup {e.cid} /\ r.lob = conn.lob \ {e.cid}
    BY <1>6 DEF Invalidated, E
  <2>2. conn.inUse \ {e.cid} = conn.inUse /\ conn.copied \ {e.cid} = conn.copied
    BY <1>3, <1>4
  <2>3. NotCid(NotSql(E, sql), e.cid) = E \ {e}
    BY <1>8
  <2> QED
    BY <2>1, <2>2, <2>3, Zenon
<1>11. CoreOf(r, Live, srv, foreign, orphans)
  BY <1>9, <1>10 DEF CoreOf
<1> QED
  BY <1>6, <1>8, <1>10, <1>11 DEF Invalidated, E

\* statement_cache_get while the cursor is not in use
LEMMA GetFacts ==
    ASSUME CursorInv, NEW sql \in Sqls, NEW shape, ~InUse(conn, sql),
           NEW got, got = CacheGet(conn, sql, shape)
    PROVE  \/ /\ got.cid = {} /\ Books(got.k) /\ CoreOf(got.k, Live, srv, foreign, orphans)
              /\ ToSet(got.k.cache) = NotSql(ToSet(conn.cache), sql)
           \/ LET e == Entry(conn, sql)
              IN  /\ got.cid = {e.cid} /\ Reordered(got.k, conn)
                  /\ Cached(conn, sql) # {} /\ Compatible(e.shape, shape)
<1>1. Books(conn) /\ CoreOf(conn, Live, srv, foreign, orphans)
  BY DEF CursorInv, Types, CoreOf
<1>2. CASE Cached(conn, sql) = {}
  <2>1. got.cid = {} /\ got.k = conn
    BY <1>2 DEF CacheGet
  <2>2. \A g \in ToSet(conn.cache) : g.sql # sql
    BY <1>1, <1>2, EntryFacts
  <2>3. ToSet(conn.cache) = NotSql(ToSet(conn.cache), sql)
    BY <2>2 DEF NotSql
  <2> QED
    BY <1>1, <2>1, <2>3
<1>3. CASE Cached(conn, sql) # {} /\ ~Compatible(Entry(conn, sql).shape, shape)
  <2> DEFINE r == CacheInvalidate(conn, sql, {Entry(conn, sql).cid})
  <2>1. got.cid = {} /\ got.k = r
    BY <1>3 DEF CacheGet
  <2>2. /\ Books(r) /\ CoreOf(r, Live, srv, foreign, orphans)
        /\ ToSet(r.cache) = NotSql(ToSet(conn.cache), sql)
    BY <1>3, RebindMisses
  <2> HIDE DEF r
  <2> QED
    BY <2>1, <2>2
<1>4. CASE Cached(conn, sql) # {} /\ Compatible(Entry(conn, sql).shape, shape)
  <2> DEFINE r == [conn EXCEPT !.cache = Append(WithoutSql(conn.cache, sql), Entry(conn, sql))]
  <2>1. got.cid = {Entry(conn, sql).cid} /\ got.k = r
    BY <1>4 DEF CacheGet
  <2>2. Reordered(r, conn)
    BY <1>1, <1>4, TouchFacts
  <2> HIDE DEF r
  <2> QED
    BY <1>4, <2>1, <2>2
<1> QED
  BY <1>2, <1>3, <1>4

\* What statement_cache_take does to the bookkeeping it has looked up.
LEMMA TakeFacts ==
    ASSUME NEW k, Books(k), NEW c, NEW sql, NEW r,
           r = [[k |-> k, cid |-> c] EXCEPT !.k.cache = WithoutSql(k.cache, sql)]
    PROVE  r.cid = c /\ Dropped(r.k, k, sql)
<1> DEFINE z == [k EXCEPT !.cache = WithoutSql(k.cache, sql)]
<1>1. Dropped(z, k, sql)
  BY DropSqlFacts
<1>2. r = [k |-> z, cid |-> c]
  OBVIOUS
<1> HIDE DEF z
<1> QED
  BY <1>1, <1>2

\* The result of statement_cache_get is a pair.
LEMMA GetShape ==
    ASSUME NEW k, NEW sql, NEW shape
    PROVE  LET got == CacheGet(k, sql, shape) IN got = [k |-> got.k, cid |-> got.cid]
BY DEF CacheGet

\* the three results of a lookup
LEMMA LookFacts ==
    ASSUME CursorInv, NEW sql \in Sqls, NEW shape, NEW caching \in BOOLEAN,
           caching \/ ~InUse(conn, sql), NEW look, look = Lookup(sql, shape, caching)
    PROVE  \/ caching /\ Busy(look, sql)
           \/ Miss(look, sql)
           \/ \E e : Hit(look, e, sql, shape, caching)
<1> DEFINE e == Entry(conn, sql)
           E == ToSet(conn.cache)
<1>1. Books(conn) /\ CoreOf(conn, Live, srv, foreign, orphans)
  BY DEF CursorInv, Types, CoreOf
<1>2. Cached(conn, sql) # {} =>
        /\ e \in E /\ e \in Entries /\ e.sql = sql
        /\ \A g \in E : g.sql = sql => g = e
  BY <1>1, EntryFacts
<1>3. CASE caching /\ InUse(conn, sql)
  <2>1. look = [k |-> conn, cid |-> {}, copy |-> TRUE]
    BY <1>3 DEF Lookup
  <2>2. Cached(conn, sql) # {} /\ e.cid \in conn.inUse
    BY <1>3 DEF InUse
  <2> HIDE DEF e
  <2>3. sql \in Queries
    BY <1>1, <1>2, <2>2, BusyIsQuery DEF CoreOf
  <2>4. Busy(look, sql)
    BY <2>1, <2>3 DEF Busy
  <2> QED
    BY <1>3, <2>4
<1>4. CASE ~InUse(conn, sql)
  <2> DEFINE got == CacheGet(conn, sql, shape)
             out == IF caching THEN got ELSE CacheTake(conn, sql, shape)
  <2>1. look = [k |-> out.k, cid |-> out.cid, copy |-> FALSE]
    BY <1>4 DEF Lookup
  <2>2. \/ /\ got.cid = {} /\ Books(got.k) /\ CoreOf(got.k, Live, srv, foreign, orphans)
           /\ ToSet(got.k.cache) = NotSql(E, sql)
        \/ /\ got.cid = {e.cid} /\ Reordered(got.k, conn)
           /\ Cached(conn, sql) # {} /\ Compatible(e.shape, shape)
    BY <1>4, GetFacts
  <2>3. Cached(conn, sql) # {} => e.cid \notin Cids(Live)
    <3>1. Cached(conn, sql) # {} => e.cid \notin conn.inUse
      BY <1>4 DEF InUse
    <3> HIDE DEF e
    <3> QED
      BY <1>1, <1>2, <3>1, IdleIsFree DEF CoreOf
  <2>4. got = [k |-> got.k, cid |-> got.cid]
    BY GetShape
  <2>5. ~caching => out = [[k |-> got.k, cid |-> got.cid] EXCEPT
                             !.k.cache = WithoutSql(got.k.cache, sql)]
    <3>1. ~caching => out = [got EXCEPT !.k.cache = WithoutSql(got.k.cache, sql)]
      BY DEF CacheTake
    <3> HIDE DEF got, out
    <3> QED
      BY <2>4, <3>1
  <2>6. caching => out = got
    OBVIOUS
  <2> HIDE DEF got, out, e
  <2>7. Books(got.k)
    BY <2>2 DEF Reordered
  <2>8. ~caching => out.cid = got.cid /\ Dropped(out.k, got.k, sql)
    BY <2>5, <2>7, TakeFacts
  <2>9. CASE /\ got.cid = {} /\ CoreOf(got.k, Live, srv, foreign, orphans)
             /\ ToSet(got.k.cache) = NotSql(E, sql)
    <3>1. CASE caching
      <4>1. Miss(look, sql)
        BY <2>1, <2>6, <2>7, <2>9, <3>1 DEF Miss
      <4> QED
        BY <4>1
    <3>2. CASE ~caching
      <4>1. NotSql(NotSql(E, sql), sql) = NotSql(E, sql)
        BY DEF NotSql
      <4>2. /\ ToSet(out.k.cache) = NotSql(E, sql) /\ Books(out.k) /\ out.cid = {}
            /\ CoreOf(out.k, Live, srv, foreign, orphans)
        BY <2>8, <2>9, <3>2, <4>1 DEF Dropped, CoreOf
      <4> QED
        BY <2>1, <4>2 DEF Miss
    <3> QED
      BY <3>1, <3>2
  <2>10. CASE /\ got.cid = {e.cid} /\ Reordered(got.k, conn)
              /\ Cached(conn, sql) # {} /\ Compatible(e.shape, shape)
    <3>1. CASE caching
      <4>1. Hit(look, e, sql, shape, caching)
        BY <1>2, <2>1, <2>3, <2>6, <2>10, <3>1 DEF Hit, Reordered
      <4> QED
        BY <4>1
    <3>2. CASE ~caching
      <4>1. NotSql(E, sql) = E \ {e}
        BY <1>2, <2>10 DEF NotSql
      <4>2. /\ ToSet(out.k.cache) = E \ {e} /\ Books(out.k) /\ out.cid = {e.cid}
            /\ out.k.inUse = conn.inUse /\ out.k.copied = conn.copied
            /\ out.k.toClose = conn.toClose
            /\ out.k.columns = conn.columns /\ out.k.lob = conn.lob
        BY <2>8, <2>10, <3>2, <4>1 DEF Dropped, Reordered
      <4>3. Hit(look, e, sql, shape, caching)
        BY <1>2, <2>1, <2>3, <2>10, <3>2, <4>2 DEF Hit
      <4> QED
        BY <4>3
    <3> QED
      BY <3>1, <3>2
  <2> QED
    BY <2>2, <2>9, <2>10
<1> QED
  BY <1>3, <1>4

-----------------------------------------------------------------------------
(* The request *)

\* the piggyback leaves the cursors that are not queued
LEMMA SentFacts ==
    ASSUME NEW k, Books(k), NEW r, r = Sent(k)
    PROVE  /\ Books(r) /\ r.cache = k.cache /\ r.inUse = k.inUse /\ r.copied = k.copied
           /\ ToSet(r.toClose) = {} /\ r.columns = k.columns /\ r.lob = k.lob
<1>1. r = [cache |-> k.cache, inUse |-> k.inUse, copied |-> k.copied,
           toClose |-> <<>>, columns |-> k.columns, lob |-> k.lob]
  <2>1. k = [cache |-> k.cache, inUse |-> k.inUse, copied |-> k.copied,
             toClose |-> k.toClose, columns |-> k.columns, lob |-> k.lob]
    BY DEF Books
  <2>2. r = [k EXCEPT !.toClose = <<>>]
    BY DEF Sent
  <2> QED
    BY <2>1, <2>2
<1>2. <<>> \in Seq(Ids) /\ OneToOne(<<>>) /\ ToSet(<<>>) = {}
  BY DEF OneToOne, ToSet
<1>3. Books(r)
  BY <1>1, <1>2 DEF Books
<1> QED
  BY <1>1, <1>2, <1>3

\* The piggyback closes the queued cursors and no other.
LEMMA SurvivorFacts ==
    ASSUME Types, NEW k, NEW s, s = Survivors(k)
    PROVE  /\ Forgets(s, srv, ToSet(k.toClose)) /\ Table(s, Parses)
           /\ IsFiniteSet(DOMAIN s) /\ Cardinality(DOMAIN s) <= execs
<1>1. DOMAIN s = DOMAIN srv \ ToSet(k.toClose) /\ \A c \in DOMAIN s : s[c] = srv[c]
  BY DEF Survivors, Restrict
<1>2. PICK D \in SUBSET Ids : srv \in [D -> Parses]
  BY DEF Types, Table
<1>3. s \in [DOMAIN srv \ ToSet(k.toClose) -> Parses] /\ DOMAIN srv \ ToSet(k.toClose) \subseteq Ids
  BY <1>2 DEF Survivors, Restrict
<1>4. Table(s, Parses)
  BY <1>3 DEF Table
<1>5. /\ IsFiniteSet(DOMAIN srv) /\ Cardinality(DOMAIN srv) <= execs /\ execs \in Nat
  BY CursorAssumption DEF Types
<1>6. DOMAIN s \in SUBSET DOMAIN srv
  BY <1>1
<1>7. IsFiniteSet(DOMAIN s) /\ Cardinality(DOMAIN s) <= Cardinality(DOMAIN srv)
  BY <1>5, <1>6, FS_Subset
<1>8. Cardinality(DOMAIN s) \in Nat /\ Cardinality(DOMAIN srv) \in Nat
  BY <1>5, <1>7, FS_CardinalityType
<1>9. Cardinality(DOMAIN s) <= execs
  BY <1>5, <1>7, <1>8
<1> QED
  BY <1>1, <1>4, <1>7, <1>9 DEF Forgets

\* s2 is s with the cursor c parsed for sql
Opened(s2, s, c, sql, shape) ==
    /\ c \in Ids /\ c \notin DOMAIN s /\ DOMAIN s2 = DOMAIN s \cup {c}
    /\ \A x \in DOMAIN s : s2[x] = s[x]
    /\ s2[c] = [sql |-> sql, family |-> Family(shape)]
    /\ Table(s2, Parses)
    /\ IsFiniteSet(DOMAIN s2) /\ Cardinality(DOMAIN s2) <= execs + 1

\* there is a free number as long as an execution may follow
LEMMA ParsedFacts ==
    ASSUME Types, execs < MaxExecs, NEW s, Table(s, Parses),
           IsFiniteSet(DOMAIN s), Cardinality(DOMAIN s) <= execs,
           NEW sql \in Sqls, NEW shape \in Shapes, NEW p, p = Parsed(s, sql, shape)
    PROVE  Opened(p.srv, s, p.cid, sql, shape)
<1> DEFINE c == Min(Ids \ DOMAIN s)
           v == [sql |-> sql, family |-> Family(shape)]
<1>1. execs \in Nat /\ MaxExecs \in Nat /\ Cardinality(DOMAIN s) \in Nat
  BY CursorAssumption, FS_CardinalityType DEF Types
<1>2. IsFiniteSet(Ids) /\ Cardinality(Ids) = MaxExecs + 1
  <2>1. 1 \in Int /\ MaxExecs + 1 \in Int /\ ~(1 > MaxExecs + 1)
    BY <1>1
  <2>2. /\ IsFiniteSet(1..(MaxExecs + 1))
        /\ Cardinality(1..(MaxExecs + 1)) = (MaxExecs + 1) - 1 + 1
    BY <2>1, FS_Interval
  <2>3. (MaxExecs + 1) - 1 + 1 = MaxExecs + 1
    BY <1>1
  <2> QED
    BY <2>2, <2>3 DEF Ids
<1>3. DOMAIN s \subseteq Ids
  BY DEF Table
<1>4. Ids \ DOMAIN s # {}
  <2>1. SUFFICES ASSUME Ids \ DOMAIN s = {} PROVE FALSE
    OBVIOUS
  <2>2. DOMAIN s = Ids
    BY <1>3, <2>1
  <2> QED
    BY <1>1, <1>2, <2>2
<1>5. Ids \ DOMAIN s \in SUBSET Nat
  BY <1>1 DEF Ids
<1>6. c \in Ids \ DOMAIN s
  BY <1>4, <1>5, LeastNat DEF Min
<1>7. p.cid = c /\ p.srv = Insert(s, c, v)
  BY DEF Parsed
<1> HIDE DEF c
<1>8. v \in Parses /\ v = [sql |-> sql, family |-> Family(shape)]
  BY DEF Parses, Family, Shapes
<1> HIDE DEF v
<1> DEFINE s2 == Insert(s, c, v)
<1>9. /\ DOMAIN s2 = DOMAIN s \cup {c} /\ s2[c] = v
      /\ \A x \in DOMAIN s : s2[x] = s[x]
  BY <1>6 DEF Insert
<1>10. Table(s2, Parses)
  <2>1. PICK D \in SUBSET Ids : s \in [D -> Parses]
    BY DEF Table
  <2>2. s2 \in [D \cup {c} -> Parses]
    BY <2>1, <1>8 DEF Insert
  <2>3. D \cup {c} \in SUBSET Ids
    BY <1>6
  <2> HIDE DEF s2
  <2> QED
    BY <2>2, <2>3 DEF Table
<1>11. IsFiniteSet(DOMAIN s \cup {c}) /\ Cardinality(DOMAIN s \cup {c}) = Cardinality(DOMAIN s) + 1
  BY <1>6, FS_AddElement
<1>12. Cardinality(DOMAIN s) + 1 <= execs + 1
  BY <1>1
<1> HIDE DEF s2
<1>13. Opened(s2, s, c, sql, shape)
  BY <1>6, <1>8, <1>9, <1>10, <1>11, <1>12 DEF Opened
<1> QED
  BY <1>7, <1>13 DEF s2

-----------------------------------------------------------------------------
(* statement_cache_put *)

\* r is k with the entry e and without the ones in G, which are queued for close
Stored(r, k, e, G) ==
    /\ Books(r) /\ Len(r.cache) <= CacheSize
    /\ ToSet(r.cache) = (NotSql(ToSet(k.cache), e.sql) \cup {e}) \ G
    /\ G \subseteq NotSql(ToSet(k.cache), e.sql)
    /\ r.inUse = k.inUse /\ r.copied = k.copied
    /\ ToSet(r.toClose) = ToSet(k.toClose) \cup Cids(G)
    /\ Forgets(r.columns, k.columns, Cids(G)) /\ r.lob = k.lob \ Cids(G)

\* the cache with the entry e at its end
Grown(z, k, e) ==
    /\ z \in Seq(Entries) /\ Distinct(z)
    /\ ToSet(z) = NotSql(ToSet(k.cache), e.sql) \cup {e}
    /\ Len(z) <= Len(k.cache) + 1 /\ z[Len(z)] = e /\ Len(z) \in Nat \ {0}

\* The cache before eviction: the entry moved to the end, nothing replaced.
LEMMA PutGrows ==
    ASSUME NEW k, Books(k), NEW c \in Ids, NEW sql \in Sqls, NEW shape \in Shapes,
           \A g \in ToSet(k.cache) : g.sql = sql <=> g.cid = c,
           NEW e, e = Written(k, sql, c, shape)
    PROVE  /\ e \in Entries /\ e.sql = sql /\ e.cid = c
           /\ Grown(Append(WithoutSql(k.cache, sql), e), k, e)
           /\ Replaced(k, sql, c) = <<>>
<1> DEFINE q == WithoutSql(k.cache, sql)
           z == Append(q, e)
<1>1. /\ q \in Seq(Entries) /\ Distinct(q) /\ Len(q) <= Len(k.cache)
      /\ ToSet(q) = NotSql(ToSet(k.cache), sql)
  BY WithoutSqlFacts DEF Books
<1>2. Len(q) \in Nat /\ Len(k.cache) \in Nat
  BY <1>1 DEF Books
<1>3. e \in Entries /\ e.sql = sql /\ e.cid = c
  <2>1. Cached(k, sql) # {} => Entry(k, sql).shape \in Shapes
    BY EntryFacts DEF Entries
  <2>2. Cached(k, sql) # {} => Inherited(Entry(k, sql).shape, shape) \in Shapes
    BY <2>1 DEF Inherited
  <2> QED
    BY <2>2 DEF Written, Entries
<1> HIDE DEF q
<1>4. \A g \in ToSet(q) : g.sql # e.sql /\ g.cid # e.cid
  BY <1>1, <1>3 DEF NotSql
<1>6. Distinct(z)
  BY <1>1, <1>3, <1>4, AppendDistinct
<1>7. /\ z \in Seq(Entries) /\ Len(z) = Len(q) + 1 /\ ToSet(z) = ToSet(q) \cup {e}
      /\ z[Len(q) + 1] = e
  BY <1>1, <1>3, AppendMembers
<1> HIDE DEF z
<1>8. Len(z) <= Len(k.cache) + 1 /\ Len(z) \in Nat \ {0}
  BY <1>1, <1>2, <1>7
<1>9. Grown(z, k, e)
  BY <1>1, <1>3, <1>6, <1>7, <1>8 DEF Grown
<1>10. Replaced(k, sql, c) = <<>>
  BY EntryFacts DEF Replaced
<1> QED
  BY <1>3, <1>9, <1>10 DEF z, q

\* statement_cache_put with room left: nothing is evicted.
LEMMA PutFits ==
    ASSUME NEW k, Books(k), NEW c \in Ids, NEW sql \in Sqls, NEW shape \in Shapes,
           \A g \in ToSet(k.cache) : g.sql = sql <=> g.cid = c,
           NEW e, e = Written(k, sql, c, shape),
           NEW z, z = Append(WithoutSql(k.cache, sql), e), Len(z) <= CacheSize
    PROVE  Stored(CachePut(k, sql, c, shape), k, e, {})
<1> DEFINE m == ForgetMetadata(k, {})
           r == CachePut(k, sql, c, shape)
           gone == Replaced(k, sql, c) \o [i \in 1..Excess(z) |-> z[i].cid]
<1>1. e \in Entries /\ e.sql = sql /\ e.cid = c /\ Grown(z, k, e) /\ Replaced(k, sql, c) = <<>>
  BY PutGrows
<1>2. Excess(z) = 0 /\ Len(z) \in Nat
  BY <1>1, CursorAssumption DEF Excess, Grown
<1>3. [i \in 1..0 |-> z[i].cid] = <<>> /\ <<>> \o <<>> = <<>>
  OBVIOUS
<1>4. gone = <<>>
  BY <1>1, <1>2, <1>3
<1>5. r = [ForgetMetadata(k, ToSet(gone)) EXCEPT
             !.cache = SubSeq(z, Excess(z) + 1, Len(z)), !.toClose = @ \o gone]
  BY DEF CachePut
<1>6. SubSeq(z, Excess(z) + 1, Len(z)) = z
  BY <1>1, <1>2 DEF Grown
<1>7. ToSet(<<>>) = {}
  BY DEF ToSet
<1> HIDE DEF r, gone
<1>8. r = [m EXCEPT !.cache = z, !.toClose = m.toClose \o <<>>]
  BY <1>4, <1>5, <1>6, <1>7
<1>9. Forgot(m, k, {})
  BY ForgetFacts
<1> HIDE DEF m
<1>10. m.toClose \o <<>> = k.toClose
  BY <1>9 DEF Forgot, Books
<1>11. r = [cache |-> z, inUse |-> k.inUse, copied |-> k.copied,
            toClose |-> k.toClose, columns |-> m.columns, lob |-> k.lob]
  BY <1>8, <1>9, <1>10 DEF Forgot, Books
<1>12. Books(r)
  BY <1>1, <1>9, <1>11 DEF Forgot, Books, Grown
<1>13. Cids({}) = {}
  BY DEF Cids
<1>14. Stored(r, k, e, {})
  BY <1>1, <1>9, <1>11, <1>12, <1>13 DEF Forgot, Stored, Grown
<1> QED
  BY <1>14 DEF r

\* The cache without its oldest entry.
LEMMA TailFacts ==
    ASSUME NEW z \in Seq(Entries), Distinct(z), Len(z) \in Nat \ {0}
    PROVE  LET y == SubSeq(z, 2, Len(z)) IN
           /\ y \in Seq(Entries) /\ Distinct(y) /\ Len(y) = Len(z) - 1
           /\ ToSet(y) = ToSet(z) \ {z[1]} /\ z[1] \in ToSet(z)
<1> DEFINE y == SubSeq(z, 2, Len(z))
<1>1. y \in Seq(Entries) /\ Len(y) = Len(z) - 1
  <2>1. 2 \in Int /\ Len(z) \in Int /\ \A i \in 2..Len(z) : z[i] \in Entries
    OBVIOUS
  <2>2. y \in Seq(Entries) /\ Len(y) = IF 2 <= Len(z) THEN Len(z) - 2 + 1 ELSE 0
    BY <2>1, SubSeqProperties
  <2>3. \A n \in Nat \ {0} : (IF 2 <= n THEN n - 2 + 1 ELSE 0) = n - 1
    OBVIOUS
  <2> HIDE DEF y
  <2> QED
    BY <2>2, <2>3
<1>2. DOMAIN y = 1..(Len(z) - 1) /\ \A i \in DOMAIN y : y[i] = z[i+1] /\ i + 1 \in DOMAIN z
  OBVIOUS
<1> HIDE DEF y
<1>3. Distinct(y)
  BY <1>2 DEF Distinct
<1>4. 1 \in DOMAIN z /\ DOMAIN z = 1..Len(z)
  OBVIOUS
<1>5. \A j \in DOMAIN z : j # 1 => j - 1 \in DOMAIN y /\ y[j-1] = z[j]
  BY <1>2, <1>4
<1>6. \A i \in DOMAIN y : z[i+1] # z[1]
  BY <1>2, <1>4 DEF Distinct
<1>7. ToSet(y) = ToSet(z) \ {z[1]}
  BY <1>2, <1>4, <1>5, <1>6 DEF ToSet
<1> QED
  BY <1>1, <1>3, <1>4, <1>7, Members DEF y

\* statement_cache_put into a full cache: one entry is evicted and queued.
LEMMA PutEvicts ==
    ASSUME NEW k, Books(k), NEW c \in Ids, NEW sql \in Sqls, NEW shape \in Shapes,
           \A g \in ToSet(k.cache) : g.sql = sql <=> g.cid = c,
           \A g \in ToSet(k.cache) : g.cid \notin ToSet(k.toClose),
           CacheSize # 0, Len(k.cache) <= CacheSize,
           NEW e, e = Written(k, sql, c, shape),
           NEW z, z = Append(WithoutSql(k.cache, sql), e), Len(z) > CacheSize
    PROVE  \E g : Stored(CachePut(k, sql, c, shape), k, e, {g})
<1> DEFINE g == z[1]
           m == ForgetMetadata(k, {g.cid})
           r == CachePut(k, sql, c, shape)
           gone == Replaced(k, sql, c) \o [i \in 1..Excess(z) |-> z[i].cid]
           y == SubSeq(z, 2, Len(z))
           t == Append(k.toClose, g.cid)
<1>1. e \in Entries /\ e.sql = sql /\ e.cid = c /\ Grown(z, k, e) /\ Replaced(k, sql, c) = <<>>
  BY PutGrows
<1>2. Excess(z) = 1 /\ Len(z) = CacheSize + 1 /\ CacheSize \in Nat \ {0}
  <2>1. Len(k.cache) \in Nat /\ CacheSize \in Nat
    BY CursorAssumption DEF Books
  <2> QED
    BY <1>1, <2>1 DEF Excess, Grown
<1>3. [i \in 1..1 |-> z[i].cid] = <<z[1].cid>> /\ <<>> \o <<z[1].cid>> = <<z[1].cid>>
  OBVIOUS
<1>4. gone = <<g.cid>>
  BY <1>1, <1>2, <1>3
<1>5. r = [ForgetMetadata(k, ToSet(gone)) EXCEPT
             !.cache = SubSeq(z, Excess(z) + 1, Len(z)), !.toClose = @ \o gone]
  BY DEF CachePut
<1>6. SubSeq(z, Excess(z) + 1, Len(z)) = y
  BY <1>2
<1>7. ToSet(<<g.cid>>) = {g.cid}
  BY DEF ToSet
<1> HIDE DEF r, gone, y
<1>8. r = [m EXCEPT !.cache = y, !.toClose = m.toClose \o <<g.cid>>]
  BY <1>4, <1>5, <1>6, <1>7
<1>9. Forgot(m, k, {g.cid})
  BY ForgetFacts
<1>10. /\ y \in Seq(Entries) /\ Distinct(y) /\ Len(y) = Len(z) - 1
       /\ ToSet(y) = ToSet(z) \ {g} /\ g \in ToSet(z)
  BY <1>1, TailFacts DEF Grown, y
<1>11. g # e
  <2>1. Len(z) # 1 /\ Len(z) \in DOMAIN z /\ 1 \in DOMAIN z /\ z[Len(z)] = e
    BY <1>1, <1>2 DEF Grown
  <2> QED
    BY <1>1, <2>1 DEF Grown, Distinct
<1> HIDE DEF m, g
<1>12. g \in NotSql(ToSet(k.cache), e.sql)
  BY <1>1, <1>10, <1>11 DEF Grown
<1>13. g.cid \in Ids /\ g.cid \notin ToSet(k.toClose)
  <2>1. g \in Entries
    <3>1. z \in Seq(Entries)
      BY <1>1 DEF Grown
    <3>2. ToSet(z) \subseteq Entries
      BY <3>1, Members
    <3> QED
      BY <3>2, <1>10
  <2> QED
    BY <1>12, <2>1 DEF NotSql, Entries
<1>14. t \in Seq(Ids) /\ OneToOne(t) /\ ToSet(t) = ToSet(k.toClose) \cup {g.cid}
  BY <1>13, AppendMembers, AppendOneToOne DEF Books
<1>15. m.toClose \o <<g.cid>> = t
  BY <1>9, <1>13 DEF Forgot, Books
<1> HIDE DEF t
<1>16. r = [cache |-> y, inUse |-> k.inUse, copied |-> k.copied,
            toClose |-> t, columns |-> m.columns, lob |-> k.lob \ {g.cid}]
  BY <1>8, <1>9, <1>15 DEF Forgot, Books
<1>17. Books(r)
  BY <1>9, <1>10, <1>14, <1>16 DEF Forgot, Books
<1>18. Cids({g}) = {g.cid}
  BY DEF Cids
<1>19. Len(y) <= CacheSize
  BY <1>2, <1>10
<1>20. ToSet(y) = (NotSql(ToSet(k.cache), e.sql) \cup {e}) \ {g}
  BY <1>1, <1>10 DEF Grown
<1>21. Stored(r, k, e, {g})
  BY <1>9, <1>12, <1>14, <1>16, <1>17, <1>18, <1>19, <1>20 DEF Forgot, Stored
<1> QED
  BY <1>21 DEF r

-----------------------------------------------------------------------------
(* The response *)

\* what the response says of the cursor is retained
LEMMA CoreNotes ==
    ASSUME NEW E, NEW T, NEW U, NEW C, NEW M, NEW B, NEW L, NEW s, NEW f, NEW lost,
           Core(E, T, U, C, M, B, L, s, f, lost), NEW c \in Cids(E) \cup Cids(L),
           NEW sql, s[c].sql = sql, NEW rows \in BOOLEAN
    PROVE  Core(E, T, U, C, Described(M, c, sql), Prefetched(B, c, sql, rows), L, s, f, lost)
<1> DEFINE M2 == Described(M, c, sql)
           B2 == Prefetched(B, c, sql, rows)
<1>1. Core(E, T, U, C, M, B2, L, s, f, lost)
  BY CoreMarks DEF Prefetched
<1> HIDE DEF B2
<1>2. CASE sql \in Queries
  <2> DEFINE N == Insert(M, c, sql)
  <2>1. DOMAIN N = DOMAIN M \cup {c} /\ N[c] = s[c].sql /\ \A x \in DOMAIN M : x # c => N[x] = M[x]
    BY DEF Insert
  <2>2. M2 = N
    BY <1>2 DEF Described
  <2> HIDE DEF N, M2
  <2>3. Core(E, T, U, C, N, B2, L, s, f, lost)
    BY <1>1, <2>1, CoreDescribes
  <2> QED
    BY <2>2, <2>3 DEF M2, B2
<1>3. CASE sql \notin Queries
  BY <1>1, <1>3 DEF B2, Described
<1> QED
  BY <1>2, <1>3

\* r is k with the cursor c recorded for sql
Noted(r, k, sql, c, rows) ==
    /\ Books(r) /\ r.cache = k.cache /\ r.toClose = k.toClose /\ r.copied = k.copied
    /\ r.inUse = Using(k.inUse, c, sql)
    /\ r.columns = Described(k.columns, c, sql)
    /\ r.lob = Prefetched(k.lob, c, sql, rows)

\* Retaining the columns of one more cursor.
LEMMA InsertTable ==
    ASSUME NEW M, Table(M, Sqls), NEW c \in Ids, NEW sql \in Sqls
    PROVE  Table(Insert(M, c, sql), Sqls)
<1>1. PICK D \in SUBSET Ids : M \in [D -> Sqls]
  BY DEF Table
<1> DEFINE N == Insert(M, c, sql)
<1>2. N \in [D \cup {c} -> Sqls] /\ D \cup {c} \in SUBSET Ids
  BY <1>1 DEF Insert
<1> HIDE DEF N
<1>3. Table(N, Sqls)
  BY <1>2 DEF Table
<1> QED
  BY <1>3 DEF N

\* the two parts of it
Marked(r, k, sql, c, rows) ==
    /\ Books(r) /\ r.cache = k.cache /\ r.toClose = k.toClose /\ r.copied = k.copied
    /\ r.inUse = k.inUse /\ r.columns = k.columns
    /\ r.lob = Prefetched(k.lob, c, sql, rows)

BeingRead(r, k, sql, c) ==
    /\ Books(r) /\ r.cache = k.cache /\ r.toClose = k.toClose /\ r.copied = k.copied
    /\ r.inUse = k.inUse \cup {c} /\ r.columns = Insert(k.columns, c, sql)
    /\ r.lob = k.lob

\* Marking a cursor that carries LOB prefetch data touches nothing else.
LEMMA MarkFacts ==
    ASSUME NEW k, Books(k), NEW sql, NEW c \in Ids, NEW rows,
           NEW r, r = [k EXCEPT !.lob = Prefetched(k.lob, c, sql, rows)]
    PROVE  Marked(r, k, sql, c, rows)
<1> DEFINE B2 == Prefetched(k.lob, c, sql, rows)
<1>1. B2 \subseteq Ids
  BY DEF Books, Prefetched
<1> HIDE DEF B2
<1>2. r = [cache |-> k.cache, inUse |-> k.inUse, copied |-> k.copied,
           toClose |-> k.toClose, columns |-> k.columns, lob |-> B2]
  <2>1. k = [cache |-> k.cache, inUse |-> k.inUse, copied |-> k.copied,
             toClose |-> k.toClose, columns |-> k.columns, lob |-> k.lob]
    BY DEF Books
  <2>2. r = [k EXCEPT !.lob = B2]
    BY DEF B2
  <2> QED
    BY <2>1, <2>2
<1>3. Books(r)
  BY <1>1, <1>2 DEF Books
<1> QED
  BY <1>2, <1>3 DEF B2, Marked

\* in_use_cursors and cursor_columns
LEMMA ReadFacts ==
    ASSUME NEW k, Books(k), NEW sql \in Queries, NEW c \in Ids
    PROVE  BeingRead([k EXCEPT !.inUse = k.inUse \cup {c},
                               !.columns = Insert(k.columns, c, sql)], k, sql, c)
<1> DEFINE M2 == Insert(k.columns, c, sql)
           r == [k EXCEPT !.inUse = k.inUse \cup {c}, !.columns = M2]
<1>1. Table(M2, Sqls)
  BY InsertTable DEF Books, Sqls
<1>0. r = [k EXCEPT !.inUse = k.inUse \cup {c}, !.columns = M2]
  OBVIOUS
<1> HIDE DEF M2, r
<1>2. r = [cache |-> k.cache, inUse |-> k.inUse \cup {c}, copied |-> k.copied,
           toClose |-> k.toClose, columns |-> M2, lob |-> k.lob]
  <2>1. k = [cache |-> k.cache, inUse |-> k.inUse, copied |-> k.copied,
             toClose |-> k.toClose, columns |-> k.columns, lob |-> k.lob]
    BY DEF Books
  <2> QED
    BY <1>0, <2>1
<1>3. Books(r)
  <2>1. k.inUse \cup {c} \subseteq Ids
    BY DEF Books
  <2>2. /\ r.cache = k.cache /\ r.inUse = k.inUse \cup {c} /\ r.copied = k.copied
        /\ r.toClose = k.toClose /\ r.columns = M2 /\ r.lob = k.lob
    BY <1>2
  <2>3. r = [cache |-> r.cache, inUse |-> r.inUse, copied |-> r.copied,
             toClose |-> r.toClose, columns |-> r.columns, lob |-> r.lob]
    BY <1>2
  <2> QED
    BY <1>1, <2>1, <2>2, <2>3 DEF Books
<1>4. BeingRead(r, k, sql, c)
  BY <1>2, <1>3 DEF BeingRead, M2
<1> QED
  BY <1>4 DEF r, M2

\* a copy is noted as such
Copying(k, look, c) == IF look.copy THEN [k EXCEPT !.copied = k.copied \cup {c}] ELSE k

\* a response for a cursor that does not go to the cache
LEMMA RecordedFacts ==
    ASSUME NEW k, Books(k), NEW look, NEW sql \in Sqls, NEW shape,
           NEW caching, look.copy \/ ~caching, NEW c \in Ids, NEW rows
    PROVE  Noted(Recorded(k, look, sql, shape, caching, c, rows), Copying(k, look, c), sql, c, rows)
<1> DEFINE lob == [k EXCEPT !.lob = Prefetched(k.lob, c, sql, rows)]
           kept == IF look.copy THEN [lob EXCEPT !.copied = lob.copied \cup {c}] ELSE lob
           r == Recorded(k, look, sql, shape, caching, c, rows)
           k2 == Copying(k, look, c)
<1>1. Marked(lob, k, sql, c, rows)
  BY MarkFacts
<1>2. r = IF sql \notin Queries THEN kept
          ELSE [kept EXCEPT !.inUse = kept.inUse \cup {c}, !.columns = Insert(kept.columns, c, sql)]
  BY DEF Recorded, Prefetched
<1> HIDE DEF lob
<1>3. /\ Books(kept) /\ kept.cache = k.cache /\ kept.toClose = k.toClose
      /\ kept.copied = IF look.copy THEN k.copied \cup {c} ELSE k.copied
      /\ kept.inUse = k.inUse /\ kept.columns = k.columns /\ kept.lob = lob.lob
  <2>1. CASE look.copy
    <3>1. kept = [cache |-> lob.cache, inUse |-> lob.inUse, copied |-> lob.copied \cup {c},
                  toClose |-> lob.toClose, columns |-> lob.columns, lob |-> lob.lob]
      <4>1. lob = [cache |-> lob.cache, inUse |-> lob.inUse, copied |-> lob.copied,
                   toClose |-> lob.toClose, columns |-> lob.columns, lob |-> lob.lob]
        BY <1>1 DEF Books, Marked
      <4>2. kept = [lob EXCEPT !.copied = lob.copied \cup {c}]
        BY <2>1
      <4> HIDE DEF kept
      <4> QED
        BY <4>1, <4>2
    <3> HIDE DEF kept
    <3>2. Books(kept)
      BY <1>1, <3>1 DEF Books, Marked
    <3> QED
      BY <1>1, <2>1, <3>1, <3>2 DEF Marked
  <2>2. CASE ~look.copy
    BY <1>1, <2>2 DEF Marked
  <2> QED
    BY <2>1, <2>2
<1>4. /\ k2.cache = k.cache /\ k2.toClose = k.toClose /\ k2.inUse = k.inUse
      /\ k2.copied = IF look.copy THEN k.copied \cup {c} ELSE k.copied
      /\ k2.columns = k.columns /\ k2.lob = k.lob
  <2>1. k = [cache |-> k.cache, inUse |-> k.inUse, copied |-> k.copied,
             toClose |-> k.toClose, columns |-> k.columns, lob |-> k.lob]
    BY DEF Books
  <2>2. CASE look.copy
    <3>1. k2 = [k EXCEPT !.copied = k.copied \cup {c}]
      BY <2>2 DEF Copying
    <3> HIDE DEF k2
    <3> QED
      BY <2>1, <2>2, <3>1
  <2>3. CASE ~look.copy
    BY <2>3 DEF Copying
  <2> QED
    BY <2>2, <2>3
<1> HIDE DEF kept, k2, r
<1>5. CASE sql \notin Queries
  <2>1. r = kept
    BY <1>2, <1>5
  <2>2. Noted(r, k2, sql, c, rows)
    BY <1>1, <1>3, <1>4, <1>5, <2>1 DEF Noted, Marked, Using, Described
  <2> QED
    BY <2>2 DEF r, k2
<1>6. CASE sql \in Queries
  <2>1. r = [kept EXCEPT !.inUse = kept.inUse \cup {c}, !.columns = Insert(kept.columns, c, sql)]
    BY <1>2, <1>6
  <2>2. Books(kept)
    BY <1>3
  <2>3. BeingRead(r, kept, sql, c)
    BY <1>6, <2>1, <2>2, ReadFacts
  <2>4. Noted(r, k2, sql, c, rows)
    BY <1>1, <1>3, <1>4, <1>6, <2>3 DEF Noted, Marked, BeingRead, Using, Described
  <2> QED
    BY <2>4 DEF r, k2
<1> QED
  BY <1>5, <1>6

\* nobody holds a cursor, or the cache has room for the statement
LEMMA RoomFacts ==
    ASSUME CursorInv, NEW sql, ~Crowded(sql), Live # {},
           NEW z \in Seq(Entries), Distinct(z),
           \A e \in ToSet(z) : e.sql = sql \/ e \in ToSet(conn.cache)
    PROVE  Len(z) <= CacheSize
<1> DEFINE q == conn.cache
           X == {e.sql : e \in ToSet(q)}
           f == [i \in 1..Len(q) |-> q[i].sql]
<1>1. q \in Seq(Entries)
  BY DEF CursorInv, Types, Books
<1> HIDE DEF q
<1>2. /\ Len(q) \in Nat /\ DOMAIN q = 1..Len(q) /\ \A i \in DOMAIN q : q[i] \in ToSet(q)
      /\ \A x \in ToSet(q) : \E i \in DOMAIN q : q[i] = x
  BY <1>1, Members
<1>3. f \in Surjection(1..Len(q), X)
  <2>1. f \in [1..Len(q) -> X]
    BY <1>2
  <2>2. \A x \in X : \E i \in 1..Len(q) : f[i] = x
    BY <1>2
  <2> QED
    BY <2>1, <2>2 DEF Surjection
<1>4. IsFiniteSet(1..Len(q))
  BY <1>2, FS_Interval
<1> HIDE DEF f
<1>5. IsFiniteSet(X)
  BY <1>3, <1>4, FS_Surjection
<1>6. IsFiniteSet(X \cup {sql})
  BY <1>5, FS_AddElement
<1>7. \A e \in ToSet(z) : e.sql \in X \cup {sql}
  BY DEF q
<1>8. ~(Cardinality(X \cup {sql}) > CacheSize)
  BY DEF Crowded, q
<1> HIDE DEF X
<1>9. Len(z) <= Cardinality(X \cup {sql}) /\ Cardinality(X \cup {sql}) \in Nat
  BY <1>6, <1>7, StatementLen, FS_CardinalityType
<1>10. Len(z) \in Nat /\ CacheSize \in Nat
  BY CursorAssumption
<1> QED
  BY <1>8, <1>9, <1>10

\* the response stores the cursor in the cache
LEMMA PutCore ==
    ASSUME CursorInv, NEW sql \in Sqls, ~Crowded(sql), CacheSize # 0,
           NEW k, Books(k), ToSet(k.cache) \subseteq ToSet(conn.cache),
           NEW c \in Ids, NEW shape \in Shapes,
           \A g \in ToSet(k.cache) : g.sql = sql <=> g.cid = c,
           NEW e, e = Written(k, sql, c, shape), NEW s, NEW f, NEW lost,
           Core(NotSql(ToSet(k.cache), sql) \cup {e}, ToSet(k.toClose), k.inUse,
                k.copied, k.columns, k.lob, Live, s, f, lost),
           NEW r, r = CachePut(k, sql, c, shape)
    PROVE  /\ Books(r) /\ Len(r.cache) <= CacheSize /\ CoreOf(r, Live, s, f, lost)
           /\ e \in ToSet(r.cache) /\ e.sql = sql /\ e.cid = c
<1> DEFINE z == Append(WithoutSql(k.cache, sql), e)
           E == NotSql(ToSet(k.cache), sql) \cup {e}
<1>1. e \in Entries /\ e.sql = sql /\ e.cid = c /\ Grown(z, k, e)
  BY PutGrows
<1>2. Len(z) \in Nat /\ CacheSize \in Nat
  BY <1>1, CursorAssumption DEF Grown
<1>3. e \notin NotSql(ToSet(k.cache), sql)
  BY <1>1 DEF NotSql
<1>4. CASE Len(z) <= CacheSize
  <2>1. Stored(r, k, e, {})
    BY <1>4, PutFits
  <2> HIDE DEF z
  <2>2. Forgets(r.columns, k.columns, Cids({}))
    BY <2>1 DEF Stored
  <2>3. Cids({}) = {}
    BY DEF Cids
  <2>4. /\ Books(r) /\ Len(r.cache) <= CacheSize /\ ToSet(r.cache) = E
        /\ r.inUse = k.inUse /\ r.copied = k.copied /\ r.lob = k.lob
        /\ ToSet(r.toClose) = ToSet(k.toClose)
    BY <1>1, <2>1, <2>3 DEF Stored
  <2>5. DOMAIN r.columns = DOMAIN k.columns /\ \A x \in DOMAIN r.columns : r.columns[x] = k.columns[x]
    BY <2>2, <2>3 DEF Forgets
  <2> HIDE DEF E
  <2>6. Core(E, ToSet(k.toClose), k.inUse, k.copied, r.columns, k.lob, Live, s, f, lost)
    <3>1. Core(E, ToSet(k.toClose), k.inUse, k.copied, k.columns, k.lob, Live, s, f, lost)
      BY DEF E
    <3> QED
      BY <2>5, <3>1 DEF Core, MetadataTrue
  <2>7. CoreOf(r, Live, s, f, lost)
    BY <2>4, <2>6 DEF CoreOf
  <2> QED
    BY <1>1, <2>4, <2>7 DEF E
<1>5. CASE Len(z) > CacheSize
  <2>1. Live = {}
    <3>1. \A x \in ToSet(z) : x.sql = sql \/ x \in ToSet(conn.cache)
      BY <1>1 DEF Grown, NotSql
    <3>2. z \in Seq(Entries) /\ Distinct(z)
      BY <1>1 DEF Grown
    <3> HIDE DEF z
    <3>3. Live # {} => Len(z) <= CacheSize
      BY <3>1, <3>2, RoomFacts
    <3> QED
      BY <1>2, <1>5, <3>3
  <2>2. Len(k.cache) <= CacheSize
    <3>1. Books(conn) /\ Len(conn.cache) <= CacheSize
      BY DEF CursorInv, Types
    <3>2. Len(k.cache) <= Len(conn.cache)
      BY <3>1, SubsetLen DEF Books
    <3>3. Len(k.cache) \in Nat /\ Len(conn.cache) \in Nat
      BY <3>1 DEF Books
    <3> QED
      BY <1>2, <3>1, <3>2, <3>3
  <2>3. \A g \in ToSet(k.cache) : g.cid \notin ToSet(k.toClose)
    <3>1. \A g \in E : g.cid \notin ToSet(k.toClose)
      BY DEF Core, EntriesTrue
    <3>2. \A g \in ToSet(k.cache) : \E d \in E : d.cid = g.cid
      BY <1>1 DEF NotSql
    <3> QED
      BY <3>1, <3>2
  <2>4. PICK g : Stored(r, k, e, {g})
    BY <1>5, <2>2, <2>3, PutEvicts
  <2> HIDE DEF z
  <2>5. g \in NotSql(ToSet(k.cache), sql) /\ g # e
    BY <1>1, <1>3, <2>4 DEF Stored
  <2>6. Core(E \ {g}, ToSet(k.toClose) \cup Cids({g}), k.inUse, k.copied, r.columns,
             k.lob \ Cids({g}), {}, s, f, lost)
    <3>1. Core(E, ToSet(k.toClose), k.inUse, k.copied, k.columns, k.lob, {}, s, f, lost)
      BY <2>1
    <3>2. {g} \in SUBSET E /\ Forgets(r.columns, k.columns, Cids({g}))
      BY <2>4, <2>5 DEF Stored
    <3> HIDE DEF E
    <3> QED
      BY <3>1, <3>2, CoreEvicts
  <2>7. /\ Books(r) /\ Len(r.cache) <= CacheSize /\ ToSet(r.cache) = E \ {g}
        /\ r.inUse = k.inUse /\ r.copied = k.copied /\ r.lob = k.lob \ Cids({g})
        /\ ToSet(r.toClose) = ToSet(k.toClose) \cup Cids({g})
    BY <1>1, <2>4 DEF Stored
  <2>8. CoreOf(r, {}, s, f, lost)
    BY <2>6, <2>7 DEF CoreOf
  <2> QED
    BY <1>1, <2>1, <2>5, <2>7, <2>8
<1> QED
  BY <1>2, <1>4, <1>5

-----------------------------------------------------------------------------
(* The owners *)

HeldTypes == held \in [Owners -> SUBSET Holds] /\ \A o \in Owners : \A h, g \in held[o] : h = g

\* An idle owner takes a cursor nobody holds.
LEMMA OwnerGets ==
    ASSUME HeldTypes, CursorExclusive, NEW o \in Owners, held[o] = {}, NEW h \in Holds,
           h.cid \notin Cids(Live), held' = [held EXCEPT ![o] = {h}]
    PROVE  Live' = Live \cup {h} /\ HeldTypes' /\ CursorExclusive'
<1>1. \A p \in Owners : held'[p] = IF p = o THEN {h} ELSE held[p]
  BY DEF HeldTypes
<1>2. Live' = Live \cup {h}
  BY <1>1 DEF Live
<1>3. HeldTypes'
  BY <1>1 DEF HeldTypes
<1>4. \A p \in Owners : \A g \in held[p] : g.cid # h.cid
  BY DEF Live, Cids
<1>5. CursorExclusive'
  BY <1>1, <1>4 DEF CursorExclusive
<1> QED
  BY <1>2, <1>3, <1>5

\* An owner gives its cursor up.
LEMMA OwnerGives ==
    ASSUME HeldTypes, CursorExclusive, NEW o \in Owners, NEW h, h \in held[o],
           held' = [held EXCEPT ![o] = {}]
    PROVE  Live' = Live \ {h} /\ HeldTypes' /\ CursorExclusive'
<1>1. \A p \in Owners : held'[p] = IF p = o THEN {} ELSE held[p]
  BY DEF HeldTypes
<1>2. held[o] = {h}
  BY DEF HeldTypes
<1>3. \A p \in Owners : h \in held[p] => p = o
  BY DEF CursorExclusive
<1>4. Live' = Live \ {h}
  BY <1>1, <1>2, <1>3 DEF Live
<1>5. HeldTypes'
  BY <1>1 DEF HeldTypes
<1>6. CursorExclusive'
  BY <1>1 DEF CursorExclusive
<1> QED
  BY <1>4, <1>5, <1>6

\* The invariant, taken apart.
LEMMA TypesParts ==
    ASSUME CursorInv
    PROVE  /\ Books(conn) /\ Len(conn.cache) <= CacheSize /\ HeldTypes /\ CursorExclusive
           /\ Table(srv, Parses) /\ execs \in 0..MaxExecs
           /\ IsFiniteSet(DOMAIN srv) /\ Cardinality(DOMAIN srv) <= execs
           /\ CoreOf(conn, Live, srv, foreign, orphans) /\ Live \subseteq Holds /\ Types
<1>1. Live \subseteq Holds
  BY DEF CursorInv, Types, Live
<1> QED
  BY <1>1 DEF CursorInv, Types, HeldTypes, CoreOf

\* The invariant of the next state, put together.
LEMMA InvAgain ==
    ASSUME Books(conn)', (Len(conn.cache) <= CacheSize)', HeldTypes', CursorExclusive',
           Table(srv, Parses)', (execs \in 0..MaxExecs)', IsFiniteSet(DOMAIN srv)',
           (Cardinality(DOMAIN srv) <= execs)', CoreOf(conn, Live, srv, foreign, orphans)'
    PROVE  CursorInv'
<1>1. (foreign \subseteq DOMAIN srv)'
  BY DEF CoreOf, Core, AllKnown
<1> QED
  BY <1>1 DEF CursorInv, Types, HeldTypes, CoreOf

-----------------------------------------------------------------------------
(* The request and the lookup *)

ServerTypes(s) ==
    Table(s, Parses) /\ IsFiniteSet(DOMAIN s) /\ Cardinality(DOMAIN s) <= execs + 1

\* the statement runs on the cursor found
RanOn(run, k, e) ==
    /\ run.cid = e.cid /\ ServerTypes(run.srv) /\ Books(Sent(k))
    /\ Core(ToSet(conn.cache), {}, conn.inUse, conn.copied, conn.columns, conn.lob,
            Live, run.srv, foreign, orphans)

\* An execute that found a cursor runs on it; the server parses nothing.
LEMMA HitRuns ==
    ASSUME CursorInv, NEW look, NEW e, NEW sql \in Sqls, NEW shape, NEW caching,
           Hit(look, e, sql, shape, caching), NEW run, run = Ran(look, sql, shape)
    PROVE  RanOn(run, look.k, e)
<1> DEFINE s == Survivors(look.k)
<1>1. run = [cid |-> e.cid, srv |-> s]
  <2>1. look.cid = {e.cid}
    BY DEF Hit
  <2>2. look.cid # {} /\ (CHOOSE c \in look.cid : TRUE) = e.cid
    BY <2>1
  <2> QED
    BY <2>2 DEF Ran
<1>2. Types /\ CoreOf(conn, Live, srv, foreign, orphans) /\ execs \in Nat
  BY TypesParts, CursorAssumption
<1>3. /\ Forgets(s, srv, ToSet(look.k.toClose)) /\ Table(s, Parses)
      /\ IsFiniteSet(DOMAIN s) /\ Cardinality(DOMAIN s) <= execs
  BY <1>2, SurvivorFacts
<1>4. Forgets(s, srv, ToSet(conn.toClose))
  BY <1>3 DEF Hit
<1> HIDE DEF s
<1>5. Core(ToSet(conn.cache), {}, conn.inUse, conn.copied, conn.columns, conn.lob,
           Live, s, foreign, orphans)
  BY <1>2, <1>4, CoreFlushes DEF CoreOf
<1>6. ServerTypes(s)
  <2>1. Cardinality(DOMAIN s) \in Nat
    BY <1>3, FS_CardinalityType
  <2> QED
    BY <1>2, <1>3, <2>1 DEF ServerTypes
<1>7. Books(Sent(look.k))
  BY SentFacts DEF Hit
<1> QED
  BY <1>1, <1>5, <1>6, <1>7 DEF RanOn

\* the statement runs on a cursor parsed for it, which nobody knows yet
ParsedFor(run, k, sql, shape) ==
    /\ run.cid \in Ids /\ run.cid \notin foreign /\ run.cid \notin Cids(Live)
    /\ run.cid \notin Cids(ToSet(k.cache))
    /\ run.srv[run.cid] = [sql |-> sql, family |-> Family(shape)]
    /\ ServerTypes(run.srv) /\ Books(Sent(k)) /\ ToSet(Sent(k).cache) = ToSet(k.cache)
    /\ CoreOf(Sent(k), Live, run.srv, foreign \cup {run.cid}, orphans)

\* An execute that found none has a free number parsed for it.
LEMMA MissRuns ==
    ASSUME CursorInv, execs < MaxExecs, NEW look, NEW sql \in Sqls, NEW shape \in Shapes,
           look.cid = {}, Books(look.k), CoreOf(look.k, Live, srv, foreign, orphans),
           NEW run, run = Ran(look, sql, shape)
    PROVE  ParsedFor(run, look.k, sql, shape)
<1> DEFINE s == Survivors(look.k)
           k == Sent(look.k)
<1>1. run = Parsed(s, sql, shape)
  BY DEF Ran
<1>2. Types
  BY TypesParts
<1>3. /\ Forgets(s, srv, ToSet(look.k.toClose)) /\ Table(s, Parses)
      /\ IsFiniteSet(DOMAIN s) /\ Cardinality(DOMAIN s) <= execs
  BY <1>2, SurvivorFacts
<1>4. /\ Books(k) /\ k.cache = look.k.cache /\ k.inUse = look.k.inUse
      /\ k.copied = look.k.copied /\ ToSet(k.toClose) = {}
      /\ k.columns = look.k.columns /\ k.lob = look.k.lob
  BY SentFacts
<1> HIDE DEF s, k
<1>5. Opened(run.srv, s, run.cid, sql, shape)
  BY <1>1, <1>2, <1>3, ParsedFacts
<1>6. Core(ToSet(look.k.cache), {}, look.k.inUse, look.k.copied, look.k.columns,
           look.k.lob, Live, s, foreign, orphans)
  BY <1>3, CoreFlushes DEF CoreOf
<1>7. CoreOf(k, Live, s, foreign, orphans)
  BY <1>4, <1>6 DEF CoreOf
<1>8. CoreOf(k, Live, run.srv, foreign \cup {run.cid}, orphans)
  <2>1. /\ run.cid \notin DOMAIN s /\ DOMAIN run.srv = DOMAIN s \cup {run.cid}
        /\ \A x \in DOMAIN s : run.srv[x] = s[x]
    BY <1>5 DEF Opened
  <2>2. Core(ToSet(k.cache), ToSet(k.toClose), k.inUse, k.copied, k.columns, k.lob,
             Live, s, foreign, orphans)
    BY <1>7 DEF CoreOf
  <2>3. Core(ToSet(k.cache), ToSet(k.toClose), k.inUse, k.copied, k.columns, k.lob,
             Live, run.srv, foreign \cup {run.cid}, orphans)
    BY <2>1, <2>2, CoreParses, Zenon
  <2> QED
    BY <2>3 DEF CoreOf
<1>9. run.cid \notin foreign /\ run.cid \notin Cids(Live) /\ run.cid \notin Cids(ToSet(look.k.cache))
  <2>1. foreign \subseteq DOMAIN s
    BY <1>6 DEF Core, AllKnown
  <2>2. Cids(Live) \subseteq DOMAIN s
    BY <1>6 DEF Core, HoldsTrue, Cids
  <2>3. Cids(ToSet(look.k.cache)) \subseteq DOMAIN s
    BY <1>6 DEF Core, EntriesTrue, Cids
  <2> QED
    BY <1>5, <2>1, <2>2, <2>3 DEF Opened
<1>10. ServerTypes(run.srv)
  BY <1>5 DEF ServerTypes, Opened
<1>11. run.cid \in Ids /\ run.srv[run.cid] = [sql |-> sql, family |-> Family(shape)]
  BY <1>5 DEF Opened
<1>12. Books(k) /\ ToSet(k.cache) = ToSet(look.k.cache)
  BY <1>4
<1> QED
  BY <1>8, <1>9, <1>10, <1>11, <1>12 DEF ParsedFor, k

\* what a successful execution has to establish
Done(k, h, L, s) ==
    /\ Books(k) /\ Len(k.cache) <= CacheSize /\ ServerTypes(s)
    /\ CoreOf(k, IF h.sql \in Queries \/ h.raw THEN L \cup {h} ELSE L, s, foreign, orphans)

\* a copy of a cursor in use
LEMMA CopyDone ==
    ASSUME CursorInv, execs < MaxExecs, NEW sql \in Sqls, NEW shape \in Shapes,
           NEW rows \in BOOLEAN, NEW look, Busy(look, sql),
           NEW run, run = Ran(look, sql, shape),
           NEW h, h = [cid |-> run.cid, sql |-> sql, raw |-> FALSE],
           NEW r, r = Recorded(Sent(look.k), look, sql, shape, TRUE, run.cid, rows)
    PROVE  Done(r, h, Live, run.srv) /\ h \in Holds /\ h.cid \notin Cids(Live)
<1> DEFINE k == Sent(look.k)
           c == run.cid
           k2 == Copying(k, look, c)
           L == Live \cup {h}
<1>1. /\ look.cid = {} /\ look.copy = TRUE /\ look.k = conn /\ sql \in Queries
  BY DEF Busy
<1>2. Books(conn) /\ Len(conn.cache) <= CacheSize /\ CoreOf(conn, Live, srv, foreign, orphans)
  BY TypesParts
<1>3. ParsedFor(run, look.k, sql, shape)
  BY <1>1, <1>2, MissRuns
<1>4. /\ Books(k) /\ k.cache = conn.cache /\ c \in Ids /\ c \notin foreign
      /\ run.srv[c].sql = sql /\ CoreOf(k, Live, run.srv, foreign \cup {c}, orphans)
  <2>1. k.cache = conn.cache
    BY <1>1, <1>2, SentFacts
  <2> QED
    BY <1>3, <2>1 DEF ParsedFor
<1> HIDE DEF k
<1>5. Noted(r, k2, sql, c, rows)
  <2>1. look.copy \/ ~TRUE
    BY <1>1
  <2>2. Noted(Recorded(k, look, sql, shape, TRUE, c, rows), k2, sql, c, rows)
    BY <1>4, <2>1, RecordedFacts
  <2> QED
    BY <2>2 DEF k
<1>6. /\ k2.cache = k.cache /\ k2.toClose = k.toClose /\ k2.inUse = k.inUse
      /\ k2.copied = k.copied \cup {c} /\ k2.columns = k.columns /\ k2.lob = k.lob
  <2>1. k = [cache |-> k.cache, inUse |-> k.inUse, copied |-> k.copied,
             toClose |-> k.toClose, columns |-> k.columns, lob |-> k.lob]
    BY <1>4 DEF Books
  <2>2. k2 = [k EXCEPT !.copied = k.copied \cup {c}]
    BY <1>1 DEF Copying
  <2> HIDE DEF k2
  <2> QED
    BY <2>1, <2>2
<1> HIDE DEF k2, c
<1>7. h.cid = c /\ h.sql = sql /\ h.raw = FALSE
  BY DEF c
<1>8. Core(ToSet(k.cache), ToSet(k.toClose), k.inUse \cup {h.cid}, k.copied \cup {h.cid},
           k.columns, k.lob, L, run.srv, (foreign \cup {c}) \ {h.cid}, orphans)
  <2>1. Core(ToSet(k.cache), ToSet(k.toClose), k.inUse, k.copied, k.columns, k.lob,
             Live, run.srv, foreign \cup {c}, orphans)
    BY <1>4 DEF CoreOf
  <2>2. /\ h.cid \in foreign \cup {c} /\ run.srv[h.cid].sql = h.sql
        /\ h.raw = FALSE /\ h.sql \in Queries
    BY <1>1, <1>4, <1>7
  <2> QED
    BY <2>1, <2>2, CoreCopies, Zenon
<1>9. run.srv[c].sql = sql /\ (foreign \cup {c}) \ {h.cid} = foreign
  BY <1>4, <1>7
<1>10. c \in Cids(ToSet(k.cache)) \cup Cids(L)
  BY <1>7 DEF Cids
<1> HIDE DEF L
<1>11. Core(ToSet(k.cache), ToSet(k.toClose), k.inUse \cup {h.cid}, k.copied \cup {h.cid},
            Described(k.columns, c, sql), Prefetched(k.lob, c, sql, rows), L, run.srv, foreign, orphans)
  <2>1. Core(ToSet(k.cache), ToSet(k.toClose), k.inUse \cup {h.cid}, k.copied \cup {h.cid},
             k.columns, k.lob, L, run.srv, foreign, orphans)
    BY <1>8, <1>9
  <2> QED
    BY <2>1, <1>9, <1>10, CoreNotes, Zenon
<1>12. /\ r.cache = k.cache /\ r.toClose = k.toClose /\ r.inUse = k.inUse \cup {h.cid}
       /\ r.copied = k.copied \cup {h.cid}
       /\ r.columns = Described(k.columns, c, sql)
       /\ r.lob = Prefetched(k.lob, c, sql, rows)
  BY <1>1, <1>5, <1>6, <1>7 DEF Noted, Using
<1>13. CoreOf(r, L, run.srv, foreign, orphans)
  BY <1>11, <1>12 DEF CoreOf
<1>14. Books(r) /\ Len(r.cache) <= CacheSize
  BY <1>2, <1>4, <1>5, <1>12 DEF Noted
<1>15. ServerTypes(run.srv) /\ c \notin Cids(Live)
  BY <1>3 DEF ParsedFor, c
<1>16. h \in Holds
  BY <1>4 DEF Holds, c
<1>17. Done(r, h, Live, run.srv)
  BY <1>1, <1>7, <1>13, <1>14, <1>15 DEF Done, L
<1> QED
  BY <1>7, <1>15, <1>16, <1>17

\* Metadata noted for a cursor that is held outside the cache.
LEMMA RawNotes ==
    ASSUME NEW k, NEW c, NEW sql, NEW rows \in BOOLEAN, NEW L, NEW s, NEW f, NEW lost,
           Core(ToSet(k.cache), ToSet(k.toClose), Using(k.inUse, c, sql), k.copied,
                k.columns, k.lob, L, s, f, lost),
           c \in Cids(L), s[c].sql = sql, NEW r, Noted(r, k, sql, c, rows)
    PROVE  CoreOf(r, L, s, f, lost)
<1>1. c \in Cids(ToSet(k.cache)) \cup Cids(L)
  OBVIOUS
<1>2. Core(ToSet(k.cache), ToSet(k.toClose), Using(k.inUse, c, sql), k.copied,
           Described(k.columns, c, sql), Prefetched(k.lob, c, sql, rows), L, s, f, lost)
  BY <1>1, CoreNotes, Zenon
<1>3. /\ r.cache = k.cache /\ r.toClose = k.toClose /\ r.copied = k.copied
      /\ r.inUse = Using(k.inUse, c, sql) /\ r.columns = Described(k.columns, c, sql)
      /\ r.lob = Prefetched(k.lob, c, sql, rows)
  BY DEF Noted
<1> QED
  BY <1>2, <1>3 DEF CoreOf

\* a cursor executed without the cache
LEMMA RawDone ==
    ASSUME CursorInv, execs < MaxExecs, NEW sql \in Sqls, NEW shape \in Shapes,
           NEW rows \in BOOLEAN, NEW look,
           Miss(look, sql) \/ \E e : Hit(look, e, sql, shape, FALSE),
           NEW run, run = Ran(look, sql, shape),
           NEW h, h = [cid |-> run.cid, sql |-> sql, raw |-> TRUE],
           NEW r, r = Recorded(Sent(look.k), look, sql, shape, FALSE, run.cid, rows)
    PROVE  Done(r, h, Live, run.srv) /\ h \in Holds /\ h.cid \notin Cids(Live)
<1> DEFINE k == Sent(look.k)
           c == run.cid
           L == Live \cup {h}
<1>1. /\ Books(conn) /\ Len(conn.cache) <= CacheSize
  BY TypesParts
<1>2. look.copy = FALSE /\ Books(look.k) /\ ToSet(look.k.cache) \subseteq ToSet(conn.cache)
  <2>1. CASE Miss(look, sql)
    BY <2>1 DEF Miss, NotSql
  <2>2. CASE \E e : Hit(look, e, sql, shape, FALSE)
    BY <2>2 DEF Hit
  <2> QED
    BY <2>1, <2>2
<1>3. /\ Books(k) /\ k.cache = look.k.cache /\ k.inUse = look.k.inUse
      /\ k.copied = look.k.copied /\ ToSet(k.toClose) = {}
      /\ k.columns = look.k.columns /\ k.lob = look.k.lob
  BY <1>2, SentFacts
<1> HIDE DEF k
<1>4. h.cid = c /\ h.sql = sql /\ h.raw = TRUE
  OBVIOUS
<1> HIDE DEF L
<1>5. /\ Core(ToSet(k.cache), ToSet(k.toClose), Using(k.inUse, h.cid, h.sql), k.copied,
              k.columns, k.lob, L, run.srv, foreign, orphans)
      /\ ServerTypes(run.srv) /\ run.srv[c].sql = sql /\ c \in Ids /\ c \notin Cids(Live)
  <2>1. CASE Miss(look, sql)
    <3>1. ParsedFor(run, look.k, sql, shape)
      BY <2>1, MissRuns DEF Miss
    <3>2. /\ c \in Ids /\ c \notin foreign /\ c \notin Cids(Live) /\ ServerTypes(run.srv)
          /\ run.srv[c].sql = sql /\ CoreOf(k, Live, run.srv, foreign \cup {c}, orphans)
      BY <3>1 DEF ParsedFor, k
    <3> HIDE DEF c
    <3>3. Core(ToSet(k.cache), ToSet(k.toClose), k.inUse, k.copied, k.columns, k.lob,
               Live, run.srv, foreign \cup {c}, orphans)
      BY <3>2 DEF CoreOf
    <3>4. h.cid \in foreign \cup {c} /\ run.srv[h.cid].sql = h.sql /\ h.raw = TRUE
      BY <1>4, <3>2
    <3>5. Core(ToSet(k.cache), ToSet(k.toClose), Using(k.inUse, h.cid, h.sql), k.copied,
               k.columns, k.lob, Live \cup {h}, run.srv, (foreign \cup {c}) \ {h.cid}, orphans)
      BY <3>3, <3>4, CoreOpens, Zenon
    <3>6. (foreign \cup {c}) \ {h.cid} = foreign
      BY <1>4, <3>2
    <3> QED
      BY <3>2, <3>5, <3>6 DEF L, c
  <2>2. CASE \E e : Hit(look, e, sql, shape, FALSE)
    <3>1. PICK e : Hit(look, e, sql, shape, FALSE)
      BY <2>2
    <3>2. /\ run.cid = e.cid /\ ServerTypes(run.srv)
          /\ Core(ToSet(conn.cache), {}, conn.inUse, conn.copied, conn.columns, conn.lob,
                  Live, run.srv, foreign, orphans)
      <4>1. RanOn(run, look.k, e)
        BY <3>1, HitRuns
      <4> QED
        BY <4>1 DEF RanOn
    <3>3. /\ e \in ToSet(conn.cache) /\ e \in Entries /\ e.sql = sql /\ e.cid \notin Cids(Live)
          /\ ToSet(look.k.cache) = ToSet(conn.cache) \ {e}
          /\ look.k.inUse = conn.inUse /\ look.k.copied = conn.copied
          /\ look.k.columns = conn.columns /\ look.k.lob = conn.lob
      BY <3>1 DEF Hit
    <3>4. h.cid = e.cid /\ h.sql = e.sql /\ h.raw = TRUE
      BY <1>4, <3>2, <3>3
    <3>5. Core(ToSet(conn.cache) \ {e}, {}, Using(conn.inUse, e.cid, e.sql), conn.copied,
               conn.columns, conn.lob, Live \cup {h}, run.srv, foreign, orphans)
      BY <3>2, <3>3, <3>4, CoreTakes, Zenon
    <3>6. Core(ToSet(k.cache), ToSet(k.toClose), Using(k.inUse, h.cid, h.sql), k.copied,
               k.columns, k.lob, L, run.srv, foreign, orphans)
      BY <1>3, <3>3, <3>4, <3>5 DEF L
    <3>7. run.srv[e.cid] = Parse(e)
      BY <3>2, <3>3 DEF Core, EntriesTrue
    <3>8. run.srv[e.cid].sql = sql
      BY <3>3, <3>7 DEF Parse
    <3>9. e.cid \in Ids
      BY <3>3 DEF Entries
    <3> QED
      BY <3>2, <3>3, <3>6, <3>8, <3>9
  <2> QED
    BY <2>1, <2>2
<1>6. Noted(r, k, sql, c, rows)
  <2>1. look.copy \/ ~FALSE
    BY <1>2
  <2>2. Noted(Recorded(k, look, sql, shape, FALSE, c, rows), Copying(k, look, c), sql, c, rows)
    BY <1>3, <1>5, <2>1, RecordedFacts
  <2>3. Copying(k, look, c) = k
    BY <1>2 DEF Copying
  <2> QED
    BY <2>2, <2>3 DEF k
<1> HIDE DEF c
<1>7. c \in Cids(L)
  BY <1>4 DEF Cids, L
<1>8. CoreOf(r, L, run.srv, foreign, orphans)
  <2>1. Core(ToSet(k.cache), ToSet(k.toClose), Using(k.inUse, c, sql), k.copied,
             k.columns, k.lob, L, run.srv, foreign, orphans)
    BY <1>4, <1>5
  <2>2. run.srv[c].sql = sql
    BY <1>5
  <2> QED
    BY <1>6, <1>7, <2>1, <2>2, RawNotes, Zenon
<1>9. Books(r) /\ r.cache = k.cache
  BY <1>6 DEF Noted
<1>10. Len(r.cache) <= CacheSize
  <2>1. Len(k.cache) <= Len(conn.cache)
    BY <1>1, <1>2, <1>3, SubsetLen DEF Books
  <2>2. Len(k.cache) \in Nat /\ Len(conn.cache) \in Nat /\ CacheSize \in Nat
    BY <1>1, <1>3, CursorAssumption DEF Books
  <2>3. Len(k.cache) <= CacheSize
    BY <1>1, <2>1, <2>2
  <2> QED
    BY <1>9, <2>3
<1>11. h \in Holds
  BY <1>5 DEF Holds, c
<1>12. Done(r, h, Live, run.srv)
  BY <1>4, <1>5, <1>8, <1>9, <1>10 DEF Done, L
<1> QED
  BY <1>4, <1>5, <1>11, <1>12

\* the response writes the entry e of the cursor it came from
Wrote(k, run, e, sql, B) ==
    /\ Core(NotSql(ToSet(k.cache), sql) \cup {e}, {}, k.inUse, k.copied, k.columns,
            B, Live, run.srv, foreign, orphans)
    /\ ServerTypes(run.srv) /\ run.cid \in Ids /\ run.cid \notin Cids(Live)
    /\ run.srv[run.cid].sql = sql
    /\ \A g \in ToSet(k.cache) : g.sql = sql <=> g.cid = run.cid
    /\ ToSet(k.cache) \subseteq ToSet(conn.cache)

\* The entry written after an execute names the cursor it ran on, with the
\* family that cursor was parsed with.
LEMMA EntryWritten ==
    ASSUME CursorInv, execs < MaxExecs, NEW sql \in Sqls, NEW shape \in Shapes, NEW look,
           Miss(look, sql) \/ \E e : Hit(look, e, sql, shape, TRUE),
           NEW run, run = Ran(look, sql, shape),
           NEW k, Books(k), k.cache = look.k.cache, ToSet(k.toClose) = {},
           k.inUse = look.k.inUse, k.copied = look.k.copied, k.columns = look.k.columns,
           NEW B, B = look.k.lob
    PROVE  Wrote(k, run, Written(k, sql, run.cid, shape), sql, B)
<1> DEFINE c == run.cid
           w == Written(k, sql, c, shape)
           E == ToSet(k.cache)
<1>1. w.sql = sql /\ w.cid = c
  BY DEF Written
<1>2. /\ Cached(k, sql) = {} => \A g \in E : g.sql # sql
      /\ Cached(k, sql) # {} => /\ Entry(k, sql) \in E /\ Entry(k, sql).sql = sql
                                /\ \A g \in E : g.sql = sql => g = Entry(k, sql)
  BY EntryFacts
<1>3. CASE Miss(look, sql)
  <2>1. ParsedFor(run, look.k, sql, shape)
    BY <1>3, MissRuns DEF Miss
  <2>2. E = NotSql(ToSet(conn.cache), sql)
    BY <1>3 DEF Miss
  <2>3. /\ c \in Ids /\ c \notin foreign /\ c \notin Cids(Live) /\ c \notin Cids(E)
        /\ run.srv[c] = [sql |-> sql, family |-> Family(shape)]
        /\ ServerTypes(run.srv) /\ CoreOf(Sent(look.k), Live, run.srv, foreign \cup {c}, orphans)
    BY <2>1 DEF ParsedFor
  <2>4. Core(E, {}, k.inUse, k.copied, k.columns, B, Live, run.srv, foreign \cup {c}, orphans)
    <3>1. Books(look.k)
      BY <1>3 DEF Miss
    <3> DEFINE j == Sent(look.k)
    <3>2. /\ j.cache = look.k.cache /\ j.inUse = look.k.inUse /\ j.copied = look.k.copied
          /\ ToSet(j.toClose) = {} /\ j.columns = look.k.columns /\ j.lob = look.k.lob
      BY <3>1, SentFacts
    <3>3. CoreOf(j, Live, run.srv, foreign \cup {c}, orphans)
      BY <2>3
    <3> HIDE DEF j, c
    <3> QED
      BY <3>2, <3>3 DEF CoreOf
  <2>5. \A g \in E : g.sql # sql /\ g.cid # c
    BY <2>2, <2>3 DEF NotSql, Cids
  <2>6. w.shape = shape
    BY <1>2, <2>5 DEF Written
  <2> HIDE DEF w, c, E
  <2>7. run.srv[w.cid] = Parse(w)
    BY <1>1, <2>3, <2>6 DEF Parse
  <2>8. w.cid \in foreign \cup {c} /\ \A g \in E : g.sql # w.sql
    BY <1>1, <2>5
  <2>9. Core(E \cup {w}, {}, k.inUse, k.copied, k.columns, B, Live, run.srv,
             (foreign \cup {c}) \ {w.cid}, orphans)
    BY <2>4, <2>7, <2>8, CoreCaches, Zenon
  <2>10. (foreign \cup {c}) \ {w.cid} = foreign
    BY <1>1, <2>3
  <2>11. NotSql(E, sql) = E /\ E \subseteq ToSet(conn.cache)
    BY <2>2, <2>5 DEF NotSql
  <2>12. Core(NotSql(E, sql) \cup {w}, {}, k.inUse, k.copied, k.columns, B, Live, run.srv, foreign, orphans)
    BY <2>9, <2>10, <2>11
  <2>13. run.srv[c].sql = sql
    BY <2>3
  <2> QED
    BY <2>3, <2>5, <2>11, <2>12, <2>13 DEF w, c, E, Wrote
<1>4. CASE \E e : Hit(look, e, sql, shape, TRUE)
  <2>1. PICK e : Hit(look, e, sql, shape, TRUE)
    BY <1>4
  <2>2. /\ c = e.cid /\ ServerTypes(run.srv)
        /\ Core(ToSet(conn.cache), {}, conn.inUse, conn.copied, conn.columns, conn.lob,
                Live, run.srv, foreign, orphans)
    <3>1. RanOn(run, look.k, e)
      BY <2>1, HitRuns
    <3> QED
      BY <3>1 DEF RanOn
  <2>3. /\ e \in E /\ e \in Entries /\ e.sql = sql /\ e.cid \notin Cids(Live)
        /\ E = ToSet(conn.cache) /\ Compatible(e.shape, shape)
        /\ look.k.inUse = conn.inUse /\ look.k.copied = conn.copied
        /\ look.k.columns = conn.columns /\ look.k.lob = conn.lob
    BY <2>1 DEF Hit
  <2>4. Core(E, {}, k.inUse, k.copied, k.columns, B, Live, run.srv, foreign, orphans)
    BY <2>2, <2>3
  <2>5. \A g \in E : g.sql = sql \/ g.cid = c => g = e
    BY <2>2, <2>3, <2>4 DEF Core, EntriesTrue
  <2>6. Entry(k, sql) = e /\ Cached(k, sql) # {}
    BY <1>2, <2>3
  <2>7. w.shape = Inherited(e.shape, shape)
    BY <2>2, <2>6 DEF Written
  <2> HIDE DEF w, c, E
  <2>8. Parse(w) = Parse(e)
    <3>1. Family(w.shape) = Family(e.shape)
      BY <2>3, <2>7 DEF Inherited, Compatible, Family
    <3> QED
      BY <1>1, <2>3, <3>1 DEF Parse
  <2>9. w.sql = e.sql /\ w.cid = e.cid
    BY <1>1, <2>2, <2>3
  <2>10. Core((E \ {e}) \cup {w}, {}, k.inUse, k.copied, k.columns, B, Live, run.srv, foreign, orphans)
    BY <2>3, <2>4, <2>8, <2>9, CoreRewrites, Zenon
  <2>11. NotSql(E, sql) = E \ {e}
    BY <2>3, <2>5 DEF NotSql
  <2>12. Core(NotSql(E, sql) \cup {w}, {}, k.inUse, k.copied, k.columns, B, Live, run.srv, foreign, orphans)
    BY <2>10, <2>11
  <2>13. run.srv[e.cid] = Parse(e)
    BY <2>3, <2>4 DEF Core, EntriesTrue
  <2>14. run.srv[c].sql = sql
    BY <2>2, <2>3, <2>13 DEF Parse
  <2>15. c \in Ids
    BY <2>2, <2>3 DEF Entries
  <2>16. \A g \in E : g.sql = sql <=> g.cid = c
    BY <2>2, <2>3, <2>5
  <2> QED
    BY <2>2, <2>3, <2>12, <2>14, <2>15, <2>16 DEF w, c, E, Wrote
<1> QED
  BY <1>3, <1>4

\* A successful execute through the cache, from the lookup to the books.
LEMMA CachedDone ==
    ASSUME CursorInv, execs < MaxExecs, CacheSize # 0, NEW sql \in Sqls, ~Crowded(sql),
           NEW shape \in Shapes, NEW rows \in BOOLEAN, NEW look,
           Miss(look, sql) \/ \E e : Hit(look, e, sql, shape, TRUE),
           NEW run, run = Ran(look, sql, shape),
           NEW h, h = [cid |-> run.cid, sql |-> sql, raw |-> FALSE],
           NEW r, r = Recorded(Sent(look.k), look, sql, shape, TRUE, run.cid, rows)
    PROVE  Done(r, h, Live, run.srv) /\ h \in Holds /\ h.cid \notin Cids(Live)
<1> DEFINE k == Sent(look.k)
           c == run.cid
           lob == [k EXCEPT !.lob = Prefetched(k.lob, c, sql, rows)]
           kept == CachePut(lob, sql, c, shape)
           w == Written(lob, sql, c, shape)
           E == NotSql(ToSet(lob.cache), sql) \cup {w}
<1>1. look.copy = FALSE /\ Books(look.k)
  BY DEF Miss, Hit
<1>2. /\ Books(k) /\ k.cache = look.k.cache /\ k.inUse = look.k.inUse
      /\ k.copied = look.k.copied /\ ToSet(k.toClose) = {}
      /\ k.columns = look.k.columns /\ k.lob = look.k.lob
  BY <1>1, SentFacts
<1>3. c \in Ids
  <2>1. CASE Miss(look, sql)
    <3>1. ParsedFor(run, look.k, sql, shape)
      BY <2>1, MissRuns DEF Miss
    <3> QED
      BY <3>1 DEF ParsedFor
  <2>2. CASE \E e : Hit(look, e, sql, shape, TRUE)
    <3>1. PICK e : Hit(look, e, sql, shape, TRUE)
      BY <2>2
    <3>2. RanOn(run, look.k, e) /\ e \in Entries
      BY <3>1, HitRuns DEF Hit
    <3> QED
      BY <3>2 DEF RanOn, Entries
  <2> QED
    BY <2>1, <2>2
<1>4. r = IF sql \notin Queries THEN kept
          ELSE [kept EXCEPT !.inUse = kept.inUse \cup {c}, !.columns = Insert(kept.columns, c, sql)]
  BY <1>1 DEF Recorded, Prefetched
<1> HIDE DEF k
<1>5. Marked(lob, k, sql, c, rows)
  BY <1>2, <1>3, MarkFacts
<1> HIDE DEF lob
<1>6. /\ Books(lob) /\ lob.cache = look.k.cache /\ ToSet(lob.toClose) = {}
      /\ lob.inUse = look.k.inUse /\ lob.copied = look.k.copied
      /\ lob.columns = look.k.columns /\ lob.lob = Prefetched(look.k.lob, c, sql, rows)
  BY <1>2, <1>5 DEF Marked
<1>7. Wrote(lob, run, w, sql, look.k.lob)
  BY <1>6, EntryWritten
<1> HIDE DEF c, w, kept
<1>8. /\ ServerTypes(run.srv) /\ c \notin Cids(Live) /\ run.srv[c].sql = sql
      /\ \A g \in ToSet(lob.cache) : g.sql = sql <=> g.cid = c
      /\ ToSet(lob.cache) \subseteq ToSet(conn.cache)
      /\ Core(E, {}, lob.inUse, lob.copied, lob.columns, look.k.lob, Live, run.srv, foreign, orphans)
  BY <1>7 DEF Wrote, c
<1>9. w.cid = c /\ w.sql = sql
  BY DEF w, Written
<1>10. Core(E, {}, lob.inUse, lob.copied, lob.columns, lob.lob, Live, run.srv, foreign, orphans)
  <2>1. c \in Cids(E) \cup Cids(Live)
    BY <1>9 DEF Cids
  <2> HIDE DEF E
  <2>2. CASE sql \in Lobs /\ rows
    <3>1. run.srv[c].sql \in Lobs
      BY <1>8, <2>2
    <3>2. Core(E, {}, lob.inUse, lob.copied, lob.columns, look.k.lob \cup {c}, Live, run.srv, foreign, orphans)
      BY <1>8, <2>1, <3>1, CoreMarks, Zenon
    <3>3. lob.lob = look.k.lob \cup {c}
      BY <1>6, <2>2 DEF Prefetched
    <3> QED
      BY <3>2, <3>3
  <2>3. CASE ~(sql \in Lobs /\ rows)
    <3>1. lob.lob = look.k.lob
      BY <1>6, <2>3 DEF Prefetched
    <3> QED
      BY <1>8, <3>1
  <2> QED
    BY <2>2, <2>3
<1>11. /\ Books(kept) /\ Len(kept.cache) <= CacheSize /\ CoreOf(kept, Live, run.srv, foreign, orphans)
       /\ w \in ToSet(kept.cache)
  <2>1. Core(NotSql(ToSet(lob.cache), sql) \cup {w}, ToSet(lob.toClose), lob.inUse,
             lob.copied, lob.columns, lob.lob, Live, run.srv, foreign, orphans)
    BY <1>6, <1>10
  <2>2. /\ kept = CachePut(lob, sql, c, shape) /\ w = Written(lob, sql, c, shape)
        /\ Books(lob) /\ ToSet(lob.cache) \subseteq ToSet(conn.cache)
        /\ \A g \in ToSet(lob.cache) : g.sql = sql <=> g.cid = c
    BY <1>6, <1>8 DEF w, kept
  <2> QED
    BY <1>3, <2>1, <2>2, PutCore, Zenon
<1>12. h \in Holds /\ h.cid = c /\ h.sql = sql /\ h.raw = FALSE
  BY <1>3 DEF Holds, c
<1>13. CASE sql \notin Queries
  <2>1. r = kept
    BY <1>4, <1>13
  <2> QED
    BY <1>8, <1>11, <1>12, <1>13, <2>1 DEF Done
<1>14. CASE sql \in Queries
  <2>1. r = [kept EXCEPT !.inUse = kept.inUse \cup {c}, !.columns = Insert(kept.columns, c, sql)]
    BY <1>4, <1>14
  <2>2. BeingRead(r, kept, sql, c)
    <3>1. BeingRead([kept EXCEPT !.inUse = kept.inUse \cup {c},
                                 !.columns = Insert(kept.columns, c, sql)], kept, sql, c)
      BY <1>3, <1>11, <1>14, ReadFacts, Zenon
    <3> QED
      BY <2>1, <3>1, Zenon
  <2> DEFINE K == ToSet(kept.cache)
             L == Live \cup {h}
  <2>3. Core(K, ToSet(kept.toClose), kept.inUse \cup {w.cid}, kept.copied, kept.columns,
             kept.lob, L, run.srv, foreign, orphans)
    <3>1. Core(K, ToSet(kept.toClose), kept.inUse, kept.copied, kept.columns,
               kept.lob, Live, run.srv, foreign, orphans)
      BY <1>11 DEF CoreOf
    <3>2. w \in K /\ w.cid \notin Cids(Live) /\ h.cid = w.cid /\ h.sql = w.sql
          /\ h.raw = FALSE /\ w.sql \in Queries
      BY <1>8, <1>9, <1>11, <1>12, <1>14
    <3> QED
      BY <3>1, <3>2, CoreLends, Zenon
  <2>4. c \in Cids(K) \cup Cids(L)
    BY <1>12 DEF Cids
  <2> HIDE DEF K, L
  <2> DEFINE M == Insert(kept.columns, c, sql)
  <2>5. /\ DOMAIN M = DOMAIN kept.columns \cup {c} /\ M[c] = run.srv[c].sql
        /\ \A x \in DOMAIN kept.columns : x # c => M[x] = kept.columns[x]
    BY <1>8 DEF Insert
  <2> HIDE DEF M
  <2>6. Core(K, ToSet(kept.toClose), kept.inUse \cup {w.cid}, kept.copied, M,
             kept.lob, L, run.srv, foreign, orphans)
    BY <2>3, <2>4, <2>5, CoreDescribes, Zenon
  <2>7. /\ r.cache = kept.cache /\ r.toClose = kept.toClose /\ r.copied = kept.copied
        /\ r.inUse = kept.inUse \cup {w.cid} /\ r.columns = M /\ r.lob = kept.lob
        /\ Books(r)
    BY <1>9, <2>2 DEF BeingRead, M
  <2>8. CoreOf(r, L, run.srv, foreign, orphans)
    BY <2>6, <2>7 DEF CoreOf, K
  <2>9. Len(r.cache) <= CacheSize
    BY <1>11, <2>7
  <2> QED
    BY <1>8, <1>12, <1>14, <2>7, <2>8, <2>9 DEF Done, L
<1> QED
  BY <1>13, <1>14

-----------------------------------------------------------------------------
(* The actions *)

\* the callers keep to what the connection can serve: README section 6 says what
\* happens otherwise
Restrained ==
    Usage \cap {"takebusy", "crowd", "copyfail", "bindcopy"} = {} /\ CacheSize # 0

\* What a restrained caller's execute may assume.
LEMMA CanExecuteFacts ==
    ASSUME CursorInv, Restrained, NEW o \in Owners, NEW sql, NEW caching,
           CanExecute(o, sql, caching)
    PROVE  /\ execs < MaxExecs /\ execs' = execs + 1 /\ execs' \in 0..MaxExecs
           /\ held[o] = {} /\ (caching \/ ~InUse(conn, sql)) /\ ~Crowded(sql)
<1>1. execs \in 0..MaxExecs /\ MaxExecs \in Nat
  BY TypesParts, CursorAssumption
<1>2. execs < MaxExecs /\ execs' = execs + 1 /\ held[o] = {}
  BY DEF CanExecute
<1>3. ~Allowed("takebusy") /\ ~Allowed("crowd")
  BY DEF Restrained, Allowed
<1>4. (caching \/ ~InUse(conn, sql)) /\ ~Crowded(sql)
  BY <1>3 DEF CanExecute
<1>5. execs' \in 0..MaxExecs
  BY <1>1, <1>2
<1> QED
  BY <1>2, <1>4, <1>5

\* The server after a step of an execute is well formed.
LEMMA ServerTypesNext ==
    ASSUME NEW s, ServerTypes(s), srv' = s, execs' = execs + 1
    PROVE  /\ Table(srv, Parses)' /\ IsFiniteSet(DOMAIN srv)'
           /\ (Cardinality(DOMAIN srv) <= execs)'
BY DEF ServerTypes

\* The bind shapes of a run are bind shapes.
LEMMA ShapeTypes == \A sql \in Sqls : BindShapes(sql) \subseteq Shapes
BY DEF BindShapes, Shapes

\* A successful execute keeps the invariant.
LEMMA ExecuteOkInv ==
    ASSUME CursorInv, Restrained, NEW o \in Owners, NEW sql \in Sqls, NEW shape \in Shapes,
           NEW caching \in BOOLEAN, NEW rows \in BOOLEAN,
           ExecuteOk(o, sql, shape, caching, rows)
    PROVE  CursorInv'
<1> DEFINE look == Lookup(sql, shape, caching)
           run == Ran(look, sql, shape)
           h == [cid |-> run.cid, sql |-> sql, raw |-> ~caching]
           r == Recorded(Sent(look.k), look, sql, shape, caching, run.cid, rows)
<1>1. /\ execs < MaxExecs /\ execs' = execs + 1 /\ execs' \in 0..MaxExecs
      /\ held[o] = {} /\ (caching \/ ~InUse(conn, sql)) /\ ~Crowded(sql)
  <2>1. CanExecute(o, sql, caching)
    BY DEF ExecuteOk
  <2> QED
    BY <2>1, CanExecuteFacts
<1>2. /\ srv' = run.srv /\ conn' = r /\ foreign' = foreign /\ orphans' = orphans
      /\ held' = [held EXCEPT ![o] = IF sql \in Queries \/ ~caching THEN {h} ELSE {}]
  BY DEF ExecuteOk
<1>3. \/ caching /\ Busy(look, sql)
      \/ Miss(look, sql)
      \/ \E e : Hit(look, e, sql, shape, caching)
  BY <1>1, LookFacts
<1> HIDE DEF look
<1>4. Done(r, h, Live, run.srv) /\ h \in Holds /\ h.cid \notin Cids(Live)
  <2>1. CASE caching
    <3>1. caching = TRUE /\ (~caching) = FALSE
      BY <2>1
    <3>2. h = [cid |-> run.cid, sql |-> sql, raw |-> FALSE]
      BY <3>1
    <3>3. r = Recorded(Sent(look.k), look, sql, shape, TRUE, run.cid, rows)
      BY <3>1
    <3> HIDE DEF h, r
    <3>4. CASE Busy(look, sql)
      BY <1>1, <3>2, <3>3, <3>4, CopyDone
    <3>5. CASE Miss(look, sql) \/ \E e : Hit(look, e, sql, shape, TRUE)
      BY <1>1, <3>2, <3>3, <3>5, CachedDone DEF Restrained
    <3> QED
      BY <1>3, <3>1, <3>4, <3>5
  <2>2. CASE ~caching
    <3>1. caching = FALSE /\ (~caching) = TRUE
      BY <2>2
    <3>2. h = [cid |-> run.cid, sql |-> sql, raw |-> TRUE]
      BY <3>1
    <3>3. r = Recorded(Sent(look.k), look, sql, shape, FALSE, run.cid, rows)
      BY <3>1
    <3> HIDE DEF h, r
    <3>4. Miss(look, sql) \/ \E e : Hit(look, e, sql, shape, FALSE)
      BY <1>3, <3>1
    <3> QED
      BY <1>1, <3>2, <3>3, <3>4, RawDone
  <2> QED
    BY <2>1, <2>2
<1>5. h.sql = sql /\ h.raw = ~caching
  OBVIOUS
<1> HIDE DEF h, r, run
<1>6. HeldTypes /\ CursorExclusive
  BY TypesParts
<1>7. /\ HeldTypes' /\ CursorExclusive'
      /\ Live' = IF h.sql \in Queries \/ h.raw THEN Live \cup {h} ELSE Live
  <2>1. CASE sql \in Queries \/ ~caching
    <3>1. held' = [held EXCEPT ![o] = {h}]
      BY <1>2, <2>1
    <3>2. Live' = Live \cup {h} /\ HeldTypes' /\ CursorExclusive'
      BY <1>1, <1>4, <1>6, <3>1, OwnerGets
    <3> QED
      BY <1>5, <2>1, <3>2
  <2>2. CASE ~(sql \in Queries \/ ~caching)
    <3>1. held' = held
      BY <1>1, <1>2, <1>6, <2>2 DEF HeldTypes
    <3>2. Live' = Live /\ HeldTypes' /\ CursorExclusive'
      BY <1>6, <3>1 DEF Live, HeldTypes, CursorExclusive
    <3> QED
      BY <1>5, <2>2, <3>2
  <2> QED
    BY <2>1, <2>2
<1>8. Table(srv, Parses)' /\ IsFiniteSet(DOMAIN srv)' /\ (Cardinality(DOMAIN srv) <= execs)'
  BY <1>1, <1>2, <1>4, ServerTypesNext DEF Done
<1>9. Books(conn)' /\ (Len(conn.cache) <= CacheSize)'
  BY <1>2, <1>4 DEF Done
<1>10. CoreOf(conn', Live', srv', foreign', orphans')
  BY <1>2, <1>4, <1>7 DEF Done
<1> QED
  BY <1>1, <1>7, <1>8, <1>9, <1>10, InvAgain

\* forgetting metadata never hurts
LEMMA CoreForgets ==
    ASSUME NEW E, NEW T, NEW U, NEW C, NEW M, NEW B, NEW L, NEW s, NEW f, NEW lost,
           Core(E, T, U, C, M, B, L, s, f, lost), NEW M2, NEW X, Forgets(M2, M, X)
    PROVE  Core(E, T, U, C, M2, B \ X, L, s, f, lost)
BY DEF Core, MetadataTrue, Forgets

\* the failed statement left no trace but a queued cursor
Failed(k, c, sql, s) ==
    /\ Books(k) /\ ToSet(k.cache) \subseteq ToSet(conn.cache)
    /\ CoreOf(k, Live, s, foreign, orphans) /\ ServerTypes(s) /\ c \in Ids
    /\ c \in ToSet(k.toClose) /\ c \notin k.inUse /\ c \notin k.copied
    /\ \A g \in ToSet(k.cache) : g.sql # sql

\* A failed execute on a cursor parsed for it.
LEMMA MissFails ==
    ASSUME CursorInv, execs < MaxExecs, NEW sql \in Sqls, NEW shape \in Shapes, NEW look,
           Miss(look, sql), NEW run, run = Ran(look, sql, shape)
    PROVE  Failed(CloseCursor(Sent(look.k), run.cid), run.cid, sql, run.srv)
<1> DEFINE k == Sent(look.k)
           c == run.cid
           r == CloseCursor(k, c)
           E == ToSet(k.cache)
<1>1. ParsedFor(run, look.k, sql, shape)
  BY MissRuns DEF Miss
<1>2. E = NotSql(ToSet(conn.cache), sql)
  BY <1>1 DEF Miss, ParsedFor
<1>3. /\ c \in Ids /\ c \notin foreign /\ c \notin Cids(Live) /\ c \notin Cids(E)
      /\ ServerTypes(run.srv) /\ Books(k) /\ CoreOf(k, Live, run.srv, foreign \cup {c}, orphans)
  BY <1>1 DEF ParsedFor
<1>4. Closed(r, k, c)
  BY <1>3, CloseFacts
<1> HIDE DEF k, c, r
<1>5. c \notin k.inUse /\ c \notin k.copied
  <2>1. UseTrue(k.inUse, Live) /\ RawApart(E, k.copied, Live)
    BY <1>3 DEF CoreOf, Core
  <2> QED
    BY <1>3, <2>1 DEF UseTrue, RawApart, Cids
<1>6. NotCid(E, c) = E
  BY <1>3 DEF NotCid, Cids
<1>7. Core(E, ToSet(k.toClose), k.inUse, k.copied, k.columns, k.lob, Live, run.srv,
           foreign \cup {c}, orphans)
  BY <1>3 DEF CoreOf
<1>8. Core(E, ToSet(k.toClose) \cup {c}, k.inUse, k.copied, k.columns, k.lob, Live, run.srv,
           (foreign \cup {c}) \ {c}, orphans)
  <2>1. c \in foreign \cup {c}
    OBVIOUS
  <2> QED
    BY <1>7, <2>1, CoreQueues, Zenon
<1>9. (foreign \cup {c}) \ {c} = foreign
  BY <1>3
<1>10. Core(E, ToSet(k.toClose) \cup {c}, k.inUse, k.copied, r.columns, k.lob \ {c},
            Live, run.srv, foreign, orphans)
  <2>1. Forgets(r.columns, k.columns, {c})
    BY <1>4 DEF Closed
  <2>2. Core(E, ToSet(k.toClose) \cup {c}, k.inUse, k.copied, k.columns, k.lob, Live, run.srv,
             foreign, orphans)
    BY <1>8, <1>9
  <2> QED
    BY <2>1, <2>2, CoreForgets, Zenon
<1>11. /\ ToSet(r.cache) = E /\ ToSet(r.toClose) = ToSet(k.toClose) \cup {c}
       /\ r.inUse = k.inUse /\ r.copied = k.copied /\ r.lob = k.lob \ {c} /\ Books(r)
  BY <1>4, <1>5, <1>6 DEF Closed
<1>12. CoreOf(r, Live, run.srv, foreign, orphans)
  BY <1>10, <1>11 DEF CoreOf
<1>13. E \subseteq ToSet(conn.cache) /\ \A g \in E : g.sql # sql
  BY <1>2 DEF NotSql
<1>14. Failed(r, c, sql, run.srv)
  BY <1>3, <1>5, <1>11, <1>12, <1>13 DEF Failed
<1> QED
  BY <1>14 DEF r, c, k

\* A failed execute on a cached cursor.
LEMMA HitFails ==
    ASSUME CursorInv, NEW sql \in Sqls, NEW shape, NEW caching \in BOOLEAN, NEW look, NEW e,
           Hit(look, e, sql, shape, caching), NEW run, run = Ran(look, sql, shape)
    PROVE  Failed(CloseCursor(Sent(look.k), run.cid), run.cid, sql, run.srv)
<1> DEFINE k == Sent(look.k)
           c == run.cid
           r == CloseCursor(k, c)
           E == ToSet(conn.cache)
<1>1. RanOn(run, look.k, e)
  BY HitRuns
<1>2. /\ e \in E /\ e \in Entries /\ e.sql = sql /\ e.cid \notin Cids(Live)
      /\ ToSet(look.k.cache) = IF caching THEN E ELSE E \ {e}
      /\ look.k.inUse = conn.inUse /\ look.k.copied = conn.copied
      /\ look.k.columns = conn.columns /\ look.k.lob = conn.lob /\ Books(look.k)
  BY DEF Hit
<1>3. /\ Books(k) /\ k.cache = look.k.cache /\ k.inUse = look.k.inUse
      /\ k.copied = look.k.copied /\ ToSet(k.toClose) = {}
      /\ k.columns = look.k.columns /\ k.lob = look.k.lob
  BY <1>2, SentFacts
<1>4. /\ c = e.cid /\ ServerTypes(run.srv)
      /\ Core(E, {}, conn.inUse, conn.copied, conn.columns, conn.lob, Live, run.srv, foreign, orphans)
  BY <1>1 DEF RanOn
<1>5. c \in Ids
  BY <1>2, <1>4 DEF Entries
<1>6. Closed(r, k, c)
  BY <1>3, <1>5, CloseFacts
<1> HIDE DEF k, c, r
<1>7. c \notin conn.inUse /\ c \notin conn.copied
  <2>1. UseTrue(conn.inUse, Live) /\ RawApart(E, conn.copied, Live)
    BY <1>4 DEF Core
  <2> QED
    BY <1>2, <1>4, <2>1 DEF UseTrue, RawApart, Cids
<1>8. \A g \in E : g.sql = sql \/ g.cid = c => g = e
  BY <1>2, <1>4 DEF Core, EntriesTrue
<1>9. ToSet(r.cache) = E \ {e}
  <2>1. ToSet(r.cache) = NotCid(ToSet(k.cache), c)
    BY <1>6 DEF Closed
  <2>2. ToSet(k.cache) = E \/ ToSet(k.cache) = E \ {e}
    BY <1>2, <1>3
  <2>3. NotCid(E, c) = E \ {e} /\ NotCid(E \ {e}, c) = E \ {e}
    BY <1>4, <1>8 DEF NotCid
  <2> QED
    BY <2>1, <2>2, <2>3
<1>10. Core(E \ {e}, {} \cup {e.cid}, conn.inUse, conn.copied, r.columns, conn.lob \ {e.cid},
            Live, run.srv, foreign, orphans)
  <2>1. Forgets(r.columns, conn.columns, {e.cid})
    BY <1>2, <1>3, <1>4, <1>6 DEF Closed
  <2> HIDE DEF E
  <2> QED
    BY <1>2, <1>4, <2>1, CoreInvalidates, Zenon
<1>11. /\ ToSet(r.toClose) = {} \cup {e.cid} /\ r.inUse = conn.inUse /\ r.copied = conn.copied
       /\ r.lob = conn.lob \ {e.cid} /\ Books(r)
  BY <1>2, <1>3, <1>4, <1>6, <1>7 DEF Closed
<1>12. CoreOf(r, Live, run.srv, foreign, orphans)
  BY <1>9, <1>10, <1>11 DEF CoreOf
<1>13. ToSet(r.cache) \subseteq E /\ \A g \in ToSet(r.cache) : g.sql # sql
  BY <1>8, <1>9
<1>14. c \in ToSet(r.toClose)
  BY <1>4, <1>11
<1>15. Failed(r, c, sql, run.srv)
  BY <1>4, <1>5, <1>7, <1>11, <1>12, <1>13, <1>14 DEF Failed
<1> QED
  BY <1>15 DEF r, c, k

\* invalidating the statement again changes nothing
LEMMA FailedAgain ==
    ASSUME NEW k, NEW c, NEW sql, NEW s, Failed(k, c, sql, s), NEW cids, cids \subseteq {c}
    PROVE  Failed(CacheInvalidate(k, sql, cids), c, sql, s)
<1> DEFINE r == CacheInvalidate(k, sql, cids)
           E == ToSet(k.cache)
<1>1. /\ Books(k) /\ c \in Ids /\ c \in ToSet(k.toClose) /\ c \notin k.inUse /\ c \notin k.copied
      /\ E \subseteq ToSet(conn.cache) /\ ServerTypes(s)
      /\ \A g \in E : g.sql # sql
      /\ Core(E, ToSet(k.toClose), k.inUse, k.copied, k.columns, k.lob, Live, s, foreign, orphans)
  BY DEF Failed, CoreOf
<1>2. \A g \in E : g.cid # c
  BY <1>1 DEF Core, EntriesTrue
<1>3. NotSql(E, sql) = E /\ NotCid(E, c) = E
  BY <1>1, <1>2 DEF NotSql, NotCid
<1>4. CASE cids = {}
  <2>1. r = [k EXCEPT !.cache = WithoutSql(k.cache, sql)]
    BY <1>4 DEF CacheInvalidate
  <2>2. Dropped(r, k, sql)
    BY <1>1, <2>1, DropSqlFacts
  <2> HIDE DEF r
  <2>3. /\ Books(r) /\ ToSet(r.cache) = E /\ r.inUse = k.inUse /\ r.copied = k.copied
        /\ r.toClose = k.toClose /\ r.columns = k.columns /\ r.lob = k.lob
    BY <1>3, <2>2 DEF Dropped
  <2>4. CoreOf(r, Live, s, foreign, orphans)
    BY <1>1, <2>3 DEF CoreOf
  <2>5. Failed(r, c, sql, s)
    BY <1>1, <2>3, <2>4 DEF Failed
  <2> QED
    BY <2>5 DEF r
<1>5. CASE cids = {c}
  <2>1. Invalidated(r, k, sql, c)
    BY <1>1, <1>5, InvalidateFacts
  <2> HIDE DEF r
  <2>2. /\ Books(r) /\ ToSet(r.cache) = E /\ r.inUse = k.inUse /\ r.copied = k.copied
        /\ ToSet(r.toClose) = ToSet(k.toClose) /\ Forgets(r.columns, k.columns, {c})
        /\ r.lob = k.lob \ {c}
    BY <1>1, <1>3, <2>1 DEF Invalidated
  <2>3. Core(E, ToSet(k.toClose), k.inUse, k.copied, r.columns, k.lob \ {c}, Live, s, foreign, orphans)
    BY <1>1, <2>2, CoreForgets, Zenon
  <2>4. CoreOf(r, Live, s, foreign, orphans)
    BY <2>2, <2>3 DEF CoreOf
  <2>5. Failed(r, c, sql, s)
    BY <1>1, <2>2, <2>4 DEF Failed
  <2> QED
    BY <2>5 DEF r
<1> QED
  BY <1>4, <1>5

\* A failed execute keeps the invariant.
LEMMA ExecuteFailsInv ==
    ASSUME CursorInv, Restrained, NEW o \in Owners, NEW sql \in Sqls, NEW shape \in Shapes,
           NEW caching \in BOOLEAN, ExecuteFails(o, sql, shape, caching)
    PROVE  CursorInv'
<1> DEFINE look == Lookup(sql, shape, caching)
           run == Ran(look, sql, shape)
           failed == CloseCursor(Sent(look.k), run.cid)
<1>1. /\ execs < MaxExecs /\ execs' = execs + 1 /\ execs' \in 0..MaxExecs
      /\ (caching \/ ~InUse(conn, sql))
  <2>1. CanExecute(o, sql, caching)
    BY DEF ExecuteFails
  <2> QED
    BY <2>1, CanExecuteFacts
<1>2. /\ srv' = run.srv /\ foreign' = foreign /\ orphans' = orphans /\ held' = held
      /\ conn' = IF caching THEN CacheInvalidate(failed, sql, look.cid) ELSE failed
  BY DEF ExecuteFails
<1>3. ~look.copy
  BY DEF ExecuteFails, Restrained, Allowed
<1>4. \/ caching /\ Busy(look, sql)
      \/ Miss(look, sql)
      \/ \E e : Hit(look, e, sql, shape, caching)
  BY <1>1, LookFacts
<1> HIDE DEF look
<1>5. Failed(failed, run.cid, sql, run.srv) /\ look.cid \subseteq {run.cid}
  <2>1. CASE Busy(look, sql)
    BY <1>3, <2>1 DEF Busy
  <2>2. CASE Miss(look, sql)
    BY <1>1, <2>2, MissFails DEF Miss
  <2>3. CASE \E e : Hit(look, e, sql, shape, caching)
    <3>1. PICK e : Hit(look, e, sql, shape, caching)
      BY <2>3
    <3>2. Failed(failed, run.cid, sql, run.srv)
      BY <3>1, HitFails
    <3>3. RanOn(run, look.k, e) /\ look.cid = {e.cid}
      BY <3>1, HitRuns DEF Hit
    <3> QED
      BY <3>2, <3>3 DEF RanOn
  <2> QED
    BY <1>4, <2>1, <2>2, <2>3
<1> HIDE DEF run, failed
<1>6. Failed(conn', run.cid, sql, srv')
  <2>1. CASE caching
    <3>1. conn' = CacheInvalidate(failed, sql, look.cid)
      BY <1>2, <2>1
    <3> QED
      BY <1>2, <1>5, <3>1, FailedAgain
  <2>2. CASE ~caching
    BY <1>2, <1>5, <2>2
  <2> QED
    BY <2>1, <2>2
<1>7. /\ Books(conn') /\ ToSet(conn'.cache) \subseteq ToSet(conn.cache)
      /\ CoreOf(conn', Live, srv', foreign, orphans) /\ ServerTypes(srv')
  BY <1>6 DEF Failed
<1>8. Len(conn'.cache) <= CacheSize
  <2>1. Books(conn) /\ Len(conn.cache) <= CacheSize
    BY TypesParts
  <2>2. Len(conn'.cache) <= Len(conn.cache)
    BY <1>7, <2>1, SubsetLen DEF Books
  <2>3. Len(conn'.cache) \in Nat /\ Len(conn.cache) \in Nat /\ CacheSize \in Nat
    BY <1>7, <2>1, CursorAssumption DEF Books
  <2> QED
    BY <2>1, <2>2, <2>3
<1>9. Live' = Live /\ HeldTypes' /\ CursorExclusive'
  <2>1. HeldTypes /\ CursorExclusive
    BY TypesParts
  <2> QED
    BY <1>2, <2>1 DEF Live, HeldTypes, CursorExclusive
<1>10. Table(srv, Parses)' /\ IsFiniteSet(DOMAIN srv)' /\ (Cardinality(DOMAIN srv) <= execs)'
  BY <1>1, <1>7, ServerTypesNext
<1>11. CoreOf(conn', Live', srv', foreign', orphans')
  BY <1>2, <1>7, <1>9
<1> QED
  BY <1>1, <1>7, <1>8, <1>9, <1>10, <1>11, InvAgain

\* a smaller cache fits
LEMMA SmallerFits ==
    ASSUME CursorInv, NEW k, Books(k), ToSet(k.cache) \subseteq ToSet(conn.cache)
    PROVE  Len(k.cache) <= CacheSize
<1>1. Books(conn) /\ Len(conn.cache) <= CacheSize
  BY TypesParts
<1>2. Len(k.cache) <= Len(conn.cache)
  BY <1>1, SubsetLen DEF Books
<1>3. Len(k.cache) \in Nat /\ Len(conn.cache) \in Nat /\ CacheSize \in Nat
  BY <1>1, CursorAssumption DEF Books
<1> QED
  BY <1>1, <1>2, <1>3

\* nobody heard of the response
Unheard(k, s, lost) ==
    /\ Books(k) /\ ToSet(k.cache) \subseteq ToSet(conn.cache)
    /\ CoreOf(k, Live, s, foreign, lost) /\ ServerTypes(s)

\* A cursor that was parsed for nobody is lost.
LEMMA CoreLoses ==
    ASSUME NEW E, NEW T, NEW U, NEW C, NEW M, NEW B, NEW L, NEW s, NEW f, NEW lost,
           NEW c, c \notin f, Core(E, T, U, C, M, B, L, s, f \cup {c}, lost)
    PROVE  Core(E, T, U, C, M, B, L, s, f, lost \cup {c})
<1>1. (f \cup {c}) \cup lost = f \cup (lost \cup {c}) /\ f \cap (lost \cup {c}) = {}
  BY DEF Core
<1>2. MetadataTrue(E, M, B, L, s, lost \cup {c})
  BY DEF Core, MetadataTrue
<1> QED
  BY <1>1, <1>2 DEF Core

\* A cursor taken from the cache for nobody is lost, with what is retained of it.
LEMMA CoreMislays ==
    ASSUME NEW E, NEW T, NEW U, NEW C, NEW M, NEW B, NEW L, NEW s, NEW f, NEW lost,
           Core(E, T, U, C, M, B, L, s, f, lost), NEW e \in E, e.cid \notin Cids(L)
    PROVE  Core(E \ {e}, T, U, C, M, B, L, s, f, lost \cup {e.cid})
<1> DEFINE N == E \ {e}
           F == f \cup (lost \cup {e.cid})
<1>1. /\ e.cid \in DOMAIN s /\ e.cid \notin T \cup (f \cup lost)
      /\ F = (f \cup lost) \cup {e.cid} /\ f \cap (lost \cup {e.cid}) = {}
  BY DEF Core, EntriesTrue
<1>2. Cids(N) = Cids(E) \ {e.cid}
  BY DEF Core, EntriesTrue, Cids
<1>3. EntriesTrue(N, T, s, F)
  BY <1>1 DEF Core, EntriesTrue
<1>4. HoldsTrue(L, T, s, F)
  BY <1>1 DEF Core, HoldsTrue, Cids
<1>5. \A h \in L : h.cid # e.cid
  BY DEF Cids
<1> HIDE DEF N, F
<1>6. AllKnown(N, T, L, s, F)
  BY <1>1, <1>2 DEF Core, AllKnown
<1>7. RawApart(N, C, L)
  BY <1>2, <1>5 DEF Core, RawApart
<1>8. MetadataTrue(N, M, B, L, s, lost \cup {e.cid})
  BY <1>2 DEF Core, MetadataTrue
<1> QED
  BY <1>1, <1>3, <1>4, <1>6, <1>7, <1>8 DEF Core, N, F

\* An abandoned execute leaves a cursor only the server knows.
LEMMA MissUnheard ==
    ASSUME CursorInv, execs < MaxExecs, NEW sql \in Sqls, NEW shape \in Shapes, NEW look,
           Miss(look, sql) \/ Busy(look, sql), NEW run, run = Ran(look, sql, shape)
    PROVE  Unheard(Sent(look.k), run.srv, orphans \cup {run.cid})
<1>1. /\ look.cid = {} /\ Books(look.k) /\ CoreOf(look.k, Live, srv, foreign, orphans)
      /\ ToSet(look.k.cache) \subseteq ToSet(conn.cache)
  <2>1. CASE Miss(look, sql)
    BY <2>1 DEF Miss, NotSql
  <2>2. CASE Busy(look, sql)
    BY <2>2, TypesParts DEF Busy
  <2> QED
    BY <2>1, <2>2
<1>2. ParsedFor(run, look.k, sql, shape)
  BY <1>1, MissRuns
<1>3. CoreOf(Sent(look.k), Live, run.srv, foreign, orphans \cup {run.cid})
  BY <1>2, CoreLoses DEF ParsedFor, CoreOf
<1> QED
  BY <1>1, <1>2, <1>3 DEF ParsedFor, Unheard

\* An abandoned execute on a cached cursor leaves it cached, unless the cursor
\* was taken out of the cache for it.
LEMMA HitUnheard ==
    ASSUME CursorInv, NEW sql \in Sqls, NEW shape, NEW look, NEW e, NEW caching \in BOOLEAN,
           Hit(look, e, sql, shape, caching), NEW run, run = Ran(look, sql, shape)
    PROVE  Unheard(Sent(look.k), run.srv, IF caching THEN orphans ELSE orphans \cup {run.cid})
<1> DEFINE k == Sent(look.k)
<1>1. RanOn(run, look.k, e)
  BY HitRuns
<1>2. /\ ToSet(look.k.cache) = IF caching THEN ToSet(conn.cache) ELSE ToSet(conn.cache) \ {e}
      /\ look.k.inUse = conn.inUse /\ look.k.copied = conn.copied
      /\ look.k.columns = conn.columns /\ look.k.lob = conn.lob /\ Books(look.k)
      /\ e \in ToSet(conn.cache) /\ e.cid \notin Cids(Live)
  BY DEF Hit
<1>3. /\ Books(k) /\ k.cache = look.k.cache /\ k.inUse = look.k.inUse
      /\ k.copied = look.k.copied /\ ToSet(k.toClose) = {}
      /\ k.columns = look.k.columns /\ k.lob = look.k.lob
  BY <1>2, SentFacts
<1> HIDE DEF k
<1>4. Core(ToSet(conn.cache), {}, conn.inUse, conn.copied, conn.columns, conn.lob,
           Live, run.srv, foreign, orphans) /\ run.cid = e.cid /\ ServerTypes(run.srv)
  BY <1>1 DEF RanOn
<1>5. CASE caching
  <2>1. CoreOf(k, Live, run.srv, foreign, orphans)
    BY <1>2, <1>3, <1>4, <1>5 DEF CoreOf
  <2> QED
    BY <1>2, <1>3, <1>4, <1>5, <2>1 DEF Unheard, k
<1>6. CASE ~caching
  <2>1. Core(ToSet(conn.cache) \ {e}, {}, conn.inUse, conn.copied, conn.columns, conn.lob,
             Live, run.srv, foreign, orphans \cup {e.cid})
    BY <1>2, <1>4, CoreMislays, Zenon
  <2>2. CoreOf(k, Live, run.srv, foreign, orphans \cup {run.cid})
    BY <1>2, <1>3, <1>4, <1>6, <2>1 DEF CoreOf
  <2>3. ToSet(k.cache) \subseteq ToSet(conn.cache)
    BY <1>2, <1>3, <1>6
  <2> QED
    BY <1>3, <1>4, <1>6, <2>2, <2>3 DEF Unheard, k
<1> QED
  BY <1>5, <1>6

\* An abandoned execute keeps the invariant.
LEMMA ExecuteAbandonedInv ==
    ASSUME CursorInv, Restrained, NEW o \in Owners, NEW sql \in Sqls, NEW shape \in Shapes,
           NEW caching \in BOOLEAN, ExecuteAbandoned(o, sql, shape, caching)
    PROVE  CursorInv'
<1> DEFINE look == Lookup(sql, shape, caching)
           run == Ran(look, sql, shape)
<1>1. /\ execs < MaxExecs /\ execs' = execs + 1 /\ execs' \in 0..MaxExecs
      /\ (caching \/ ~InUse(conn, sql))
  <2>1. CanExecute(o, sql, caching)
    BY DEF ExecuteAbandoned
  <2> QED
    BY <2>1, CanExecuteFacts
<1>2. /\ srv' = run.srv /\ held' = held /\ conn' = Sent(look.k) /\ foreign' = foreign
      /\ orphans' = IF caching /\ look.cid # {} THEN orphans ELSE orphans \cup {run.cid}
  BY DEF ExecuteAbandoned
<1>3. \/ Busy(look, sql) \/ Miss(look, sql)
      \/ \E e : Hit(look, e, sql, shape, caching)
  BY <1>1, LookFacts
<1> HIDE DEF look
<1>4. Unheard(conn', srv', orphans')
  <2>1. CASE Busy(look, sql) \/ Miss(look, sql)
    <3>1. look.cid = {}
      BY <2>1 DEF Busy, Miss
    <3>2. Unheard(Sent(look.k), run.srv, orphans \cup {run.cid})
      BY <1>1, <2>1, MissUnheard
    <3> QED
      BY <1>2, <3>1, <3>2
  <2>2. CASE \E e : Hit(look, e, sql, shape, caching)
    <3>1. PICK e : Hit(look, e, sql, shape, caching)
      BY <2>2
    <3>2. look.cid # {}
      BY <3>1 DEF Hit
    <3>3. Unheard(Sent(look.k), run.srv, IF caching THEN orphans ELSE orphans \cup {run.cid})
      BY <3>1, HitUnheard
    <3> HIDE DEF run
    <3> QED
      BY <1>2, <3>2, <3>3
  <2> QED
    BY <1>3, <2>1, <2>2
<1> HIDE DEF run
<1>5. /\ Books(conn') /\ ToSet(conn'.cache) \subseteq ToSet(conn.cache)
      /\ CoreOf(conn', Live, srv', foreign', orphans') /\ ServerTypes(srv')
  BY <1>2, <1>4 DEF Unheard
<1>6. Len(conn'.cache) <= CacheSize
  BY <1>5, SmallerFits
<1>7. Live' = Live /\ HeldTypes' /\ CursorExclusive'
  <2>1. HeldTypes /\ CursorExclusive
    BY TypesParts
  <2> QED
    BY <1>2, <2>1 DEF Live, HeldTypes, CursorExclusive
<1>8. Table(srv, Parses)' /\ IsFiniteSet(DOMAIN srv)' /\ (Cardinality(DOMAIN srv) <= execs)'
  BY <1>1, <1>5, ServerTypesNext
<1>9. CoreOf(conn', Live', srv', foreign', orphans')
  BY <1>5, <1>7
<1> QED
  BY <1>1, <1>5, <1>6, <1>7, <1>8, <1>9, InvAgain

\* an owner that gives its cursor up leaves the server as it was
LEMMA GivesUp ==
    ASSUME CursorInv, NEW o \in Owners, NEW h, h \in held[o],
           held' = [held EXCEPT ![o] = {}], srv' = srv, execs' = execs,
           Books(conn'), ToSet(conn'.cache) \subseteq ToSet(conn.cache),
           CoreOf(conn', Live \ {h}, srv, foreign', orphans')
    PROVE  CursorInv'
<1>1. Len(conn'.cache) <= CacheSize
  BY SmallerFits
<1>2. /\ HeldTypes /\ CursorExclusive /\ Table(srv, Parses) /\ execs \in 0..MaxExecs
      /\ IsFiniteSet(DOMAIN srv) /\ Cardinality(DOMAIN srv) <= execs
  BY TypesParts
<1>3. Live' = Live \ {h} /\ HeldTypes' /\ CursorExclusive'
  BY <1>2, OwnerGives
<1>4. /\ Table(srv, Parses)' /\ IsFiniteSet(DOMAIN srv)'
      /\ (Cardinality(DOMAIN srv) <= execs)' /\ execs' \in 0..MaxExecs
  BY <1>2
<1>5. CoreOf(conn', Live', srv', foreign', orphans')
  BY <1>3
<1> QED
  BY <1>1, <1>3, <1>4, <1>5, InvAgain

\* what is known of a cursor somebody holds
LEMMA HeldFacts ==
    ASSUME CursorInv, NEW o \in Owners, held[o] # {},
           NEW h, h = CHOOSE x \in held[o] : TRUE
    PROVE  /\ h \in held[o] /\ h \in Live /\ h.cid \in Ids /\ h.cid \notin ToSet(conn.toClose)
           /\ h.cid \in conn.copied => \A e \in ToSet(conn.cache) : e.cid # h.cid
<1>1. h \in held[o] /\ h \in Live
  BY DEF Live
<1>2. h.cid \in Ids
  BY <1>1, TypesParts DEF Holds
<1>3. CoreOf(conn, Live, srv, foreign, orphans)
  BY TypesParts
<1>4. h.cid \notin ToSet(conn.toClose)
  BY <1>1, <1>3 DEF CoreOf, Core, HoldsTrue
<1>5. conn.copied \cap Cids(ToSet(conn.cache)) = {}
  BY <1>3 DEF CoreOf, Core, RawApart
<1>6. h.cid \in conn.copied => \A e \in ToSet(conn.cache) : e.cid # h.cid
  BY <1>5 DEF Cids
<1> QED
  BY <1>1, <1>2, <1>4, <1>6

\* A release keeps the invariant.
LEMMA FinishInv ==
    ASSUME CursorInv, NEW o \in Owners, Finish(o)
    PROVE  CursorInv'
<1> DEFINE h == CHOOSE x \in held[o] : TRUE
           E == ToSet(conn.cache)
           T == ToSet(conn.toClose)
<1>1. /\ held[o] # {} /\ ~h.raw /\ conn' = ReleaseCursor(conn, h.cid)
      /\ held' = [held EXCEPT ![o] = {}] /\ srv' = srv /\ foreign' = foreign /\ orphans' = orphans /\ execs' = execs
  BY DEF Finish
<1>2. /\ h \in held[o] /\ h \in Live /\ h.cid \in Ids /\ h.cid \notin T
      /\ h.cid \in conn.copied => \A e \in E : e.cid # h.cid
  BY <1>1, HeldFacts
<1>3. Books(conn) /\ CoreOf(conn, Live, srv, foreign, orphans)
  BY TypesParts
<1> HIDE DEF h
<1>4. Released(conn', conn, h.cid)
  BY <1>1, <1>2, <1>3, ReleaseFacts
<1>5. /\ Books(conn') /\ conn'.cache = conn.cache /\ conn'.inUse = conn.inUse \ {h.cid}
      /\ conn'.copied = conn.copied \ {h.cid}
  BY <1>4 DEF Released
<1>6. Core(E, T, conn.inUse, conn.copied, conn.columns, conn.lob, Live, srv, foreign, orphans)
  BY <1>3 DEF CoreOf
<1>7. CoreOf(conn', Live \ {h}, srv, foreign, orphans)
  <2>1. CASE h.cid \notin conn.copied
    <3>1. Core(E, T, conn.inUse \ {h.cid}, conn.copied, conn.columns, conn.lob,
               Live \ {h}, srv, foreign, orphans)
      <4> HIDE DEF E, T
      <4> QED
        BY <1>1, <1>2, <1>6, <2>1, CoreReleases, Zenon
    <3>2. /\ conn'.toClose = conn.toClose /\ conn'.columns = conn.columns
          /\ conn'.lob = conn.lob /\ conn'.copied = conn.copied
      BY <1>4, <2>1 DEF Released
    <3> QED
      BY <1>5, <3>1, <3>2 DEF CoreOf
  <2>2. CASE h.cid \in conn.copied
    <3>1. /\ ToSet(conn'.toClose) = T \cup {h.cid}
          /\ Forgets(conn'.columns, conn.columns, {h.cid}) /\ conn'.lob = conn.lob \ {h.cid}
      BY <1>4, <2>2 DEF Released
    <3>2. Core(NotCid(E, h.cid), T \cup {h.cid}, conn.inUse \ {h.cid}, conn.copied \ {h.cid},
               conn'.columns, conn.lob \ {h.cid}, Live \ {h}, srv, foreign, orphans)
      <4> HIDE DEF E, T
      <4> QED
        BY <1>2, <1>6, <3>1, CoreDiscards, Zenon
    <3>3. NotCid(E, h.cid) = E
      BY <1>2, <2>2 DEF NotCid
    <3> QED
      BY <1>5, <3>1, <3>2, <3>3 DEF CoreOf
  <2> QED
    BY <2>1, <2>2
<1> QED
  BY <1>1, <1>2, <1>5, <1>7, GivesUp

\* A close keeps the invariant.
LEMMA DiscardInv ==
    ASSUME CursorInv, NEW o \in Owners, Discard(o)
    PROVE  CursorInv'
<1> DEFINE h == CHOOSE x \in held[o] : TRUE
           E == ToSet(conn.cache)
           T == ToSet(conn.toClose)
<1>1. /\ held[o] # {} /\ conn' = CloseCursor(conn, h.cid)
      /\ held' = [held EXCEPT ![o] = {}] /\ srv' = srv /\ foreign' = foreign /\ orphans' = orphans /\ execs' = execs
  BY DEF Discard
<1>2. h \in held[o] /\ h \in Live /\ h.cid \in Ids
  BY <1>1, HeldFacts
<1>3. Books(conn) /\ CoreOf(conn, Live, srv, foreign, orphans)
  BY TypesParts
<1> HIDE DEF h
<1>4. Closed(conn', conn, h.cid)
  BY <1>1, <1>2, <1>3, CloseFacts
<1>5. /\ Books(conn') /\ ToSet(conn'.cache) = NotCid(E, h.cid)
      /\ conn'.inUse = conn.inUse \ {h.cid} /\ conn'.copied = conn.copied \ {h.cid}
      /\ ToSet(conn'.toClose) = T \cup {h.cid}
      /\ Forgets(conn'.columns, conn.columns, {h.cid}) /\ conn'.lob = conn.lob \ {h.cid}
  BY <1>4 DEF Closed
<1>6. Core(E, T, conn.inUse, conn.copied, conn.columns, conn.lob, Live, srv, foreign, orphans)
  BY <1>3 DEF CoreOf
<1>7. Core(NotCid(E, h.cid), T \cup {h.cid}, conn.inUse \ {h.cid}, conn.copied \ {h.cid},
           conn'.columns, conn.lob \ {h.cid}, Live \ {h}, srv, foreign, orphans)
  <2> HIDE DEF E, T
  <2> QED
    BY <1>2, <1>5, <1>6, CoreDiscards, Zenon
<1>8. CoreOf(conn', Live \ {h}, srv, foreign, orphans)
  BY <1>5, <1>7 DEF CoreOf
<1>9. ToSet(conn'.cache) \subseteq ToSet(conn.cache)
  BY <1>5 DEF NotCid
<1> QED
  BY <1>1, <1>2, <1>5, <1>8, <1>9, GivesUp

\* r is k without the entry and the metadata of the cursor c
HandedOver(r, k, c) ==
    /\ Books(r) /\ ToSet(r.cache) = NotCid(ToSet(k.cache), c) /\ r.inUse = k.inUse
    /\ r.copied = k.copied /\ r.toClose = k.toClose
    /\ Forgets(r.columns, k.columns, {c}) /\ r.lob = k.lob \ {c}

\* invalidate_bound_ref_cursors.
LEMMA HandOverFacts ==
    ASSUME NEW k, Books(k), NEW c
    PROVE  HandedOver(HandOver(k, c), k, c)
<1> DEFINE r == HandOver(k, c)
           m == ForgetMetadata(k, {c})
           q == WithoutCid(k.cache, c)
<1>1. Forgot(m, k, {c})
  BY ForgetFacts
<1>2. q \in Seq(Entries) /\ Distinct(q) /\ ToSet(q) = NotCid(ToSet(k.cache), c)
  BY WithoutCidFacts DEF Books
<1>3. r = [cache |-> q, inUse |-> k.inUse, copied |-> k.copied,
           toClose |-> k.toClose, columns |-> m.columns, lob |-> k.lob \ {c}]
  <2>1. r = [m EXCEPT !.cache = WithoutCid(m.cache, c)]
    BY DEF HandOver
  <2> HIDE DEF m
  <2> QED
    BY <2>1, <1>1 DEF Books, Forgot
<1> HIDE DEF m, q, r
<1>4. HandedOver(r, k, c)
  BY <1>1, <1>2, <1>3 DEF Books, Forgot, HandedOver
<1> QED
  BY <1>4 DEF r

\* The hand-over of a REF CURSOR keeps the invariant.
LEMMA BindRefCursorInv ==
    ASSUME CursorInv, Restrained, NEW o \in Owners, BindRefCursor(o)
    PROVE  CursorInv'
<1> DEFINE h == CHOOSE x \in held[o] : TRUE
           E == ToSet(conn.cache)
           T == ToSet(conn.toClose)
           k == HandOver(conn, h.cid)
<1>1. /\ held[o] # {} /\ h.cid \notin conn.copied /\ conn' = ReleaseCursor(k, h.cid)
      /\ held' = [held EXCEPT ![o] = {}] /\ foreign' = foreign \cup {h.cid} /\ orphans' = orphans
      /\ srv' = srv /\ execs' = execs
  BY DEF BindRefCursor, Restrained, Allowed
<1>2. h \in held[o] /\ h \in Live /\ h.cid \in Ids /\ h.cid \notin T
  BY <1>1, HeldFacts
<1>3. Books(conn) /\ CoreOf(conn, Live, srv, foreign, orphans)
  BY TypesParts
<1> HIDE DEF h
<1>4. HandedOver(k, conn, h.cid)
  BY <1>3, HandOverFacts
<1> HIDE DEF k
<1>5. /\ Books(k) /\ ToSet(k.cache) = NotCid(E, h.cid) /\ k.inUse = conn.inUse
      /\ k.copied = conn.copied /\ k.toClose = conn.toClose
      /\ Forgets(k.columns, conn.columns, {h.cid}) /\ k.lob = conn.lob \ {h.cid}
  BY <1>4 DEF HandedOver
<1>6. Released(conn', k, h.cid)
  BY <1>1, <1>2, <1>5, ReleaseFacts
<1>7. /\ Books(conn') /\ conn'.cache = k.cache /\ conn'.inUse = conn.inUse \ {h.cid}
      /\ conn'.copied = conn.copied /\ conn'.toClose = conn.toClose
      /\ conn'.columns = k.columns /\ conn'.lob = conn.lob \ {h.cid}
  BY <1>1, <1>5, <1>6 DEF Released
<1>8. Core(E, T, conn.inUse, conn.copied, conn.columns, conn.lob, Live, srv, foreign, orphans)
  BY <1>3 DEF CoreOf
<1>9. Core(NotCid(E, h.cid), T, conn.inUse \ {h.cid}, conn.copied, k.columns,
           conn.lob \ {h.cid}, Live \ {h}, srv, foreign \cup {h.cid}, orphans)
  <2> HIDE DEF E, T
  <2> QED
    BY <1>1, <1>2, <1>5, <1>8, CoreHandsOver, Zenon
<1>10. CoreOf(conn', Live \ {h}, srv, foreign', orphans')
  BY <1>1, <1>5, <1>7, <1>9 DEF CoreOf
<1>11. ToSet(conn'.cache) \subseteq ToSet(conn.cache)
  BY <1>5, <1>7 DEF NotCid
<1> QED
  BY <1>1, <1>2, <1>7, <1>10, <1>11, GivesUp

\* The server's closing of a cursor of its own keeps the invariant.
LEMMA ServerClosesInv ==
    ASSUME CursorInv, NEW cid, ServerCloses(cid)
    PROVE  CursorInv'
<1>1. /\ cid \in foreign /\ srv' = Restrict(srv, DOMAIN srv \ {cid})
      /\ foreign' = foreign \ {cid} /\ orphans' = orphans /\ conn' = conn /\ held' = held /\ execs' = execs
  BY DEF ServerCloses
<1>2. /\ Books(conn) /\ Len(conn.cache) <= CacheSize /\ HeldTypes /\ CursorExclusive
      /\ Table(srv, Parses) /\ execs \in 0..MaxExecs
      /\ IsFiniteSet(DOMAIN srv) /\ Cardinality(DOMAIN srv) <= execs
      /\ CoreOf(conn, Live, srv, foreign, orphans)
  BY TypesParts
<1>3. DOMAIN srv' = DOMAIN srv \ {cid} /\ \A c \in DOMAIN srv' : srv'[c] = srv[c]
  BY <1>1 DEF Restrict
<1>4. Forgets(srv', srv, {cid})
  BY <1>3 DEF Forgets
<1>5. CoreOf(conn, Live, srv', foreign', orphans')
  BY <1>1, <1>2, <1>4, CoreLetsGo DEF CoreOf
<1>6. Table(srv', Parses)
  <2>1. PICK D \in SUBSET Ids : srv \in [D -> Parses]
    BY <1>2 DEF Table
  <2>2. srv' \in [D \ {cid} -> Parses] /\ D \ {cid} \in SUBSET Ids
    BY <1>1, <2>1 DEF Restrict
  <2> QED
    BY <2>2 DEF Table
<1>7. IsFiniteSet(DOMAIN srv') /\ Cardinality(DOMAIN srv') <= Cardinality(DOMAIN srv)
  <2>1. DOMAIN srv' \in SUBSET DOMAIN srv
    BY <1>3
  <2> QED
    BY <1>2, <2>1, FS_Subset
<1>8. Cardinality(DOMAIN srv') \in Nat /\ Cardinality(DOMAIN srv) \in Nat
  BY <1>2, <1>7, FS_CardinalityType
<1>9. Cardinality(DOMAIN srv') <= execs /\ execs' \in 0..MaxExecs
  BY <1>1, <1>2, <1>7, <1>8, CursorAssumption
<1>10. Live' = Live /\ HeldTypes' /\ CursorExclusive'
  BY <1>1, <1>2 DEF Live, HeldTypes, CursorExclusive
<1>11. CoreOf(conn', Live', srv', foreign', orphans')
  BY <1>1, <1>5, <1>10
<1> QED
  BY <1>1, <1>2, <1>6, <1>7, <1>9, <1>10, <1>11, InvAgain

-----------------------------------------------------------------------------
(* The specification *)

\* A new connection satisfies the invariant.
LEMMA InitInv ==
    ASSUME Init
    PROVE  CursorInv
<1>1. /\ conn = [cache |-> <<>>, inUse |-> {}, copied |-> {}, toClose |-> <<>>,
                 columns |-> <<>>, lob |-> {}]
      /\ held = [o \in Owners |-> {}] /\ srv = <<>> /\ foreign = {} /\ execs = 0
      /\ orphans = {}
  BY DEF Init
<1>2. /\ conn.cache = <<>> /\ conn.inUse = {} /\ conn.copied = {} /\ conn.toClose = <<>>
      /\ conn.columns = <<>> /\ conn.lob = {}
  BY <1>1
<1>3. DOMAIN srv = {} /\ DOMAIN conn.columns = {}
  BY <1>1, <1>2
<1>4. Table(srv, Parses) /\ Table(conn.columns, Sqls)
  <2>1. srv \in [{} -> Parses] /\ conn.columns \in [{} -> Sqls] /\ {} \in SUBSET Ids
    BY <1>1, <1>2
  <2> QED
    BY <2>1 DEF Table
<1>5. Books(conn)
  <2>1. conn.cache \in Seq(Entries) /\ conn.toClose \in Seq(Ids)
    BY <1>2
  <2>2. Distinct(conn.cache) /\ OneToOne(conn.toClose)
    BY <1>2 DEF Distinct, OneToOne
  <2> QED
    BY <1>1, <1>2, <1>4, <2>1, <2>2 DEF Books
<1>6. Len(conn.cache) <= CacheSize /\ execs \in 0..MaxExecs
  BY <1>1, <1>2, CursorAssumption
<1>7. IsFiniteSet(DOMAIN srv) /\ Cardinality(DOMAIN srv) <= execs
  BY <1>1, <1>3, FS_EmptySet
<1>8. Live = {}
  BY <1>1 DEF Live
<1>9. /\ held \in [Owners -> SUBSET Holds] /\ CursorExclusive
      /\ \A o \in Owners : \A h, g \in held[o] : h = g
  BY <1>1 DEF CursorExclusive
<1>10. Types
  BY <1>1, <1>4, <1>5, <1>6, <1>7, <1>9 DEF Types
<1>11. ToSet(conn.cache) = {} /\ ToSet(conn.toClose) = {}
  BY <1>2 DEF ToSet
<1>12. Core({}, {}, {}, {}, conn.columns, {}, {}, srv, {}, {})
  BY <1>3
     DEF Core, EntriesTrue, HoldsTrue, AllKnown, UseTrue, RawApart, MetadataTrue, Cids
<1> QED
  BY <1>1, <1>2, <1>8, <1>9, <1>10, <1>11, <1>12 DEF CursorInv

\* Every step keeps the invariant.
LEMMA NextInv ==
    ASSUME CursorInv, Restrained, [Next]_vars
    PROVE  CursorInv'
<1>1. ASSUME NEW o \in Owners, NEW sql \in Sqls, NEW shape \in BindShapes(sql),
             NEW caching \in BOOLEAN, NEW rows \in {TRUE, sql \notin Lobs},
             ExecuteOk(o, sql, shape, caching, rows)
      PROVE  CursorInv'
  <2>1. rows \in BOOLEAN /\ shape \in Shapes
    BY ShapeTypes
  <2> QED
    BY <1>1, <2>1, ExecuteOkInv
<1>2. ASSUME NEW o \in Owners, NEW sql \in Sqls, NEW shape \in BindShapes(sql),
             NEW caching \in BOOLEAN, ExecuteFails(o, sql, shape, caching)
      PROVE  CursorInv'
  BY <1>2, ShapeTypes, ExecuteFailsInv
<1>3. ASSUME NEW o \in Owners, NEW sql \in Sqls, NEW shape \in BindShapes(sql),
             NEW caching \in BOOLEAN, ExecuteAbandoned(o, sql, shape, caching)
      PROVE  CursorInv'
  BY <1>3, ShapeTypes, ExecuteAbandonedInv
<1>4. ASSUME NEW o \in Owners, Finish(o) \/ Discard(o) \/ BindRefCursor(o)
      PROVE  CursorInv'
  BY <1>4, FinishInv, DiscardInv, BindRefCursorInv
<1>5. ASSUME NEW cid \in foreign, ServerCloses(cid)
      PROVE  CursorInv'
  BY <1>5, ServerClosesInv
<1>6. CASE UNCHANGED vars
  <2>1. conn' = conn /\ held' = held /\ srv' = srv /\ foreign' = foreign /\ orphans' = orphans /\ execs' = execs
    BY <1>6 DEF vars
  <2>2. Live' = Live
    BY <2>1 DEF Live
  <2> QED
    BY <2>1, <2>2 DEF CursorInv, Types, CursorExclusive
<1> QED
  <2>1. CASE \E o \in Owners, sql \in Sqls : \E shape \in BindShapes(sql), caching \in BOOLEAN :
               \E rows \in {TRUE, sql \notin Lobs} : ExecuteOk(o, sql, shape, caching, rows)
    BY <1>1, <2>1
  <2>2. CASE \E o \in Owners, sql \in Sqls : \E shape \in BindShapes(sql), caching \in BOOLEAN :
               ExecuteFails(o, sql, shape, caching)
    BY <1>2, <2>2
  <2>3. CASE \E o \in Owners, sql \in Sqls : \E shape \in BindShapes(sql), caching \in BOOLEAN :
               ExecuteAbandoned(o, sql, shape, caching)
    BY <1>3, <2>3
  <2>4. CASE \E o \in Owners : Finish(o) \/ Discard(o) \/ BindRefCursor(o)
    BY <1>4, <2>4
  <2>5. CASE \E cid \in foreign : ServerCloses(cid)
    BY <1>5, <2>5
  <2> QED
    BY <1>6, <2>1, <2>2, <2>3, <2>4, <2>5 DEF Next

\* The invariant implies CursorsInUse.
LEMMA InvInUse ==
    ASSUME CursorInv
    PROVE  CursorsInUse
<1>1. /\ Books(conn) /\ Len(conn.cache) <= CacheSize /\ HeldTypes /\ CursorExclusive
      /\ CoreOf(conn, Live, srv, foreign, orphans)
  BY TypesParts
<1>2. TypeOK
  BY <1>1 DEF TypeOK, Books, HeldTypes, Entries, Shapes, Holds
<1>3. LiveCursorOpen
  BY <1>1 DEF LiveCursorOpen, CoreOf, Core, HoldsTrue
<1> QED
  BY <1>1, <1>2, <1>3 DEF CursorsInUse

\* The invariant implies CursorsAccounted.
LEMMA InvAccounted ==
    ASSUME CursorInv
    PROVE  CursorsAccounted
<1>1. Books(conn) /\ CoreOf(conn, Live, srv, foreign, orphans)
  BY TypesParts
<1>2. AllKnown(ToSet(conn.cache), ToSet(conn.toClose), Live, srv,
               foreign \cup orphans)
  BY <1>1 DEF CoreOf, Core
<1>3. CachedIds(conn) = Cids(ToSet(conn.cache))
  BY DEF CachedIds, Cids, ToSet
<1>4. NoCursorLeak
  BY <1>2, <1>3 DEF NoCursorLeak, AllKnown, Cids
<1>5. Cardinality(ToSet(conn.toClose)) = Len(conn.toClose)
  BY <1>1, OneToOneLen DEF Books
<1>6. CloseOnce
  BY <1>2, <1>5 DEF CloseOnce, AllKnown
<1> QED
  BY <1>4, <1>6 DEF CursorsAccounted

\* The invariant implies CacheHonest.
LEMMA InvHonest ==
    ASSUME CursorInv
    PROVE  CacheHonest
<1>1. Books(conn) /\ CoreOf(conn, Live, srv, foreign, orphans)
  BY TypesParts
<1>2. \A i \in DOMAIN conn.cache : conn.cache[i] \in ToSet(conn.cache)
  BY DEF ToSet
<1>3. ASSUME NEW i \in DOMAIN conn.cache
      PROVE  /\ conn.cache[i].cid \in DOMAIN srv \ (ToSet(conn.toClose) \cup foreign \cup orphans)
             /\ srv[conn.cache[i].cid] = [sql |-> conn.cache[i].sql,
                                          family |-> Family(conn.cache[i].shape)]
  BY <1>1, <1>2 DEF CoreOf, Core, EntriesTrue, Parse
<1>4. CachedUsable
  BY <1>1, <1>3 DEF CachedUsable, Books, Distinct
<1>5. MetadataFresh
  <2>1. /\ \A h \in Live : srv[h.cid].sql = h.sql
        /\ \A c \in DOMAIN conn.columns : conn.columns[c] = srv[c].sql
        /\ \A c \in conn.lob : srv[c].sql \in Lobs
    BY <1>1 DEF CoreOf, Core, HoldsTrue, MetadataTrue
  <2> QED
    BY <2>1 DEF MetadataFresh
<1> QED
  BY <1>4, <1>5 DEF CacheHonest

\* Whatever the interleaving of the owners' executes, failures, abandoned
\* requests, releases and evictions: no two of them drive one cursor, and a
\* cursor somebody reads from is open, is that statement's and is not about to
\* be closed (in_use_cursors, copied_cursors and the LRU of lib.rs).
THEOREM CursorsStayApart ==
    ASSUME Restrained
    PROVE  Spec => []CursorsInUse
<1>1. Init => CursorInv
  BY InitInv
<1>2. CursorInv /\ [Next]_vars => CursorInv'
  BY NextInv
<1>3. CursorInv => CursorsInUse
  BY InvInUse
<1> QED
  BY <1>1, <1>2, <1>3, PTL DEF Spec

\* Every cursor open on the server is cached, held, queued for close, the
\* server's own or lost with an abandoned execute, and it is queued once, so
\* the piggyback never closes a number that was given to somebody else
\* (close_cursor, statement_cache_put, release_cursor).
THEOREM NoCursorGoesAstray ==
    ASSUME Restrained
    PROVE  Spec => []CursorsAccounted
<1>1. Init => CursorInv
  BY InitInv
<1>2. CursorInv /\ [Next]_vars => CursorInv'
  BY NextInv
<1>3. CursorInv => CursorsAccounted
  BY InvAccounted
<1> QED
  BY <1>1, <1>2, <1>3, PTL DEF Spec

\* A cached cursor is open, was parsed for its statement with the bind family
\* that is remembered, and the columns and LOB marks a fetch decodes with are
\* those of the statement that has the cursor number now (statement_cache_get,
\* bind_shape_is_compatible, cursor_columns, lob_prefetch_cursors).
THEOREM CacheTellsTheTruth ==
    ASSUME Restrained
    PROVE  Spec => []CacheHonest
<1>1. Init => CursorInv
  BY InitInv
<1>2. CursorInv /\ [Next]_vars => CursorInv'
  BY NextInv
<1>3. CursorInv => CacheHonest
  BY InvHonest
<1> QED
  BY <1>1, <1>2, <1>3, PTL DEF Spec
=============================================================================
