-------------------------- MODULE PoolEngineProofs --------------------------
(***************************************************************************)
(* Proofs about the pool engine, for pools of every size and in every      *)
(* environment.                                                            *)
(*                                                                         *)
(* The first part is the type invariant: one lemma per function of         *)
(* PoolState, that it maps pool states to pool states; then one step per   *)
(* action, citing them.                                                    *)
(*                                                                         *)
(* The second part is that a connection of the pool has one place at a     *)
(* time: a free list, busy, the close queue, one request, or the hands of  *)
(* the reaper.  From this follow the exclusive hand-out, the agreement of  *)
(* busy with the guards, and the refinement of PoolContract.               *)
(*                                                                         *)
(* The last part is about the contract itself, in a pool of its own.       *)
(***************************************************************************)
EXTENDS PoolRefinement, FiniteSetTheorems, SequenceTheorems,
        WellFoundedInduction, TLAPS

-----------------------------------------------------------------------------
(* Numbers and sequences. *)

\* A non-empty set of naturals has a least element.
LEMMA LeastNat ==
    ASSUME NEW S \in SUBSET Nat, S # {}
    PROVE  \E m \in S : \A k \in S : m <= k
<1> DEFINE R == OpToRel(<, Nat)
<1>1. IsWellFoundedOn(R, Nat)
  BY NatLessThanWellFounded
<1>2. \A k, m \in Nat : k < m => <<k, m>> \in R
  BY DEF OpToRel
<1> HIDE DEF R
<1>3. \E m \in S : \A k \in S : ~(<<k, m>> \in R)
  BY <1>1, WFMin
<1>4. PICK m \in S : \A k \in S : ~(<<k, m>> \in R)
  BY <1>3
<1>5. ASSUME NEW k \in S PROVE m <= k
  <2>1. ~(k < m) BY <1>2, <1>4
  <2>2. QED BY <2>1
<1>6. QED BY <1>5

\* Min picks a member: the queue scans that take the first match are defined.
LEMMA MinIn ==
    ASSUME NEW S \in SUBSET Nat, S # {}
    PROVE  Min(S) \in S
BY LeastNat DEF Min

\* Max picks a member: the scans that take the last match are defined.
LEMMA MaxIn ==
    ASSUME NEW n \in Nat, NEW S \in SUBSET (1..n), S # {}
    PROVE  Max(S) \in S
<1> DEFINE T == {n - k : k \in S}
<1>1. T \in SUBSET Nat /\ T # {}
  <2>1. \A k \in S : n - k \in Nat
    OBVIOUS
  <2>2. QED
    BY <2>1
<1> HIDE DEF T
<1>2. PICK m \in T : \A j \in T : m <= j
  BY <1>1, LeastNat
<1> USE DEF T
<1>3. PICK k \in S : m = n - k
  OBVIOUS
<1>4. ASSUME NEW j \in S PROVE k >= j
  <2>1. n - j \in T
    OBVIOUS
  <2>2. n - k <= n - j
    BY <1>2, <1>3, <2>1
  <2>3. QED
    BY <2>2
<1>5. QED
  BY <1>4 DEF Max

\* A function on 1..n is a sequence.
LEMMA FcnIsSeq ==
    ASSUME NEW S, NEW n \in Nat, NEW f \in [1..n -> S]
    PROVE  f \in Seq(S)
OBVIOUS

\* Replacing one element keeps the element type.
LEMMA ExceptIn ==
    ASSUME NEW S, NEW q \in Seq(S), NEW i \in DOMAIN q, NEW r \in S
    PROVE  [q EXCEPT ![i] = r] \in Seq(S)
BY ExceptSeq

\* Removing one element keeps the element type.
LEMMA RemoveAtIn ==
    ASSUME NEW S, NEW q \in Seq(S), NEW i \in DOMAIN q
    PROVE  RemoveAt(q, i) \in Seq(S)
BY DEF RemoveAt

\* Popping from the back keeps the element type.
LEMMA FrontLastIn ==
    ASSUME NEW S, NEW q \in Seq(S), q # <<>>
    PROVE  Front(q) \in Seq(S) /\ Last(q) \in S
BY DEF Front, Last

\* The requests in progress are collected from the front.  The recursive
\* function is shown to exist by looking at the smallest prefix on which it
\* would not.
LEMMA InProgressFold ==
    ASSUME NEW S, NEW q \in Seq(S)
    PROVE  \E F : /\ F[0] = <<>> /\ InProgress(q) = F[Len(q)]
                 /\ \A i \in 1..Len(q) :
                      F[i] = IF q[i].in_progress THEN Append(F[i-1], q[i]) ELSE F[i-1]
<1> DEFINE Step(f, i) == IF i = 0 THEN << >>
                         ELSE IF q[i].in_progress THEN Append(f[i-1], q[i]) ELSE f[i-1]
           Good(f, n) == f = [i \in 0..n |-> Step(f, i)]
           Bad == {n \in 0..Len(q) : ~\E f : Good(f, n)}
           F == CHOOSE f : Good(f, Len(q))
<1>0. Len(q) \in Nat OBVIOUS
<1>1. Bad = {}
  <2>1. SUFFICES ASSUME NEW m \in Bad, \A k \in Bad : m <= k PROVE FALSE
    <3>1. Bad \in SUBSET Nat BY <1>0
    <3> HIDE DEF Bad
    <3>2. QED BY <3>1, LeastNat
  <2>2. m \in Nat /\ m <= Len(q) BY <1>0
  <2>3. m # 0
    <3>1. Good([i \in 0..0 |-> << >>], 0) OBVIOUS
    <3>2. QED BY <3>1
  <2>4. \E f : Good(f, m-1)
    <3>1. m-1 \in 0..Len(q) BY <2>2, <2>3, <1>0
    <3>2. m-1 \notin Bad
      <4> HIDE DEF Bad
      <4>1. ~(m <= m-1) BY <2>2
      <4>2. QED BY <2>1, <4>1
    <3>3. QED BY <3>1, <3>2
  <2>5. PICK f : Good(f, m-1) BY <2>4
  <2> DEFINE g == [i \in 0..m |-> IF i = m THEN Step(f, m) ELSE f[i]]
  <2>6. ASSUME NEW i \in 0..m PROVE g[i] = Step(g, i)
    <3>1. CASE i = m
      <4>1. m-1 \in 0..m /\ m - 1 # m BY <2>2, <2>3
      <4>2. g[m-1] = f[m-1] BY <4>1
      <4>3. g[m] = Step(f, m) BY <2>2
      <4> HIDE DEF g
      <4>4. QED BY <3>1, <4>2, <4>3, <2>3
    <3>2. CASE i # m
      <4>1. i \in 0..m-1 BY <3>2, <2>2
      <4>2. f[i] = Step(f, i) BY <4>1, <2>5
      <4>3. i # 0 => i-1 \in 0..m /\ i - 1 # m BY <4>1, <2>2
      <4>4. i # 0 => g[i-1] = f[i-1] BY <4>3
      <4>5. g[i] = f[i] BY <3>2
      <4> HIDE DEF g
      <4>6. QED BY <4>2, <4>4, <4>5
    <3>3. QED BY <3>1, <3>2
  <2>7. Good(g, m)
    <3>1. g = [i \in 0..m |-> g[i]] OBVIOUS
    <3> HIDE DEF g
    <3>2. QED BY <3>1, <2>6
  <2>8. QED BY <2>7
<1>2. Good(F, Len(q))
  <2>1. Len(q) \in 0..Len(q) BY <1>0
  <2>2. \E f : Good(f, Len(q)) BY <1>1, <2>1
  <2> HIDE DEF Good
  <2>3. QED BY <2>2
<1>3. InProgress(q) = F[Len(q)]
  BY DEF InProgress
<1> HIDE DEF F
<1>4. F[0] = << >>
  BY <1>0, <1>2
<1>5. ASSUME NEW i \in 1..Len(q)
      PROVE  F[i] = IF q[i].in_progress THEN Append(F[i-1], q[i]) ELSE F[i-1]
  <2>1. i \in 0..Len(q) /\ i # 0 BY <1>0
  <2>2. F[i] = Step(F, i) BY <1>2, <2>1
  <2> QED BY <2>1, <2>2
<1>6. QED BY <1>3, <1>4, <1>5

\* requests.retain keeps requests in progress, each once.
LEMMA InProgressKeeps ==
    ASSUME NEW S, NEW q \in Seq(S)
    PROVE  LET kept == InProgress(q)
           IN  /\ kept \in Seq(S)
               /\ \A k \in DOMAIN kept : \E j \in DOMAIN q : kept[k] = q[j] /\ q[j].in_progress
               /\ (\A i, j \in DOMAIN q : q[i].task = q[j].task => i = j) =>
                    \A k, l \in DOMAIN kept : kept[k].task = kept[l].task => k = l
<1>1. PICK F : /\ F[0] = <<>> /\ InProgress(q) = F[Len(q)]
               /\ \A i \in 1..Len(q) :
                    F[i] = IF q[i].in_progress THEN Append(F[i-1], q[i]) ELSE F[i-1]
  BY InProgressFold
<1>2. Len(q) \in Nat /\ DOMAIN q = 1..Len(q)
  OBVIOUS
<1> DEFINE Once == \A i, j \in DOMAIN q : q[i].task = q[j].task => i = j
           From(p, n) == \A k \in DOMAIN p : \E j \in 1..n : p[k] = q[j] /\ q[j].in_progress
           Apt(p, n) == /\ p \in Seq(S) /\ From(p, n)
                        /\ Once => \A k, l \in DOMAIN p : p[k].task = p[l].task => k = l
           Ill == {i \in 0..Len(q) : ~Apt(F[i], i)}
<1>3. Ill = {}
  <2>1. SUFFICES ASSUME NEW m \in Ill, \A k \in Ill : m <= k PROVE FALSE
    <3>1. Ill \in SUBSET Nat
      BY <1>2
    <3> HIDE DEF Ill
    <3> QED
      BY <3>1, LeastNat
  <2>2. m \in 0..Len(q) /\ ~Apt(F[m], m)
    OBVIOUS
  <2>3. m # 0
    <3> DEFINE z == <<>>
    <3>1. DOMAIN z = {} /\ z \in Seq(S) /\ F[0] = z
      BY <1>1
    <3> HIDE DEF z
    <3>2. Apt(z, 0)
      BY <3>1
    <3> QED
      BY <2>2, <3>1, <3>2
  <2>4. m - 1 \in 0..Len(q) /\ m \in 1..Len(q) /\ m \in Nat
    BY <1>2, <2>2, <2>3
  <2>5. Apt(F[m-1], m-1)
    <3>1. m-1 \notin Ill
      <4> HIDE DEF Ill
      <4> QED
        BY <2>1, <2>4
    <3> QED
      BY <2>4, <3>1
  <2>6. F[m] = IF q[m].in_progress THEN Append(F[m-1], q[m]) ELSE F[m-1]
    BY <1>1, <2>4
  <2> DEFINE p == F[m-1]
  <2>7. p \in Seq(S) /\ From(p, m-1)
        /\ (Once => \A k, l \in DOMAIN p : p[k].task = p[l].task => k = l)
    BY <2>5
  <2>8. F[m] = IF q[m].in_progress THEN Append(p, q[m]) ELSE p
    BY <2>6
  <2> HIDE DEF p
  <2>9. CASE ~q[m].in_progress
    <3>1. \A j \in 1..(m-1) : j \in 1..m
      BY <2>4
    <3>2. From(p, m)
      BY <2>7, <3>1
    <3> QED
      BY <2>2, <2>7, <2>8, <2>9, <3>2
  <2>10. CASE q[m].in_progress
    <3> DEFINE a == Append(p, q[m])
               n == Len(p) + 1
    <3>1. q[m] \in S
      BY <1>2, <2>4
    <3>2. /\ a \in Seq(S) /\ DOMAIN a = 1..n /\ a[n] = q[m] /\ n \in Nat
          /\ DOMAIN p = 1..(n-1) /\ \A k \in 1..(n-1) : a[k] = p[k]
      BY <2>7, <3>1
    <3>3. \A k \in DOMAIN a : \/ k \in DOMAIN p /\ a[k] = p[k]
                              \/ k = n /\ a[k] = q[m]
      BY <3>2
    <3> HIDE DEF a, n
    <3>4. From(a, m)
      <4>1. \A j \in 1..(m-1) : j \in 1..m
        BY <2>4
      <4>2. m \in 1..m
        BY <2>4
      <4> QED
        BY <2>7, <2>10, <3>3, <4>1, <4>2
    <3>5. ASSUME Once, NEW k \in DOMAIN a, NEW l \in DOMAIN a, a[k].task = a[l].task
          PROVE  k = l
      <4>1. ASSUME NEW h \in DOMAIN p PROVE p[h].task # q[m].task
        <5>1. PICK j \in 1..(m-1) : p[h] = q[j]
          BY <2>7
        <5>2. j \in DOMAIN q /\ m \in DOMAIN q /\ j # m
          BY <1>2, <2>4
        <5> QED
          BY <3>5, <5>1, <5>2
      <4>2. \A g, h \in DOMAIN p : p[g].task = p[h].task => g = h
        BY <2>7, <3>5
      <4> HIDE DEF Once
      <4> QED
        BY <3>3, <3>5, <4>1, <4>2
    <3>6. Apt(a, m)
      <4> HIDE DEF Once, From
      <4> QED
        BY <3>2, <3>4, <3>5
    <3> QED
      BY <2>2, <2>8, <2>10, <3>6 DEF a
  <2> QED
    BY <2>9, <2>10
<1>4. Apt(F[Len(q)], Len(q))
  <2>1. Len(q) \in 0..Len(q)
    BY <1>2
  <2> QED
    BY <1>3, <2>1
<1> DEFINE kept == InProgress(q)
<1>5. Apt(kept, Len(q))
  BY <1>1, <1>4
<1> HIDE DEF kept
<1> QED
  BY <1>2, <1>5 DEF kept

\* A filter keeps the element type.
LEMMA InProgressType ==
    ASSUME NEW S, NEW q \in Seq(S)
    PROVE  InProgress(q) \in Seq(S)
  BY InProgressKeeps

\* Some(x) and None are options.
LEMMA OptionSome ==
    ASSUME NEW S, NEW x \in S
    PROVE  {x} \in Option(S) /\ {} \in Option(S)
BY DEF Option

\* An option is None or Some of one element.
LEMMA OptionIsFinite ==
    ASSUME NEW S, NEW o \in Option(S)
    PROVE  o \subseteq S /\ (o = {} \/ \E x \in S : o = {x})
BY DEF Option

-----------------------------------------------------------------------------
(* Replacing one field, one request, one queue. *)

\* The type of each field of a pool state.
LEMMA Fields ==
    ASSUME NEW s, PoolType(s)
    PROVE  /\ s.open \in BOOLEAN /\ s.mode \in Modes /\ s.timeout \in BOOLEAN
           /\ s.free_new \in Seq(PooledConn) /\ s.free_used \in Seq(PooledConn)
           /\ s.busy \subseteq PooledConn /\ s.to_drop \subseteq PooledConn
           /\ s.requests \in Seq(Request) /\ s.open_effects \in Seq(ConnIds)
           /\ s.in_flight \subseteq ConnIds /\ s.next_conn_id \in ConnIds
           /\ s.bg \in BOOLEAN /\ s.parked \subseteq Tasks
           /\ IsFiniteSet(s.busy) /\ IsFiniteSet(s.in_flight)
BY DEF PoolType, PoolStates

\* The type of each field of a request.
LEMMA RequestFields ==
    ASSUME NEW r \in Request
    PROVE  /\ r.task \in Tasks /\ r.cclass \in Classes
           /\ r.wants_new \in BOOLEAN /\ r.requires_ping \in BOOLEAN
           /\ r.bg_processing \in BOOLEAN /\ r.is_extra \in BOOLEAN
           /\ r.is_replacing \in BOOLEAN /\ r.in_progress \in BOOLEAN
           /\ r.completed \in BOOLEAN /\ r.waiting \in BOOLEAN
           /\ r.conn \in Option(PooledConn) /\ r.error \in BOOLEAN
BY DEF Request

\* What the request queue holds are requests.
LEMMA RequestIn ==
    ASSUME NEW s, PoolType(s), NEW i \in DOMAIN s.requests
    PROVE  s.requests[i] \in Request
BY Fields

\* Replacing a free list by a list of connections is well typed.
LEMMA FreeListsType ==
    ASSUME NEW s, PoolType(s),
           NEW n \in Seq(PooledConn), NEW u \in Seq(PooledConn)
    PROVE  /\ PoolType([s EXCEPT !.free_new = n])
           /\ PoolType([s EXCEPT !.free_used = u])
BY DEF PoolType, PoolStates

\* Replacing the close queue by a set of connections is well typed.
LEMMA ToDropType ==
    ASSUME NEW s, PoolType(s), NEW d \in SUBSET PooledConn
    PROVE  PoolType([s EXCEPT !.to_drop = d])
BY DEF PoolType, PoolStates

\* Replacing the busy map by a finite set of connections is well typed.
LEMMA BusyType ==
    ASSUME NEW s, PoolType(s), NEW b \in SUBSET PooledConn, IsFiniteSet(b)
    PROVE  PoolType([s EXCEPT !.busy = b])
BY DEF PoolType, PoolStates

\* Replacing the queue by a queue of requests is well typed.
LEMMA RequestsType ==
    ASSUME NEW s, PoolType(s), NEW q \in Seq(Request)
    PROVE  PoolType([s EXCEPT !.requests = q])
BY DEF PoolType, PoolStates

\* Writing one request is well typed and moves no other.
LEMMA SetRequestType ==
    ASSUME NEW s, PoolType(s), NEW i \in DOMAIN s.requests, NEW r \in Request
    PROVE  /\ PoolType(SetRequest(s, i, r))
           /\ DOMAIN SetRequest(s, i, r).requests = DOMAIN s.requests
           /\ SetRequest(s, i, r).requests[i] = r
<1>1. s.requests \in Seq(Request)
  BY Fields
<1>2. [s.requests EXCEPT ![i] = r] \in Seq(Request)
  BY <1>1, ExceptIn
<1>3. SetRequest(s, i, r) = [s EXCEPT !.requests = [s.requests EXCEPT ![i] = r]]
  BY DEF SetRequest
<1>4. PoolType(SetRequest(s, i, r))
  BY <1>2, <1>3, RequestsType
<1>5. SetRequest(s, i, r).requests = [s.requests EXCEPT ![i] = r]
  BY DEF SetRequest, PoolType, PoolStates
<1>6. QED
  BY <1>4, <1>5

\* Storing the permit of the reaper keeps the type.
LEMMA NotifyBgType ==
    ASSUME NEW s, PoolType(s)
    PROVE  PoolType(NotifyBg(s))
BY DEF PoolType, PoolStates, NotifyBg

\* Waking every waiter keeps the type.
LEMMA WakeWaitersType ==
    ASSUME NEW s, PoolType(s)
    PROVE  PoolType(WakeWaiters(s))
BY DEF PoolType, PoolStates, WakeWaiters

\* request_position finds a position of the queue.
LEMMA PositionIn ==
    ASSUME NEW s, NEW t, HasRequest(s, t)
    PROVE  RequestPosition(s, t) \in DOMAIN s.requests
BY DEF HasRequest, RequestPosition

\* Removing a request from the queue keeps the type.
LEMMA WithoutRequestType ==
    ASSUME NEW s, PoolType(s), NEW i \in DOMAIN s.requests
    PROVE  PoolType([s EXCEPT !.requests = RemoveAt(@, i)])
<1>1. RemoveAt(s.requests, i) \in Seq(Request)
  BY Fields, RemoveAtIn
<1>2. QED
  BY <1>1, RequestsType

-----------------------------------------------------------------------------
(* Counts are numbers, so growth is well defined. *)

\* Counting requests gives a number: the queue is finite.
LEMMA CountIsNat ==
    ASSUME NEW s, PoolType(s), NEW D \in SUBSET DOMAIN s.requests
    PROVE  Cardinality(D) \in Nat
<1>1. DOMAIN s.requests = 1..Len(s.requests) /\ Len(s.requests) \in Nat
  BY Fields, LenProperties
<1>2. IsFiniteSet(1..Len(s.requests))
  BY <1>1, FS_Interval
<1>3. IsFiniteSet(D)
  BY <1>1, <1>2, FS_Subset
<1>4. QED
  BY <1>3, FS_CardinalityType

\* The derived counts are numbers.
LEMMA CountsAreNat ==
    ASSUME NEW s, PoolType(s)
    PROVE  /\ PendingOpenCount(s) \in Nat /\ ReservedOpenCount(s) \in Nat
           /\ CompatibleWaitingDemand(s) \in Nat
<1>1. /\ Len(s.free_new) \in Nat /\ Len(s.free_used) \in Nat
      /\ Len(s.open_effects) \in Nat
  BY Fields, LenProperties
<1>2. Cardinality(s.busy) \in Nat /\ Cardinality(s.in_flight) \in Nat
  BY Fields, FS_CardinalityType
<1>3. Cardinality({i \in DOMAIN s.requests : RequestIsOpening(s.requests[i])})
         \in Nat
  BY CountIsNat
<1>4. Cardinality({i \in DOMAIN s.requests : HasConn(s.requests[i])}) \in Nat
  BY CountIsNat
<1>5. PendingOpenCount(s) \in Nat
  BY <1>1, <1>2, <1>3 DEF PendingOpenCount, CountRequests
<1>6. ActiveOpenCount(s) \in Nat
  <2> DEFINE n == Len(s.free_new)
             u == Len(s.free_used)
             b == Cardinality(s.busy)
             h == Cardinality({i \in DOMAIN s.requests : HasConn(s.requests[i])})
  <2>1. ActiveOpenCount(s) = n + u + b + h
    BY DEF ActiveOpenCount, CountRequests
  <2>2. n \in Nat /\ u \in Nat /\ b \in Nat /\ h \in Nat
    BY <1>1, <1>2, <1>4
  <2> HIDE DEF n, u, b, h
  <2>3. QED
    BY <2>1, <2>2
<1>7. CompatibleWaitingDemand(s) \in Nat
  BY CountIsNat DEF CompatibleWaitingDemand, CountRequests
<1>8. QED
  BY <1>5, <1>6, <1>7 DEF ReservedOpenCount

\* schedule_open_effects queues connection ids and advances the counter.
LEMMA ScheduleOpenEffectsType ==
    ASSUME NEW s, PoolType(s), NEW n \in Nat
    PROVE  PoolType(ScheduleOpenEffects(s, n))
<1> DEFINE ids == [i \in 1..n |-> s.next_conn_id + i - 1]
<1>1. s.next_conn_id \in ConnIds /\ s.open_effects \in Seq(ConnIds)
  BY Fields
<1>2. \A i \in 1..n : s.next_conn_id + i - 1 \in ConnIds
  BY <1>1 DEF ConnIds
<1>3. ids \in Seq(ConnIds)
  <2>1. ids \in [1..n -> ConnIds]
    BY <1>2
  <2>2. QED
    BY <2>1
<1>4. s.open_effects \o ids \in Seq(ConnIds)
  BY <1>1, <1>3, ConcatProperties
<1>5. s.next_conn_id + n \in ConnIds
  BY <1>1 DEF ConnIds
<1> HIDE DEF ids
<1>6. ScheduleOpenEffects(s, n) =
        [s EXCEPT !.open_effects = s.open_effects \o ids,
                  !.next_conn_id = s.next_conn_id + n]
  BY DEF ScheduleOpenEffects, ids
<1>7. QED
  BY <1>4, <1>5, <1>6 DEF PoolType, PoolStates

\* ensure_min_connections keeps the type.
LEMMA EnsureMinConnectionsType ==
    ASSUME NEW s, PoolType(s)
    PROVE  PoolType(EnsureMinConnections(s))
<1>1. Monus(PoolMin, ReservedOpenCount(s)) \in Nat
  BY CountsAreNat, SizeAssumption DEF Monus
<1>2. PoolType(ScheduleOpenEffects(s, Monus(PoolMin, ReservedOpenCount(s))))
  BY <1>1, ScheduleOpenEffectsType
<1>3. QED
  BY <1>2, NotifyBgType DEF EnsureMinConnections

\* drop_conn keeps the type.
LEMMA DropConnType ==
    ASSUME NEW s, PoolType(s), NEW conn \in PooledConn
    PROVE  PoolType(DropConn(s, conn))
<1>1. PoolType([s EXCEPT !.to_drop = s.to_drop \cup {conn}])
  BY Fields, ToDropType
<1>2. QED
  BY <1>1, EnsureMinConnectionsType, NotifyBgType DEF DropConn

\* Clearing is_pool_extra gives a connection.
LEMMA NotExtraType ==
    ASSUME NEW conn \in PooledConn
    PROVE  NotExtra(conn) \in PooledConn
BY DEF NotExtra, PooledConn

\* reject_request keeps the type whatever becomes of the connection.
LEMMA RejectType ==
    ASSUME NEW s, PoolType(s), NEW r \in Request
    PROVE  PoolType(Reject(s, r))
<1>1. CASE r.conn = {}
  BY <1>1 DEF Reject
<1>2. CASE r.conn # {}
  <2> DEFINE conn == CHOOSE c \in r.conn : TRUE
  <2>1. conn \in PooledConn
    BY <1>2, RequestFields, OptionIsFinite
  <2> HIDE DEF conn
  <2>2. PoolType(NotifyBg([s EXCEPT !.to_drop = s.to_drop \cup {NotExtra(conn)}]))
    BY <2>1, NotExtraType, Fields, ToDropType, NotifyBgType
  <2>3. PoolType([s EXCEPT !.free_new = Append(s.free_new, conn)])
    BY <2>1, Fields, AppendProperties, FreeListsType
  <2>4. PoolType([s EXCEPT !.free_used = Append(s.free_used, conn)])
    BY <2>1, Fields, AppendProperties, FreeListsType
  <2>5. Reject(s, r) = WakeWaiters(
            CASE ~s.open \/ conn.is_pool_extra ->
                   NotifyBg([s EXCEPT !.to_drop = s.to_drop \cup {NotExtra(conn)}])
              [] s.open /\ ~conn.is_pool_extra /\ ~conn.ever_acquired ->
                   [s EXCEPT !.free_new = Append(s.free_new, conn)]
              [] OTHER -> [s EXCEPT !.free_used = Append(s.free_used, conn)])
    BY <1>2 DEF Reject, conn
  <2>6. QED
    BY <2>2, <2>3, <2>4, <2>5, WakeWaitersType
<1>3. QED
  BY <1>1, <1>2

\* abandon_request keeps the type, whether the request is found or not.
LEMMA AbandonRequestType ==
    ASSUME NEW s, PoolType(s), NEW t
    PROVE  PoolType(AbandonRequest(s, t))
<1> DEFINE i == RequestPosition(s, t)
<1>1. CASE ~HasRequest(s, t)
  BY <1>1 DEF AbandonRequest
<1>2. CASE HasRequest(s, t)
  <2>1. i \in DOMAIN s.requests /\ s.requests[i] \in Request
    BY <1>2, PositionIn, RequestIn
  <2>2. [s.requests[i] EXCEPT !.waiting = FALSE] \in Request
    BY <2>1 DEF Request
  <2> HIDE DEF i
  <2>3. PoolType(SetRequest(s, i, [s.requests[i] EXCEPT !.waiting = FALSE]))
    BY <2>1, <2>2, SetRequestType
  <2>4. PoolType(Reject([s EXCEPT !.requests = RemoveAt(@, i)], s.requests[i]))
    BY <2>1, WithoutRequestType, RejectType
  <2>5. QED
    BY <1>2, <2>3, <2>4 DEF AbandonRequest, i
<1>3. QED
  BY <1>1, <1>2

-----------------------------------------------------------------------------
(* The acquiring task. *)

\* enqueue_request appends a well-formed request.
LEMMA EnqueueRequestType ==
    ASSUME NEW s, PoolType(s), NEW t \in Tasks, NEW cclass \in Classes,
           NEW wantsNew \in BOOLEAN
    PROVE  PoolType(EnqueueRequest(s, t, cclass, wantsNew))
<1> DEFINE r == [task |-> t, cclass |-> cclass, wants_new |-> wantsNew,
                 requires_ping |-> FALSE, bg_processing |-> FALSE,
                 is_extra |-> FALSE, is_replacing |-> FALSE,
                 in_progress |-> FALSE, completed |-> FALSE, waiting |-> TRUE,
                 conn |-> {}, error |-> FALSE]
<1>1. r \in Request
  BY DEF Request, Option
<1> HIDE DEF r
<1>2. Append(s.requests, r) \in Seq(Request)
  BY <1>1, Fields, AppendProperties
<1>3. PoolType([s EXCEPT !.requests = Append(s.requests, r)])
  BY <1>2, RequestsType
<1>4. QED
  BY <1>3 DEF EnqueueRequest, r

\* add_request_for_bg keeps the type.
LEMMA AddRequestForBgType ==
    ASSUME NEW s, PoolType(s), NEW i \in DOMAIN s.requests
    PROVE  PoolType(AddRequestForBg(s, i))
<1>1. [s.requests[i] EXCEPT !.bg_processing = TRUE, !.completed = FALSE]
         \in Request
  BY RequestIn DEF Request
<1>2. QED
  BY <1>1, SetRequestType, NotifyBgType DEF AddRequestForBg

\* The candidate of a scan is a connection, and taking it out of its free list
\* leaves the queue alone.
LEMMA CandidateType ==
    ASSUME NEW s, PoolType(s), NEW i \in DOMAIN s.requests, HasCandidate(s, i)
    PROVE  /\ Candidate(s, i) \in PooledConn
           /\ PoolType(WithoutCandidate(s, i))
           /\ WithoutCandidate(s, i).requests = s.requests
<1>1. s.free_used \in Seq(PooledConn) /\ s.free_new \in Seq(PooledConn)
  BY Fields
<1>2. CASE UsedCandidates(s, i) # {}
  <2> DEFINE k == Max(UsedCandidates(s, i))
  <2>1. UsedCandidates(s, i) \in SUBSET (1..Len(s.free_used))
    BY <1>1 DEF UsedCandidates
  <2>2. k \in DOMAIN s.free_used
    BY <1>1, <1>2, <2>1, MaxIn, LenProperties
  <2> HIDE DEF k
  <2>3. RemoveAt(s.free_used, k) \in Seq(PooledConn)
    BY <1>1, <2>2, RemoveAtIn
  <2>4. PoolType([s EXCEPT !.free_used = RemoveAt(s.free_used, k)])
    BY <2>3, FreeListsType
  <2>5. [s EXCEPT !.free_used = RemoveAt(s.free_used, k)].requests = s.requests
    BY DEF PoolType, PoolStates
  <2>6. s.free_used[k] \in PooledConn
    BY <1>1, <2>2
  <2>7. QED
    BY <1>2, <2>4, <2>5, <2>6 DEF Candidate, WithoutCandidate, k
<1>3. CASE UsedCandidates(s, i) = {}
  <2>1. s.free_new # <<>>
    BY <1>3 DEF HasCandidate, NewCandidates
  <2>2. Front(s.free_new) \in Seq(PooledConn) /\ Last(s.free_new) \in PooledConn
    BY <1>1, <2>1, FrontLastIn
  <2>3. PoolType([s EXCEPT !.free_new = Front(s.free_new)])
    BY <2>2, FreeListsType
  <2>4. [s EXCEPT !.free_new = Front(s.free_new)].requests = s.requests
    BY DEF PoolType, PoolStates
  <2>5. QED
    BY <1>3, <2>2, <2>3, <2>4 DEF Candidate, WithoutCandidate
<1>4. QED
  BY <1>2, <1>3

\* The three verdicts of check_connection keep the type.
LEMMA CheckTypes ==
    ASSUME NEW s, PoolType(s), NEW i \in DOMAIN s.requests, HasCandidate(s, i)
    PROVE  /\ PoolType(CheckUnfit(s, i))
           /\ PoolType(CheckFit(s, i)) /\ i \in DOMAIN CheckFit(s, i).requests
           /\ PoolType(CheckNeedsPing(s, i))
<1> DEFINE w == WithoutCandidate(s, i)
           conn == Candidate(s, i)
           fit == [s.requests[i] EXCEPT !.conn = {conn}, !.completed = TRUE]
           ping == [s.requests[i] EXCEPT !.conn = {conn},
                                         !.requires_ping = TRUE]
<1>1. conn \in PooledConn /\ PoolType(w) /\ w.requests = s.requests
  BY CandidateType
<1> HIDE DEF w, conn
<1>2. {conn} \in Option(PooledConn)
  BY <1>1, OptionSome
<1>2a. fit \in Request /\ ping \in Request
  BY <1>2, RequestIn DEF Request
<1> HIDE DEF fit, ping
<1>3. PoolType(CheckUnfit(s, i))
  BY <1>1, DropConnType DEF CheckUnfit, w, conn
<1>4. /\ PoolType(SetRequest(w, i, fit)) /\ PoolType(SetRequest(w, i, ping))
      /\ i \in DOMAIN SetRequest(w, i, fit).requests
      /\ i \in DOMAIN SetRequest(w, i, ping).requests
  BY <1>1, <1>2a, SetRequestType
<1>5. CheckFit(s, i) = SetRequest(w, i, fit)
  BY DEF CheckFit, w, conn, fit
<1>6. CheckNeedsPing(s, i) = AddRequestForBg(SetRequest(w, i, ping), i)
  BY DEF CheckNeedsPing, w, conn, ping
<1>7. QED
  BY <1>3, <1>4, <1>5, <1>6, AddRequestForBgType

\* The growth fulfill asks for is a number.
LEMMA GrowthIsNat ==
    ASSUME NEW s, PoolType(s), NEW i \in DOMAIN s.requests
    PROVE  GrowthFor(s, i) \in Nat
<1> DEFINE r == s.requests[i]
           fits == {k \in DOMAIN s.free_used : Accepts(r, s.free_used[k])}
<1>1. DOMAIN s.free_used = 1..Len(s.free_used) /\ Len(s.free_used) \in Nat
      /\ Len(s.free_new) \in Nat
  BY Fields, LenProperties
<1>2. IsFiniteSet(fits)
  <2>1. IsFiniteSet(1..Len(s.free_used))
    BY <1>1, FS_Interval
  <2>2. fits \subseteq 1..Len(s.free_used)
    BY <1>1
  <2> HIDE DEF fits
  <2>3. QED
    BY <2>1, <2>2, FS_Subset
<1>3. Cardinality(fits) \in Nat
  BY <1>2, FS_CardinalityType
<1>4. CompatibleIdleCount(s, r) \in Nat
  BY <1>1, <1>3 DEF CompatibleIdleCount
<1> HIDE DEF r
<1>5. QED
  BY <1>4, CountsAreNat, SizeAssumption
     DEF GrowthFor, Monus, Least, Greatest, r

\* fulfill without a candidate keeps the type in each of its four cases.
LEMMA QueueForBgType ==
    ASSUME NEW s, PoolType(s), NEW i \in DOMAIN s.requests
    PROVE  PoolType(QueueForBg(s, i))
<1> DEFINE r == [s.requests[i] EXCEPT !.requires_ping = FALSE]
           s0 == SetRequest(s, i, r)
           rep == SetRequest(s, i, [r EXCEPT !.is_replacing = TRUE])
           ext == SetRequest(s, i, [r EXCEPT !.is_extra = TRUE])
           vnew == [rep EXCEPT !.to_drop = @ \cup {Last(s0.free_new)},
                               !.free_new = Front(@)]
           vused == [rep EXCEPT !.to_drop = @ \cup {Last(s0.free_used)},
                                !.free_used = Front(@)]
           grow == ScheduleOpenEffects(s0, GrowthFor(s0, i))
<1>1. /\ r \in Request /\ [r EXCEPT !.is_replacing = TRUE] \in Request
      /\ [r EXCEPT !.is_extra = TRUE] \in Request
  BY RequestIn DEF Request
<1> HIDE DEF r
<1>2. /\ PoolType(s0) /\ PoolType(rep) /\ PoolType(ext)
      /\ i \in DOMAIN s0.requests /\ i \in DOMAIN rep.requests
      /\ i \in DOMAIN ext.requests
  BY <1>1, SetRequestType
<1>3. rep.free_new = s0.free_new /\ rep.free_used = s0.free_used
  BY DEF SetRequest, PoolType, PoolStates
<1> HIDE DEF s0, rep, ext
<1>4. s0.free_new # <<>> => PoolType(vnew) /\ i \in DOMAIN vnew.requests
  <2>1. SUFFICES ASSUME s0.free_new # <<>>
                 PROVE  PoolType(vnew) /\ i \in DOMAIN vnew.requests
    OBVIOUS
  <2>2. Front(rep.free_new) \in Seq(PooledConn) /\ Last(s0.free_new) \in PooledConn
    BY <1>2, <1>3, <2>1, Fields, FrontLastIn
  <2>3. QED
    BY <1>2, <2>2 DEF PoolType, PoolStates
<1>5. s0.free_used # <<>> => PoolType(vused) /\ i \in DOMAIN vused.requests
  <2>1. SUFFICES ASSUME s0.free_used # <<>>
                 PROVE  PoolType(vused) /\ i \in DOMAIN vused.requests
    OBVIOUS
  <2>2. Front(rep.free_used) \in Seq(PooledConn) /\ Last(s0.free_used) \in PooledConn
    BY <1>2, <1>3, <2>1, Fields, FrontLastIn
  <2>3. QED
    BY <1>2, <2>2 DEF PoolType, PoolStates
<1>6. PoolType(grow)
  BY <1>2, GrowthIsNat, ScheduleOpenEffectsType
<1>7. i \in DOMAIN grow.requests
  BY <1>2 DEF ScheduleOpenEffects, PoolType, PoolStates
<1> HIDE DEF vnew, vused, grow
<1>8. QueueForBg(s, i) = AddRequestForBg(
         CASE AtCapacity(s0) /\ s0.free_new # <<>> -> vnew
           [] AtCapacity(s0) /\ s0.free_new = <<>> /\ s0.free_used # <<>> -> vused
           [] AtCapacity(s0) /\ NothingFree(s0) /\ s0.mode = "FORCEGET" -> ext
           [] ~AtCapacity(s0) /\ CclassMatches(s0.requests[i]) -> grow
           [] OTHER -> s0, i)
  BY DEF QueueForBg, r, s0, rep, ext, vnew, vused, grow
<1>9. QED
  BY <1>2, <1>4, <1>5, <1>6, <1>7, <1>8, AddRequestForBgType

\* finish_completed_request moves the connection to busy, which stays finite.
LEMMA FinishCompletedRequestType ==
    ASSUME NEW s, PoolType(s), NEW i \in DOMAIN s.requests
    PROVE  PoolType(FinishCompletedRequest(s, i))
<1> DEFINE conn == s.requests[i].conn
           taken == {[c EXCEPT !.ever_acquired = TRUE] : c \in conn}
<1>1. conn \subseteq PooledConn /\ (conn = {} \/ \E x \in PooledConn : conn = {x})
  BY RequestIn, RequestFields, OptionIsFinite
<1>2. taken \subseteq PooledConn
  BY <1>1 DEF PooledConn
<1>3. taken = {} \/ \E x : taken = {x}
  <2>1. CASE conn = {}
    BY <2>1
  <2>2. CASE conn # {}
    <3>1. PICK x : conn = {x}
      BY <1>1, <2>2
    <3>2. taken = {[x EXCEPT !.ever_acquired = TRUE]}
      BY <3>1
    <3>3. QED
      BY <3>2
  <2>3. QED
    BY <2>1, <2>2
<1>4. IsFiniteSet(taken)
  BY <1>3, FS_EmptySet, FS_Singleton
<1> HIDE DEF taken
<1>5. IsFiniteSet(s.busy \cup taken) /\ s.busy \cup taken \subseteq PooledConn
  BY <1>2, <1>4, Fields, FS_Union
<1>6. PoolType([s EXCEPT !.requests = RemoveAt(@, i)])
  BY WithoutRequestType
<1>7. [s EXCEPT !.requests = RemoveAt(@, i)].busy = s.busy
  BY DEF PoolType, PoolStates
<1>8. PoolType([[s EXCEPT !.requests = RemoveAt(@, i)]
                  EXCEPT !.busy = s.busy \cup taken])
  BY <1>5, <1>6, BusyType
<1>9. FinishCompletedRequest(s, i) = [[s EXCEPT !.requests = RemoveAt(@, i)]
                                        EXCEPT !.busy = s.busy \cup taken]
  BY DEF FinishCompletedRequest, taken, PoolType, PoolStates
<1>10. QED
  BY <1>8, <1>9

-----------------------------------------------------------------------------
(* The reaper. *)

\* peek_next_request names at most one task, and that task has a request.
LEMMA PeekType ==
    ASSUME NEW s, PoolType(s)
    PROVE  /\ PeekNextRequest(s) \in Option(Tasks)
           /\ \A t \in PeekNextRequest(s) : HasRequest(s, t)
<1> DEFINE queued == {i \in DOMAIN s.requests : QueuedForBg(s.requests[i])}
<1>1. queued \in SUBSET Nat
  BY Fields, LenProperties
<1>2. queued # {} => Min(queued) \in DOMAIN s.requests
  <2> HIDE DEF queued
  <2>1. queued # {} => Min(queued) \in queued
    BY <1>1, MinIn
  <2>2. QED
    BY <2>1 DEF queued
<1> HIDE DEF queued
<1>3. queued # {} => s.requests[Min(queued)].task \in Tasks
  BY <1>2, RequestIn, RequestFields
<1>4. PeekNextRequest(s) = IF queued # {} /\ Workable(s, s.requests[Min(queued)])
                           THEN {s.requests[Min(queued)].task} ELSE {}
  BY DEF PeekNextRequest, queued
<1>5. PeekNextRequest(s) \in Option(Tasks)
  BY <1>3, <1>4 DEF Option
<1>6. QED
  BY <1>2, <1>4, <1>5 DEF HasRequest

\* get_next_request keeps the type.
LEMMA GetNextRequestType ==
    ASSUME NEW s, PoolType(s)
    PROVE  PoolType(GetNextRequest(s))
<1>1. CASE PeekNextRequest(s) = {}
  BY <1>1 DEF GetNextRequest
<1>2. CASE PeekNextRequest(s) # {}
  <2> DEFINE t == CHOOSE x \in PeekNextRequest(s) : TRUE
             i == RequestPosition(s, t)
  <2>1. HasRequest(s, t)
    BY <1>2, PeekType
  <2> HIDE DEF t
  <2>2. i \in DOMAIN s.requests /\ s.requests[i] \in Request
    BY <2>1, PositionIn, RequestIn
  <2> HIDE DEF i
  <2>3. [s.requests[i] EXCEPT !.in_progress = s.requests[i].waiting] \in Request
    BY <2>2 DEF Request
  <2>4. PoolType(SetRequest(s, i,
            [s.requests[i] EXCEPT !.in_progress = s.requests[i].waiting]))
    BY <2>2, <2>3, SetRequestType
  <2>5. QED
    BY <1>2, <2>4 DEF GetNextRequest, t, i
<1>3. QED
  BY <1>1, <1>2

\* post_process_request keeps the type on each of its paths.
LEMMA PostProcessRequestType ==
    ASSUME NEW s, PoolType(s), NEW t
    PROVE  PoolType(PostProcessRequest(s, t))
<1> DEFINE i == RequestPosition(s, t)
           r == s.requests[i]
           r0 == [r EXCEPT !.in_progress = FALSE, !.bg_processing = FALSE,
                           !.completed = @ \/ r.conn # {}]
           s0 == SetRequest(s, i, r0)
           s1 == IF r.conn = {} /\ r.requires_ping
                 THEN EnsureMinConnections(s0) ELSE s0
<1>1. CASE ~HasRequest(s, t)
  BY <1>1 DEF PostProcessRequest
<1>2. CASE HasRequest(s, t)
  <2>1. i \in DOMAIN s.requests /\ r \in Request
    BY <1>2, PositionIn, RequestIn
  <2> HIDE DEF i, r
  <2>2. r0 \in Request
    BY <2>1 DEF Request
  <2> HIDE DEF r0
  <2>3. PoolType(s0) /\ i \in DOMAIN s0.requests
    BY <2>1, <2>2, SetRequestType DEF r
  <2> HIDE DEF s0
  <2>4. PoolType(EnsureMinConnections(s0))
    BY <2>3, EnsureMinConnectionsType
  <2>5. EnsureMinConnections(s0).requests = s0.requests
    BY <2>3 DEF EnsureMinConnections, NotifyBg, ScheduleOpenEffects, PoolType, PoolStates
  <2>6. PoolType(s1) /\ i \in DOMAIN s1.requests
    BY <2>3, <2>4, <2>5
  <2> HIDE DEF s1
  <2>7. PoolType(Reject([s1 EXCEPT !.requests = RemoveAt(@, i)], r))
    BY <2>1, <2>6, WithoutRequestType, RejectType
  <2>8. PostProcessRequest(s, t) = WakeWaiters(
            IF r.waiting THEN s1
            ELSE Reject([s1 EXCEPT !.requests = RemoveAt(@, i)], r))
    BY <1>2 DEF PostProcessRequest, i, r, r0, s0, s1
  <2>9. QED
    BY <2>6, <2>7, <2>8, WakeWaitersType
<1>3. QED
  BY <1>1, <1>2

\* Handing a connection to a waiting request keeps the type.
LEMMA HandOverType ==
    ASSUME NEW s, PoolType(s), NEW i \in DOMAIN s.requests,
           NEW conn \in PooledConn
    PROVE  PoolType(HandOver(s, i, conn))
<1>1. {conn} \in Option(PooledConn)
  BY OptionSome
<1>2. [s.requests[i] EXCEPT !.conn = {conn}, !.completed = TRUE,
                            !.bg_processing = FALSE] \in Request
  <2>1. \A r \in Request :
            [r EXCEPT !.conn = {conn}, !.completed = TRUE,
                      !.bg_processing = FALSE] \in Request
    BY <1>1 DEF Request
  <2>2. QED
    BY <2>1, RequestIn
<1>3. QED
  BY <1>2, SetRequestType, WakeWaitersType DEF HandOver

\* complete_open_effect keeps the type.
LEMMA CompleteOpenEffectType ==
    ASSUME NEW s, PoolType(s), NEW id
    PROVE  PoolType(CompleteOpenEffect(s, id))
<1>1. IsFiniteSet(s.in_flight \ {id})
  BY Fields, FS_Difference
<1>2. QED
  BY <1>1 DEF CompleteOpenEffect, PoolType, PoolStates

\* The first member of a non-empty set of positions is a member.
LEMMA FirstIn ==
    ASSUME NEW s, PoolType(s), NEW D \in SUBSET DOMAIN s.requests, D # {}
    PROVE  Min(D) \in DOMAIN s.requests
<1>1. D \in SUBSET Nat
  BY Fields, LenProperties
<1>2. QED
  BY <1>1, MinIn

\* A refused open keeps the type.
LEMMA PostCreateFailedType ==
    ASSUME NEW s, PoolType(s), NEW id
    PROVE  PoolType(PostCreateFailed(s, id))
<1> DEFINE s0 == CompleteOpenEffect(s, id)
           told == {i \in DOMAIN s0.requests :
                      LET r == s0.requests[i]
                      IN /\ r.bg_processing /\ r.waiting /\ ~r.requires_ping
                         /\ ~r.is_extra /\ ~r.is_replacing
                         /\ CclassMatches(r) /\ r.conn = {}}
           r0 == [s0.requests[Min(told)] EXCEPT !.bg_processing = FALSE,
                                                !.error = TRUE]
<1>1. PoolType(s0)
  BY CompleteOpenEffectType
<1> HIDE DEF s0
<1>2. told \in SUBSET DOMAIN s0.requests
  OBVIOUS
<1> HIDE DEF told
<1>3. CASE told # {}
  <2>1. Min(told) \in DOMAIN s0.requests
    BY <1>1, <1>2, <1>3, FirstIn
  <2>2. r0 \in Request
    BY <1>1, <2>1, RequestIn DEF Request
  <2> HIDE DEF r0
  <2>3. PoolType(WakeWaiters(SetRequest(s0, Min(told), r0)))
    BY <1>1, <2>1, <2>2, SetRequestType, WakeWaitersType
  <2>4. QED
    BY <1>1, <2>3 DEF PostCreateFailed, s0, told, r0
<1>4. CASE told = {}
  BY <1>1, <1>4 DEF PostCreateFailed, s0, told
<1>5. QED
  BY <1>3, <1>4

\* post_create_conn keeps the type wherever the connection goes.
LEMMA PostCreateConnType ==
    ASSUME NEW s, PoolType(s), NEW conn \in PooledConn
    PROVE  PoolType(PostCreateConn(s, conn))
<1> DEFINE s0 == CompleteOpenEffect(s, conn.id)
           full == ActiveOpenCount(s0) + 1 >= PoolMax
           takers == {i \in DOMAIN s0.requests :
                        /\ AwaitsConn(s0.requests[i])
                        /\ \/ Accepts(s0.requests[i], conn)
                           \/ ~CclassMatches(s0.requests[i]) /\ full}
           drop == NotifyBg([s0 EXCEPT !.to_drop = s0.to_drop \cup {conn}])
           free == WakeWaiters([s0 EXCEPT !.free_new = Append(s0.free_new, conn)])
           r0 == [s0.requests[Min(takers)] EXCEPT !.conn = {conn},
                                                  !.is_replacing = TRUE]
<1>1. PoolType(s0)
  BY CompleteOpenEffectType
<1> HIDE DEF s0
<1>2. takers \in SUBSET DOMAIN s0.requests
  OBVIOUS
<1> HIDE DEF takers
<1>3. PoolType(drop)
  BY <1>1, Fields, ToDropType, NotifyBgType
<1>4. PoolType(free)
  BY <1>1, Fields, AppendProperties, FreeListsType, WakeWaitersType
<1>5. takers # {} => /\ PoolType(HandOver(s0, Min(takers), conn))
                     /\ PoolType(SetRequest(s0, Min(takers), r0))
  <2>1. SUFFICES ASSUME takers # {}
                 PROVE  /\ PoolType(HandOver(s0, Min(takers), conn))
                        /\ PoolType(SetRequest(s0, Min(takers), r0))
    OBVIOUS
  <2>2. Min(takers) \in DOMAIN s0.requests
    BY <1>1, <1>2, <2>1, FirstIn
  <2>3. {conn} \in Option(PooledConn)
    BY OptionSome
  <2>4. r0 \in Request
    BY <1>1, <2>2, <2>3, RequestIn DEF Request
  <2> HIDE DEF r0
  <2>5. QED
    BY <1>1, <2>2, <2>4, HandOverType, SetRequestType
<1> HIDE DEF drop, free, r0
<1>6. PostCreateConn(s, conn) =
        CASE ~s0.open -> drop
          [] s0.open /\ takers = {} -> free
          [] s0.open /\ takers # {} /\ Accepts(s0.requests[Min(takers)], conn) ->
               HandOver(s0, Min(takers), conn)
          [] OTHER -> SetRequest(s0, Min(takers), r0)
  BY DEF PostCreateConn, s0, takers, drop, free, r0
<1>7. CASE takers = {}
  BY <1>3, <1>4, <1>6, <1>7
<1>8. CASE takers # {}
  BY <1>3, <1>5, <1>6, <1>8
<1>9. QED
  BY <1>7, <1>8

\* return_connection_helper keeps the type wherever the connection goes.
LEMMA ReturnConnectionHelperType ==
    ASSUME NEW s, PoolType(s), NEW conn \in PooledConn, NEW fit \in BOOLEAN
    PROVE  PoolType(ReturnConnectionHelper(s, conn, fit))
<1> DEFINE takers == Takers(s, conn)
           free == [s EXCEPT !.free_used = Append(s.free_used, NotExtra(conn))]
<1>1. NotExtra(conn) \in PooledConn
  BY NotExtraType
<1>2. takers \in SUBSET DOMAIN s.requests
  BY DEF Takers
<1> HIDE DEF takers
<1>3. PoolType(DropConn(s, NotExtra(conn)))
  BY <1>1, DropConnType
<1>4. PoolType(free)
  BY <1>1, Fields, AppendProperties, FreeListsType
<1>5. takers # {} => PoolType(HandOver(s, Min(takers), NotExtra(conn)))
  BY <1>1, <1>2, FirstIn, HandOverType
<1> HIDE DEF free
<1>6. PICK surplus \in BOOLEAN : ReturnConnectionHelper(s, conn, fit) =
        CASE ~fit \/ surplus -> DropConn(s, NotExtra(conn))
          [] fit /\ ~surplus /\ takers # {} ->
               HandOver(s, Min(takers), NotExtra(conn))
          [] OTHER -> free
  BY DEF ReturnConnectionHelper, takers, free
<1>7. QED
  BY <1>3, <1>4, <1>5, <1>6

-----------------------------------------------------------------------------
(* Closing. *)

\* Everything the pool owns is a connection.
LEMMA OwnedConnsType ==
    ASSUME NEW s, PoolType(s)
    PROVE  OwnedConns(s) \subseteq PooledConn
<1>1. ToSet(s.free_new) \subseteq PooledConn /\ ToSet(s.free_used) \subseteq PooledConn
  BY Fields DEF ToSet
<1>2. \A i \in DOMAIN s.requests : s.requests[i].conn \subseteq PooledConn
  BY RequestIn, RequestFields, OptionIsFinite
<1>3. QED
  BY <1>1, <1>2, Fields DEF OwnedConns

\* The shutdown section of close keeps the type.
LEMMA ShutDownType ==
    ASSUME NEW s, PoolType(s)
    PROVE  PoolType(ShutDown(s))
<1> DEFINE kept == InProgress(s.requests)
           left == [i \in DOMAIN kept |-> [kept[i] EXCEPT !.waiting = FALSE,
                                                          !.conn = {}]]
<1>1. kept \in Seq(Request)
  BY Fields, InProgressType
<1> HIDE DEF kept
<1>2. \A r \in Request : [r EXCEPT !.waiting = FALSE, !.conn = {}] \in Request
  BY DEF Request, Option
<1>3. /\ \A i \in DOMAIN kept : kept[i] \in Request
      /\ DOMAIN kept = 1..Len(kept) /\ Len(kept) \in Nat
  BY <1>1, LenProperties
<1>3a. left \in [1..Len(kept) -> Request]
  BY <1>2, <1>3
<1> HIDE DEF left
<1>4. left \in Seq(Request)
  BY <1>3, <1>3a, FcnIsSeq
<1>5. IsFiniteSet({})
  BY FS_EmptySet
<1>6. <<>> \in Seq(PooledConn) /\ <<>> \in Seq(ConnIds)
  BY EmptySeq
<1> DEFINE s1 == [s EXCEPT !.open = FALSE, !.open_effects = <<>>,
                           !.to_drop = OwnedConns(s),
                           !.free_new = <<>>, !.free_used = <<>>, !.busy = {},
                           !.requests = left]
<1>7. PoolType(s1)
  BY <1>4, <1>5, <1>6, OwnedConnsType DEF PoolType, PoolStates
<1>8. ShutDown(s) = WakeWaiters(NotifyBg(s1))
  BY DEF ShutDown, kept, left
<1> HIDE DEF s1
<1>9. QED
  BY <1>7, <1>8, NotifyBgType, WakeWaitersType

\* close_all_connections keeps the type.
LEMMA CloseAllType ==
    ASSUME NEW s, PoolType(s)
    PROVE  PoolType(CloseAll(s))
<1> DEFINE left == [i \in DOMAIN s.requests |->
                      [s.requests[i] EXCEPT !.conn = {}]]
<1>1. \A i \in DOMAIN s.requests : [s.requests[i] EXCEPT !.conn = {}] \in Request
  BY RequestIn DEF Request, Option
<1>2. left \in [1..Len(s.requests) -> Request] /\ Len(s.requests) \in Nat
  BY <1>1, Fields, LenProperties
<1>3. left \in Seq(Request)
  BY <1>2
<1> HIDE DEF left
<1>4. CloseAll(s) = [s EXCEPT !.open = FALSE, !.free_new = <<>>,
                              !.free_used = <<>>, !.busy = {}, !.to_drop = {},
                              !.requests = left]
  BY DEF CloseAll, left
<1>5. IsFiniteSet({}) /\ <<>> \in Seq(PooledConn)
  BY FS_EmptySet, EmptySeq
<1>6. QED
  BY <1>3, <1>4, <1>5 DEF PoolType, PoolStates

\* PoolEngine::start builds a well-typed state.
LEMMA StartStateType ==
    ASSUME NEW mode \in Modes, NEW timeout \in BOOLEAN
    PROVE  PoolType(StartState(mode, timeout))
<1> DEFINE s == [open |-> TRUE, mode |-> mode, timeout |-> timeout,
                 free_new |-> <<>>, free_used |-> <<>>, busy |-> {},
                 to_drop |-> {}, requests |-> <<>>, open_effects |-> <<>>,
                 in_flight |-> {}, next_conn_id |-> 1, bg |-> FALSE,
                 parked |-> {}]
<1>1. IsFiniteSet({}) /\ 1 \in ConnIds
  BY FS_EmptySet DEF ConnIds
<1>2. PoolType(s)
  BY <1>1, EmptySeq DEF PoolType, PoolStates
<1> HIDE DEF s
<1>3. PoolType(ScheduleOpenEffects(s, PoolMin))
  BY <1>2, SizeAssumption, ScheduleOpenEffectsType
<1>4. QED
  BY <1>3 DEF StartState, s

-----------------------------------------------------------------------------
(* What an action leaves alone keeps its type. *)

TaskTypes ==
    pc \in [Tasks -> TaskPcs] /\ lease \in [Tasks -> Nat] /\ timed \subseteq Tasks

ReaperTypes ==
    /\ rpc \in ReaperPcs /\ cur \in Option(Tasks)
    /\ held \in Option(PooledConn) /\ fresh \in Option(PooledConn)

CloseTypes ==
    /\ cpc \in [Closers -> CloserPcs]
    /\ joinable \in BOOLEAN /\ handles \in BOOLEAN

Owners == Tasks \cup Closers \cup {Nobody, Reaper, Observer}

\* TypeOK, grouped by the variables that change together.
LEMMA TypeParts ==
    TypeOK <=> /\ PoolType(pool) /\ lock \in Owners /\ drops \in Seq(Nat)
               /\ TaskTypes /\ ReaperTypes /\ CloseTypes
               /\ alive \subseteq ConnIds
BY DEF TypeOK, TaskTypes, ReaperTypes, CloseTypes, Owners

\* The same grouping for the state after a step.
LEMMA TypePartsNext ==
    /\ PoolType(pool)' /\ lock' \in Owners /\ drops' \in Seq(Nat)
    /\ TaskTypes' /\ ReaperTypes' /\ CloseTypes' /\ alive' \subseteq ConnIds
    => TypeOK'
BY DEF TypeOK, TaskTypes, ReaperTypes, CloseTypes, Owners

\* Variables that do not change keep their types.
LEMMA KeepsTypes ==
    /\ TaskTypes /\ UNCHANGED taskVars => TaskTypes'
    /\ ReaperTypes /\ UNCHANGED reaperVars => ReaperTypes'
    /\ CloseTypes /\ UNCHANGED closeVars => CloseTypes'
BY DEF TaskTypes, ReaperTypes, CloseTypes, taskVars, reaperVars, closeVars

\* Ending a critical section with a well-typed pool.
LEMMA CommitType ==
    ASSUME NEW s, PoolType(s), Commit(s)
    PROVE  PoolType(pool)' /\ lock' \in Owners
BY DEF Commit, Owners

\* Ending one iteration of a loop under the lock with a well-typed pool.
LEMMA ContinueType ==
    ASSUME NEW s, PoolType(s), NEW p \in Owners, Continue(p, s)
    PROVE  PoolType(pool)' /\ lock' \in Owners
BY DEF Continue

\* The ids of connections are connection ids.
LEMMA IdsType ==
    ASSUME NEW S \in SUBSET PooledConn
    PROVE  Ids(S) \subseteq ConnIds
BY DEF Ids, PooledConn

\* Moving one task keeps the types of the tasks.
LEMMA SetPc ==
    ASSUME TaskTypes, NEW t \in Tasks, NEW v \in TaskPcs,
           pc' = [pc EXCEPT ![t] = v], UNCHANGED <<lease, timed>>
    PROVE  TaskTypes'
BY DEF TaskTypes

\* A task that has a request has one at a position of the queue.
LEMMA PositionType ==
    ASSUME TypeOK, NEW t, HasRequest(pool, t)
    PROVE  Position(t) \in DOMAIN pool.requests /\ Req(t) \in Request
<1>1. PoolType(pool)
  BY TypeParts
<1>2. Position(t) \in DOMAIN pool.requests
  BY PositionIn DEF Position
<1>3. QED
  BY <1>1, <1>2, RequestIn DEF Req

\* Registering on async_waiters keeps the type.
LEMMA ParkType ==
    ASSUME NEW s, PoolType(s), NEW t \in Tasks
    PROVE  PoolType(Park(s, t))
BY DEF Park, PoolType, PoolStates

\* Allocating a connection id keeps the type.
LEMMA NextIdType ==
    ASSUME NEW s, PoolType(s)
    PROVE  PoolType([s EXCEPT !.next_conn_id = @ + 1])
<1>1. s.next_conn_id + 1 \in ConnIds
  BY Fields DEF ConnIds
<1>2. QED
  BY <1>1 DEF PoolType, PoolStates

\* Waking the waiters after a drain keeps the type.
LEMMA AfterDrainType ==
    ASSUME TypeOK, NEW p
    PROVE  PoolType(AfterDrain(p))
BY TypeParts, WakeWaitersType DEF AfterDrain

\* Taking a connection out of busy keeps the type.
LEMMA TakeBusyType ==
    ASSUME NEW s, PoolType(s), NEW c
    PROVE  PoolType(TakeBusy(s, c))
<1>1. IsFiniteSet(s.busy \ {c}) /\ s.busy \ {c} \in SUBSET PooledConn
  BY Fields, FS_Difference
<1>2. QED
  BY <1>1, BusyType DEF TakeBusy

\* Receiving one dropped id keeps the type, known or not.
LEMMA DrainedType ==
    ASSUME NEW s, PoolType(s), NEW id, NEW fit \in BOOLEAN
    PROVE  PoolType(Drained(s, id, fit))
<1> DEFINE found == {c \in s.busy : c.id = id}
           conn == CHOOSE c \in found : TRUE
<1>1. CASE found = {}
  BY <1>1 DEF Drained
<1>2. CASE found # {}
  <2>1. conn \in PooledConn
    BY <1>2, Fields
  <2> HIDE DEF conn
  <2>2. PoolType(ReturnConnectionHelper(TakeBusy(s, conn), conn, fit))
    BY <2>1, TakeBusyType, ReturnConnectionHelperType
  <2>3. QED
    BY <2>2 DEF Drained, conn
<1>3. QED
  BY <1>1, <1>2

-----------------------------------------------------------------------------
(* One lemma per action. *)

\* DrainOne keeps TypeOK.
LEMMA DrainOneType ==
    ASSUME TypeOK, NEW p \in Owners, DrainOne(p)
    PROVE  TypeOK'
<1>1. PICK fit \in BOOLEAN : Continue(p, Drained(pool, Head(drops), fit))
  BY DEF DrainOne, Fitness
<1>2. PoolType(Drained(pool, Head(drops), fit))
  BY TypeParts, DrainedType
<1>3. PoolType(pool)' /\ lock' \in Owners
  BY <1>1, <1>2, ContinueType
<1>4. drops' \in Seq(Nat)
  BY TypeParts DEF DrainOne
<1>5. QED
  BY <1>3, <1>4, TypeParts, TypePartsNext, KeepsTypes DEF DrainOne

\* Observe keeps TypeOK.
LEMMA ObserveType ==
    ASSUME TypeOK, Observe
    PROVE  TypeOK'
<1>1. PoolType(pool)' /\ lock' \in Owners
  BY AfterDrainType, CommitType DEF Observe
<1>2. QED
  BY <1>1, TypeParts, TypePartsNext, KeepsTypes DEF Observe

\* Acquire keeps TypeOK.
LEMMA AcquireType ==
    ASSUME TypeOK, NEW t \in Tasks, Acquire(t)
    PROVE  TypeOK'
<1>1. PoolType(AfterDrain(t))
  BY AfterDrainType
<1>2. PoolType(pool)' /\ lock' \in Owners
  <2>1. CASE pool.open
    <3>1. PICK cclass \in AskClasses, wantsNew \in AskNew :
                 Commit(EnqueueRequest(AfterDrain(t), t, cclass, wantsNew))
      BY <2>1 DEF Acquire
    <3>2. cclass \in Classes /\ wantsNew \in BOOLEAN
      BY EngineAssumption
    <3>3. PoolType(EnqueueRequest(AfterDrain(t), t, cclass, wantsNew))
      BY <1>1, <3>2, EnqueueRequestType
    <3>4. QED
      BY <3>1, <3>3, CommitType
  <2>2. CASE ~pool.open
    <3>1. Commit(AfterDrain(t))
      BY <2>2 DEF Acquire
    <3>2. QED
      BY <1>1, <3>1, CommitType
  <2>3. QED
    BY <2>1, <2>2
<1>3. TaskTypes'
  <2>1. TaskTypes
    BY TypeParts
  <2>2. CASE pool.open
    BY <2>1, <2>2 DEF Acquire, TaskTypes, TaskPcs
  <2>3. CASE ~pool.open
    BY <2>1, <2>3 DEF Acquire, TaskTypes, TaskPcs
  <2>4. QED
    BY <2>2, <2>3
<1>4. QED
  BY <1>2, <1>3, TypeParts, TypePartsNext, KeepsTypes DEF Acquire

\* PollFails keeps TypeOK.
LEMMA PollFailsType ==
    ASSUME TypeOK, NEW t \in Tasks, PollFails(t)
    PROVE  TypeOK'
<1> DEFINE i == Position(t)
           s == IF pool.open /\ HasRequest(pool, t)
                THEN SetRequest(pool, i, [pool.requests[i] EXCEPT !.error = FALSE])
                ELSE pool
<1>1. PoolType(s)
  <2>1. CASE pool.open /\ HasRequest(pool, t)
    <3>1. i \in DOMAIN pool.requests /\ pool.requests[i] \in Request
      BY <2>1, PositionType DEF Req
    <3> HIDE DEF i
    <3>2. [pool.requests[i] EXCEPT !.error = FALSE] \in Request
      BY <3>1 DEF Request
    <3>3. PoolType(SetRequest(pool, i, [pool.requests[i] EXCEPT !.error = FALSE]))
      BY <3>1, <3>2, TypeParts, SetRequestType
    <3>4. QED
      BY <2>1, <3>3
  <2>2. CASE ~(pool.open /\ HasRequest(pool, t))
    BY <2>2, TypeParts
  <2>3. QED
    BY <2>1, <2>2
<1>2. Commit(AbandonRequest(s, t))
  BY DEF PollFails
<1> HIDE DEF s
<1>3. PoolType(pool)' /\ lock' \in Owners
  BY <1>1, <1>2, AbandonRequestType, CommitType
<1>4. TaskTypes'
  BY TypeParts, SetPc DEF PollFails, TaskPcs
<1>5. QED
  BY <1>3, <1>4, TypeParts, TypePartsNext, KeepsTypes DEF PollFails

\* PollCompleted keeps TypeOK.
LEMMA PollCompletedType ==
    ASSUME TypeOK, NEW t \in Tasks, PollCompleted(t)
    PROVE  TypeOK'
<1>1. Position(t) \in DOMAIN pool.requests /\ Req(t) \in Request
  BY PositionType DEF PollCompleted, Pollable
<1>2. PoolType(FinishCompletedRequest(pool, Position(t)))
  BY <1>1, TypeParts, FinishCompletedRequestType
<1>3. PoolType(pool)' /\ lock' \in Owners
  BY <1>2, CommitType DEF PollCompleted
<1>4. TaskTypes'
  <2>1. TaskTypes
    BY TypeParts
  <2>2. CASE Req(t).conn = {}
    BY <2>1, <2>2, SetPc DEF PollCompleted, TaskPcs
  <2>3. CASE Req(t).conn # {}
    <3>1. PICK c \in Req(t).conn : lease' = [lease EXCEPT ![t] = c.id]
      BY <2>3 DEF PollCompleted
    <3>2. c \in PooledConn
      BY <1>1, RequestFields, OptionIsFinite
    <3>3. c.id \in Nat
      BY <3>2 DEF PooledConn, ConnIds
    <3>4. QED
      BY <2>1, <2>3, <3>1, <3>3 DEF PollCompleted, TaskTypes, TaskPcs
  <2>4. QED
    BY <2>2, <2>3
<1>5. QED
  BY <1>3, <1>4, TypeParts, TypePartsNext, KeepsTypes DEF PollCompleted

\* PollPending keeps TypeOK.
LEMMA PollPendingType ==
    ASSUME TypeOK, NEW t \in Tasks, PollPending(t)
    PROVE  TypeOK'
<1>1. PoolType(pool)' /\ lock' \in Owners
  BY TypeParts, ParkType, CommitType DEF PollPending
<1>2. QED
  BY <1>1, TypeParts, TypePartsNext, KeepsTypes DEF PollPending

\* ScanUnfit keeps TypeOK.
LEMMA ScanUnfitType ==
    ASSUME TypeOK, NEW t \in Tasks, ScanUnfit(t)
    PROVE  TypeOK'
<1> DEFINE s == CheckUnfit(pool, Position(t))
<1>1. Position(t) \in DOMAIN pool.requests
  BY PositionType DEF ScanUnfit, Scans, Pollable
<1>2. PoolType(s)
  BY <1>1, TypeParts, CheckTypes DEF ScanUnfit
<1>3. Commit(Park(s, t)) \/ Continue(t, s)
  BY DEF ScanUnfit
<1> HIDE DEF s
<1>4. PoolType(pool)' /\ lock' \in Owners
  BY <1>2, <1>3, ParkType, CommitType, ContinueType DEF Owners
<1>5. QED
  BY <1>4, TypeParts, TypePartsNext, KeepsTypes DEF ScanUnfit

\* ScanNeedsPing keeps TypeOK.
LEMMA ScanNeedsPingType ==
    ASSUME TypeOK, NEW t \in Tasks, ScanNeedsPing(t)
    PROVE  TypeOK'
<1>1. Position(t) \in DOMAIN pool.requests
  BY PositionType DEF ScanNeedsPing, Scans, Pollable
<1>2. PoolType(CheckNeedsPing(pool, Position(t)))
  BY <1>1, TypeParts, CheckTypes DEF ScanNeedsPing
<1>3. PoolType(pool)' /\ lock' \in Owners
  BY <1>2, ParkType, CommitType DEF ScanNeedsPing
<1>4. QED
  BY <1>3, TypeParts, TypePartsNext, KeepsTypes DEF ScanNeedsPing

\* ScanFit keeps TypeOK.
LEMMA ScanFitType ==
    ASSUME TypeOK, NEW t \in Tasks, ScanFit(t)
    PROVE  TypeOK'
<1> DEFINE s == CheckFit(pool, Position(t))
<1>1. Position(t) \in DOMAIN pool.requests
  BY PositionType DEF ScanFit, Scans, Pollable
<1>2. PoolType(s) /\ Position(t) \in DOMAIN s.requests
  BY <1>1, TypeParts, CheckTypes DEF ScanFit
<1>3. Commit(FinishCompletedRequest(s, Position(t)))
  BY DEF ScanFit
<1> HIDE DEF s
<1>4. PoolType(pool)' /\ lock' \in Owners
  BY <1>2, <1>3, FinishCompletedRequestType, CommitType
<1>5. Candidate(pool, Position(t)).id \in Nat
  <2>1. Candidate(pool, Position(t)) \in PooledConn
    BY <1>1, TypeParts, CandidateType DEF ScanFit
  <2>2. QED
    BY <2>1 DEF PooledConn, ConnIds
<1>6. TaskTypes'
  BY <1>5, TypeParts DEF ScanFit, TaskTypes, TaskPcs
<1>7. QED
  BY <1>4, <1>6, TypeParts, TypePartsNext, KeepsTypes DEF ScanFit

\* ScanExhausted keeps TypeOK.
LEMMA ScanExhaustedType ==
    ASSUME TypeOK, NEW t \in Tasks, ScanExhausted(t)
    PROVE  TypeOK'
<1>1. Position(t) \in DOMAIN pool.requests
  BY PositionType DEF ScanExhausted, Scans, Pollable
<1>2. PoolType(AbandonRequest(pool, t)) /\ PoolType(QueueForBg(pool, Position(t)))
  BY <1>1, TypeParts, AbandonRequestType, QueueForBgType
<1>3. \/ Commit(AbandonRequest(pool, t))
      \/ Commit(Park(QueueForBg(pool, Position(t)), t))
  BY DEF ScanExhausted
<1>4. PoolType(pool)' /\ lock' \in Owners
  BY <1>2, <1>3, ParkType, CommitType
<1>5. TaskTypes'
  <2>1. TaskTypes
    BY TypeParts
  <2>2. CASE NoConnectionAvailable(pool)
    BY <2>1, <2>2, SetPc DEF ScanExhausted, TaskPcs
  <2>3. CASE ~NoConnectionAvailable(pool)
    BY <2>1, <2>3 DEF ScanExhausted, TaskTypes
  <2>4. QED
    BY <2>2, <2>3
<1>6. QED
  BY <1>4, <1>5, TypeParts, TypePartsNext, KeepsTypes DEF ScanExhausted

\* Abandon keeps TypeOK.
LEMMA AbandonType ==
    ASSUME TypeOK, NEW t \in Tasks, Abandon(t)
    PROVE  TypeOK'
<1>1. PoolType(pool)' /\ lock' \in Owners
  BY TypeParts, AbandonRequestType, WakeWaitersType, CommitType DEF Abandon
<1>2. TaskTypes'
  BY TypeParts, SetPc DEF Abandon, TaskPcs
<1>3. QED
  BY <1>1, <1>2, TypeParts, TypePartsNext, KeepsTypes DEF Abandon

\* Release keeps TypeOK.
LEMMA ReleaseType ==
    ASSUME TypeOK, NEW t \in Tasks, Release(t)
    PROVE  TypeOK'
<1>1. PoolType(pool) /\ TaskTypes
  BY TypeParts
<1>2. TaskTypes'
  BY <1>1, SetPc DEF Release, TaskPcs
<1>3. CASE ~pool.open
  <2>1. Commit(pool) /\ drops' = drops
    BY <1>3 DEF Release
  <2>2. QED
    BY <1>1, <1>2, <2>1, CommitType, TypeParts, TypePartsNext, KeepsTypes
       DEF Release
<1>4. CASE pool.open /\ LeasedConn(t) = {}
  <2>1. Commit(WakeWaiters(NotifyBg(pool))) /\ drops' = Append(drops, lease[t])
    BY <1>4 DEF Release
  <2>2. PoolType(pool)' /\ lock' \in Owners
    BY <1>1, <2>1, NotifyBgType, WakeWaitersType, CommitType
  <2>3. drops' \in Seq(Nat)
    BY <1>1, <2>1, TypeParts, AppendProperties DEF TaskTypes
  <2>4. QED
    BY <1>2, <2>2, <2>3, TypeParts, TypePartsNext, KeepsTypes DEF Release
<1>5. CASE pool.open /\ LeasedConn(t) # {}
  <2>1. PICK fit \in Fitness, c \in LeasedConn(t) :
          Commit(WakeWaiters(ReturnConnectionHelper(TakeBusy(pool, c), c, fit)))
    BY <1>5 DEF Release
  <2>2. drops' = drops
    BY <1>5 DEF Release
  <2>3. c \in PooledConn /\ fit \in BOOLEAN
    BY <1>1, Fields DEF LeasedConn, Fitness
  <2>4. PoolType(pool)' /\ lock' \in Owners
    BY <1>1, <2>1, <2>3, TakeBusyType, ReturnConnectionHelperType,
       WakeWaitersType, CommitType
  <2>5. QED
    BY <1>2, <2>2, <2>4, TypeParts, TypePartsNext, KeepsTypes DEF Release
<1>6. QED
  BY <1>3, <1>4, <1>5

\* DropFromPool keeps TypeOK.
LEMMA DropFromPoolType ==
    ASSUME TypeOK, NEW t \in Tasks, DropFromPool(t)
    PROVE  TypeOK'
<1>1. PoolType(pool) /\ TaskTypes
  BY TypeParts
<1>2. TaskTypes'
  BY <1>1, SetPc DEF DropFromPool, TaskPcs
<1>3. ASSUME NEW c \in LeasedConn(t)
      PROVE  PoolType(WakeWaiters(DropConn(TakeBusy(pool, c), c)))
  <2>1. c \in PooledConn
    BY <1>1, Fields DEF LeasedConn
  <2>2. QED
    BY <1>1, <2>1, TakeBusyType, DropConnType, WakeWaitersType
<1>4. \/ Commit(pool)
      \/ \E c \in LeasedConn(t) : Commit(WakeWaiters(DropConn(TakeBusy(pool, c), c)))
  BY DEF DropFromPool
<1>5. PoolType(pool)' /\ lock' \in Owners
  BY <1>1, <1>3, <1>4, CommitType
<1>6. QED
  BY <1>2, <1>5, TypeParts, TypePartsNext, KeepsTypes DEF DropFromPool

\* DropGuard keeps TypeOK.
LEMMA DropGuardType ==
    ASSUME TypeOK, NEW t \in Tasks, DropGuard(t)
    PROVE  TypeOK'
<1>1. PoolType(pool)'
  BY TypeParts, NotifyBgType, WakeWaitersType DEF DropGuard
<1>2. drops' \in Seq(Nat)
  BY TypeParts, AppendProperties DEF DropGuard, TaskTypes
<1>3. TaskTypes'
  BY TypeParts, SetPc DEF DropGuard, TaskPcs
<1>4. QED
  BY <1>1, <1>2, <1>3, TypeParts, TypePartsNext, KeepsTypes DEF DropGuard

\* ReaperTop keeps TypeOK.
LEMMA ReaperTopType ==
    ASSUME TypeOK, ReaperTop
    PROVE  TypeOK'
<1> DEFINE picks == pool.open /\ cur = {}
           next == IF picks THEN PeekNextRequest(pool) ELSE cur
<1>1. PoolType(pool) /\ ReaperTypes
  BY TypeParts
<1>2. Commit(IF picks THEN GetNextRequest(pool) ELSE pool)
  BY DEF ReaperTop
<1>3. PoolType(pool)' /\ lock' \in Owners
  BY <1>1, <1>2, GetNextRequestType, CommitType
<1>4. next \in Option(Tasks)
  BY <1>1, PeekType DEF ReaperTypes
<1>5. \/ rpc' = "process" /\ cur' = next
      \/ rpc' = "effect" /\ cur' = {}
  BY DEF ReaperTop
<1> HIDE DEF next
<1>6. {} \in Option(Tasks)
  BY DEF Option
<1>7. ReaperTypes'
  BY <1>1, <1>4, <1>5, <1>6 DEF ReaperTypes, ReaperPcs, ReaperTop
<1>8. QED
  BY <1>3, <1>7, TypeParts, TypePartsNext, KeepsTypes DEF ReaperTop

\* ReaperProcess keeps TypeOK.
LEMMA ReaperProcessType ==
    ASSUME TypeOK, NEW t \in Tasks, ReaperProcess(t)
    PROVE  TypeOK'
<1> DEFINE r == Req(t)
           known == HasRequest(pool, t)
           taken == SetRequest(pool, Position(t), [r EXCEPT !.conn = {}])
           pings == known /\ r.requires_ping /\ r.conn # {}
           makes == /\ known /\ ~r.requires_ping
                    /\ r.is_replacing \/ r.is_extra \/ ~CclassMatches(r)
           new == NewConn(pool.next_conn_id, r.cclass, r.is_extra)
<1>1. PoolType(pool) /\ ReaperTypes
  BY TypeParts
<1>2. known => /\ PoolType(taken) /\ r.conn \in Option(PooledConn)
               /\ new \in PooledConn
  <2>1. SUFFICES ASSUME known
                 PROVE  /\ PoolType(taken) /\ r.conn \in Option(PooledConn)
                        /\ new \in PooledConn
    OBVIOUS
  <2>2. Position(t) \in DOMAIN pool.requests /\ r \in Request
    BY <2>1, PositionType
  <2> HIDE DEF r
  <2>3. [r EXCEPT !.conn = {}] \in Request
    BY <2>2 DEF Request, Option
  <2>4. PoolType(taken)
    BY <1>1, <2>2, <2>3, SetRequestType
  <2>5. new \in PooledConn
    BY <1>1, <2>2, Fields, RequestFields DEF NewConn, PooledConn
  <2>6. QED
    BY <2>2, <2>4, <2>5, RequestFields
<1>3. \/ /\ pings /\ Commit(taken)
         /\ rpc' = "ping" /\ held' = r.conn /\ UNCHANGED fresh
      \/ /\ makes /\ Commit([taken EXCEPT !.next_conn_id = @ + 1])
         /\ rpc' = "create" /\ held' = r.conn /\ fresh' = {new}
      \/ /\ Commit(pool)
         /\ rpc' = "post" /\ UNCHANGED <<held, fresh>>
  BY DEF ReaperProcess
<1> HIDE DEF r, taken, new
<1>4. CASE /\ pings /\ Commit(taken)
           /\ rpc' = "ping" /\ held' = r.conn /\ UNCHANGED fresh
  <2>1. PoolType(pool)' /\ lock' \in Owners
    BY <1>2, <1>4, CommitType
  <2>2. ReaperTypes'
    BY <1>1, <1>2, <1>4 DEF ReaperTypes, ReaperPcs, ReaperProcess
  <2>3. QED
    BY <2>1, <2>2, TypeParts, TypePartsNext, KeepsTypes DEF ReaperProcess
<1>5. CASE /\ makes /\ Commit([taken EXCEPT !.next_conn_id = @ + 1])
           /\ rpc' = "create" /\ held' = r.conn /\ fresh' = {new}
  <2>1. PoolType([taken EXCEPT !.next_conn_id = @ + 1])
    BY <1>2, <1>5, NextIdType
  <2>2. PoolType(pool)' /\ lock' \in Owners
    BY <1>5, <2>1, CommitType
  <2>3. {new} \in Option(PooledConn)
    BY <1>2, <1>5, OptionSome
  <2>4. ReaperTypes'
    BY <1>1, <1>2, <1>5, <2>3 DEF ReaperTypes, ReaperPcs, ReaperProcess
  <2>5. QED
    BY <2>2, <2>4, TypeParts, TypePartsNext, KeepsTypes DEF ReaperProcess
<1>6. CASE Commit(pool) /\ rpc' = "post" /\ UNCHANGED <<held, fresh>>
  <2>1. ReaperTypes'
    BY <1>1, <1>6 DEF ReaperTypes, ReaperPcs, ReaperProcess
  <2>2. QED
    BY <1>1, <1>6, <2>1, CommitType, TypeParts, TypePartsNext, KeepsTypes
       DEF ReaperProcess
<1>7. QED
  BY <1>3, <1>4, <1>5, <1>6

\* ReaperPing keeps TypeOK.
LEMMA ReaperPingType ==
    ASSUME TypeOK, NEW t \in Tasks, NEW healthy \in BOOLEAN,
           ReaperPing(t, healthy)
    PROVE  TypeOK'
<1>1. PoolType(pool) /\ ReaperTypes /\ held \in Option(PooledConn)
  BY TypeParts DEF ReaperTypes
<1>2. HasRequest(pool, t) =>
        PoolType(SetRequest(pool, Position(t), [Req(t) EXCEPT !.conn = held]))
  <2>1. SUFFICES ASSUME HasRequest(pool, t)
                 PROVE  PoolType(SetRequest(pool, Position(t),
                                            [Req(t) EXCEPT !.conn = held]))
    OBVIOUS
  <2>2. Position(t) \in DOMAIN pool.requests /\ Req(t) \in Request
    BY <2>1, PositionType
  <2>3. [Req(t) EXCEPT !.conn = held] \in Request
    BY <1>1, <2>2 DEF Request
  <2>4. QED
    BY <1>1, <2>2, <2>3, SetRequestType
<1>3. \/ Commit(pool)
      \/ /\ HasRequest(pool, t)
         /\ Commit(SetRequest(pool, Position(t), [Req(t) EXCEPT !.conn = held]))
  BY DEF ReaperPing
<1>4. PoolType(pool)' /\ lock' \in Owners
  BY <1>1, <1>2, <1>3, CommitType
<1>5. alive' \subseteq ConnIds
  BY TypeParts DEF ReaperPing
<1>6. ReaperTypes'
  BY <1>1 DEF ReaperTypes, ReaperPcs, ReaperPing, Option
<1>7. QED
  BY <1>4, <1>5, <1>6, TypeParts, TypePartsNext, KeepsTypes DEF ReaperPing

\* Retiring the replaced connection, if any, keeps the type.
LEMMA RetiredType ==
    ASSUME NEW s, PoolType(s), NEW conns \in Option(PooledConn)
    PROVE  PoolType(Retired(s, conns))
<1>1. CASE conns = {}
  BY <1>1 DEF Retired
<1>2. CASE conns # {}
  <2> DEFINE c == CHOOSE c \in conns : TRUE
  <2>1. c \in PooledConn
    BY <1>2, OptionIsFinite
  <2> HIDE DEF c
  <2>2. PoolType(DropConn(s, c))
    BY <2>1, DropConnType
  <2>3. QED
    BY <1>2, <2>2 DEF Retired, c
<1>3. QED
  BY <1>1, <1>2

\* ReaperCreate keeps TypeOK.
LEMMA ReaperCreateType ==
    ASSUME TypeOK, NEW t \in Tasks, NEW ok \in BOOLEAN, ReaperCreate(t, ok)
    PROVE  TypeOK'
<1> DEFINE s == Retired(pool, held)
           i == RequestPosition(s, t)
           given == SetRequest(s, i, [s.requests[i] EXCEPT !.conn = fresh])
           failed == SetRequest(s, i, [s.requests[i] EXCEPT !.error = TRUE])
           loose == {NotExtra(c) : c \in fresh}
           queued == NotifyBg([s EXCEPT !.to_drop = @ \cup loose])
<1>1. /\ PoolType(pool) /\ ReaperTypes
      /\ held \in Option(PooledConn) /\ fresh \in Option(PooledConn)
  BY TypeParts DEF ReaperTypes
<1>2. PoolType(s)
  BY <1>1, RetiredType
<1>3. Commit(CASE HasRequest(s, t) /\ ok -> given
               [] HasRequest(s, t) /\ ~ok -> failed
               [] ~HasRequest(s, t) /\ ok -> queued
               [] OTHER -> s)
  BY DEF ReaperCreate
<1> HIDE DEF s
<1>4. HasRequest(s, t) => PoolType(given) /\ PoolType(failed)
  <2>1. SUFFICES ASSUME HasRequest(s, t)
                 PROVE  PoolType(given) /\ PoolType(failed)
    OBVIOUS
  <2>2. i \in DOMAIN s.requests
    BY <2>1, PositionIn
  <2> HIDE DEF i
  <2>3. s.requests[i] \in Request
    BY <1>2, <2>2, RequestIn
  <2>4. /\ [s.requests[i] EXCEPT !.conn = fresh] \in Request
        /\ [s.requests[i] EXCEPT !.error = TRUE] \in Request
    BY <1>1, <2>3 DEF Request
  <2>5. QED
    BY <1>2, <2>2, <2>4, SetRequestType
<1>5. PoolType(queued)
  <2>1. fresh \subseteq PooledConn
    BY <1>1, OptionIsFinite
  <2>2. loose \subseteq PooledConn
    BY <2>1, NotExtraType
  <2> HIDE DEF loose
  <2>3. s.to_drop \cup loose \in SUBSET PooledConn
    BY <1>2, <2>2, Fields
  <2>4. QED
    BY <1>2, <2>3, ToDropType, NotifyBgType
<1> HIDE DEF given, failed, queued
<1>6. PoolType(pool)' /\ lock' \in Owners
  <2>1. CASE HasRequest(s, t) /\ ok
    BY <1>3, <1>4, <2>1, CommitType
  <2>2. CASE HasRequest(s, t) /\ ~ok
    BY <1>3, <1>4, <2>2, CommitType
  <2>3. CASE ~HasRequest(s, t) /\ ok
    BY <1>3, <1>5, <2>3, CommitType
  <2>4. CASE ~HasRequest(s, t) /\ ~ok
    BY <1>3, <1>2, <2>4, CommitType
  <2>5. QED
    BY <2>1, <2>2, <2>3, <2>4
<1>7. alive' \subseteq ConnIds
  <2>1. Ids(fresh) \subseteq ConnIds
    BY <1>1, OptionIsFinite, IdsType
  <2>2. QED
    BY <2>1, TypeParts DEF ReaperCreate
<1>8. ReaperTypes'
  BY <1>1 DEF ReaperTypes, ReaperPcs, ReaperCreate, Option
<1>9. QED
  BY <1>6, <1>7, <1>8, TypeParts, TypePartsNext, KeepsTypes DEF ReaperCreate

\* ReaperPost keeps TypeOK.
LEMMA ReaperPostType ==
    ASSUME TypeOK, NEW t \in Tasks, ReaperPost(t)
    PROVE  TypeOK'
<1> DEFINE s == PostProcessRequest(pool, t)
<1>1. PoolType(s)
  BY TypeParts, PostProcessRequestType
<1>2. Commit(GetNextRequest(s)) /\ cur' = PeekNextRequest(s)
  BY DEF ReaperPost
<1> HIDE DEF s
<1>3. PoolType(pool)' /\ lock' \in Owners
  BY <1>1, <1>2, GetNextRequestType, CommitType
<1>4. cur' \in Option(Tasks)
  BY <1>1, <1>2, PeekType
<1>5. ReaperTypes'
  BY <1>4, TypeParts DEF ReaperTypes, ReaperPcs, ReaperPost
<1>6. QED
  BY <1>3, <1>5, TypeParts, TypePartsNext, KeepsTypes DEF ReaperPost

\* ReaperEffect keeps TypeOK.
LEMMA ReaperEffectType ==
    ASSUME TypeOK, ReaperEffect
    PROVE  TypeOK'
<1>1. PoolType(pool) /\ ReaperTypes
  BY TypeParts
<1>2. CASE pool.open /\ pool.open_effects # <<>>
  <2> DEFINE id == Head(pool.open_effects)
             rest == Tail(pool.open_effects)
             flying == pool.in_flight \cup {id}
             new == NewConn(id, PoolClass, FALSE)
  <2>1. /\ Commit([pool EXCEPT !.open_effects = rest, !.in_flight = flying])
        /\ fresh' = {new} /\ rpc' = "open"
    BY <1>2 DEF ReaperEffect
  <2>2. id \in ConnIds /\ rest \in Seq(ConnIds)
    BY <1>1, <1>2, Fields
  <2>3. flying \in SUBSET ConnIds /\ IsFiniteSet(flying)
    BY <1>1, <2>2, Fields, FS_AddElement
  <2>4. {new} \in Option(PooledConn)
    <3>1. new \in PooledConn
      BY <2>2, ClassAssumption DEF NewConn, PooledConn
    <3>2. QED
      BY <3>1, OptionSome
  <2> HIDE DEF id, rest, flying, new
  <2>5. PoolType([pool EXCEPT !.open_effects = rest, !.in_flight = flying])
    BY <1>1, <2>2, <2>3 DEF PoolType, PoolStates
  <2>6. PoolType(pool)' /\ lock' \in Owners
    BY <2>1, <2>5, CommitType
  <2>7. ReaperTypes'
    BY <1>1, <2>1, <2>4 DEF ReaperTypes, ReaperPcs, ReaperEffect
  <2>8. QED
    BY <2>6, <2>7, TypeParts, TypePartsNext, KeepsTypes DEF ReaperEffect
<1>3. CASE ~(pool.open /\ pool.open_effects # <<>>)
  <2>1. Commit(pool) /\ rpc' = "drop" /\ UNCHANGED fresh
    BY <1>3 DEF ReaperEffect
  <2>2. ReaperTypes'
    BY <1>1, <2>1 DEF ReaperTypes, ReaperPcs, ReaperEffect
  <2>3. QED
    BY <1>1, <2>1, <2>2, CommitType, TypeParts, TypePartsNext, KeepsTypes
       DEF ReaperEffect
<1>4. QED
  BY <1>2, <1>3

\* ReaperOpen keeps TypeOK.
LEMMA ReaperOpenType ==
    ASSUME TypeOK, NEW ok \in BOOLEAN, ReaperOpen(ok)
    PROVE  TypeOK'
<1>1. PoolType(pool) /\ ReaperTypes /\ fresh \subseteq PooledConn
  BY TypeParts, OptionIsFinite DEF ReaperTypes
<1>2. PICK c \in fresh : Commit(IF ok THEN PostCreateConn(pool, c)
                                ELSE PostCreateFailed(pool, c.id))
  BY DEF ReaperOpen
<1>3. c \in PooledConn /\ c.id \in ConnIds
  BY <1>1 DEF PooledConn
<1>4. PoolType(pool)' /\ lock' \in Owners
  <2>1. CASE ok
    BY <1>1, <1>2, <1>3, <2>1, PostCreateConnType, CommitType
  <2>2. CASE ~ok
    BY <1>1, <1>2, <1>3, <2>2, PostCreateFailedType, CommitType
  <2>3. QED
    BY <2>1, <2>2
<1>5. alive' \subseteq ConnIds
  <2>1. Ids(fresh) \subseteq ConnIds
    BY <1>1, IdsType
  <2>2. QED
    BY <2>1, TypeParts DEF ReaperOpen
<1>6. ReaperTypes'
  BY <1>1 DEF ReaperTypes, ReaperPcs, ReaperOpen, Option
<1>7. QED
  BY <1>4, <1>5, <1>6, TypeParts, TypePartsNext, KeepsTypes DEF ReaperOpen

\* ReaperDrop keeps TypeOK.
LEMMA ReaperDropType ==
    ASSUME TypeOK, ReaperDrop
    PROVE  TypeOK'
<1>1. PoolType(pool) /\ ReaperTypes
  BY TypeParts
<1>2. \/ Commit(pool) /\ rpc' = "sweep"
      \/ \E c \in pool.to_drop :
           Commit([pool EXCEPT !.to_drop = @ \ {c}]) /\ rpc' = "top"
  BY DEF ReaperDrop
<1>3. ASSUME NEW c
      PROVE  PoolType([pool EXCEPT !.to_drop = @ \ {c}])
  <2>1. pool.to_drop \ {c} \in SUBSET PooledConn
    BY <1>1, Fields
  <2>2. QED
    BY <1>1, <2>1, ToDropType
<1>4. PoolType(pool)' /\ lock' \in Owners
  BY <1>1, <1>2, <1>3, CommitType
<1>5. alive' \subseteq ConnIds
  BY TypeParts DEF ReaperDrop
<1>6. ReaperTypes'
  BY <1>1, <1>2 DEF ReaperTypes, ReaperPcs, ReaperDrop
<1>7. QED
  BY <1>4, <1>5, <1>6, TypeParts, TypePartsNext, KeepsTypes DEF ReaperDrop

\* ReaperSweep keeps TypeOK.
LEMMA ReaperSweepType ==
    ASSUME TypeOK, NEW list \in {"free_new", "free_used"}, ReaperSweep(list)
    PROVE  TypeOK'
<1> DEFINE s == [pool EXCEPT ![list] = Tail(@)]
           conn == Head(pool[list])
<1>1. PoolType(pool)
  BY TypeParts
<1>2. PoolType(s) /\ conn \in PooledConn
  <2>1. CASE list = "free_new"
    <3>1. Tail(pool.free_new) \in Seq(PooledConn) /\ Head(pool.free_new) \in PooledConn
      BY <1>1, <2>1, Fields DEF ReaperSweep
    <3>2. QED
      BY <1>1, <2>1, <3>1, Fields, FreeListsType
  <2>2. CASE list = "free_used"
    <3>1. Tail(pool.free_used) \in Seq(PooledConn) /\ Head(pool.free_used) \in PooledConn
      BY <1>1, <2>2, Fields DEF ReaperSweep
    <3>2. QED
      BY <1>1, <2>2, <3>1, Fields, FreeListsType
  <2>3. QED
    BY <2>1, <2>2
<1>3. Continue(Reaper, DropConn(s, conn))
  BY DEF ReaperSweep
<1> HIDE DEF s, conn
<1>4. PoolType(pool)' /\ lock' \in Owners
  BY <1>2, <1>3, DropConnType, ContinueType DEF Owners
<1>5. QED
  BY <1>4, TypeParts, TypePartsNext, KeepsTypes DEF ReaperSweep

\* ReaperRest keeps TypeOK.
LEMMA ReaperRestType ==
    ASSUME TypeOK, ReaperRest
    PROVE  TypeOK'
<1>1. PoolType(pool)' /\ lock' \in Owners
  BY TypeParts, CommitType DEF ReaperRest
<1>2. rpc' \in ReaperPcs
  BY DEF ReaperRest, ReaperPcs
<1>3. ReaperTypes'
  BY <1>2, TypeParts DEF ReaperTypes, ReaperRest
<1>4. QED
  BY <1>1, <1>3, TypeParts, TypePartsNext, KeepsTypes DEF ReaperRest

\* ReaperWake and ReaperTick keep TypeOK.
LEMMA ReaperWakeType ==
    ASSUME TypeOK, ReaperWake \/ ReaperTick
    PROVE  TypeOK'
<1>1. PoolType([pool EXCEPT !.bg = FALSE])
  BY TypeParts DEF PoolType, PoolStates
<1>2. PoolType(pool)'
  BY <1>1, TypeParts DEF ReaperWake, ReaperTick
<1>3. ReaperTypes'
  BY TypeParts DEF ReaperTypes, ReaperPcs, ReaperWake, ReaperTick
<1>4. QED
  BY <1>2, <1>3, TypeParts, TypePartsNext, KeepsTypes DEF ReaperWake, ReaperTick

\* ReaperGone keeps TypeOK.
LEMMA ReaperGoneType ==
    ASSUME TypeOK, ReaperGone
    PROVE  TypeOK'
<1>1. PoolType(pool)' /\ lock' \in Owners
  BY TypeParts, CloseAllType, CommitType DEF ReaperGone
<1>2. alive' \subseteq ConnIds
  BY TypeParts DEF ReaperGone
<1>3. ReaperTypes'
  BY TypeParts DEF ReaperTypes, ReaperPcs, ReaperGone, Option
<1>4. QED
  BY <1>1, <1>2, <1>3, TypeParts, TypePartsNext, KeepsTypes DEF ReaperGone

\* CloseRequest keeps TypeOK.
LEMMA CloseRequestType ==
    ASSUME TypeOK, NEW c \in Closers, NEW force \in BOOLEAN,
           CloseRequest(c, force)
    PROVE  TypeOK'
<1>1. PoolType(pool) /\ CloseTypes
  BY TypeParts
<1>2. \/ Commit(WakeWaiters(NotifyBg(pool)))
      \/ Commit(AfterDrain(c))
      \/ Commit(ShutDown(pool))
  BY DEF CloseRequest
<1>3. PoolType(pool)' /\ lock' \in Owners
  BY <1>1, <1>2, NotifyBgType, WakeWaitersType, AfterDrainType, ShutDownType,
     CommitType
<1>4. CloseTypes'
  BY <1>1 DEF CloseTypes, CloserPcs, CloseRequest
<1>5. QED
  BY <1>3, <1>4, TypeParts, TypePartsNext, KeepsTypes DEF CloseRequest

\* CloseTake, CloseJoined and CloseCancelled keep TypeOK.
LEMMA CloseStepsType ==
    ASSUME TypeOK, NEW c \in Closers,
           CloseTake(c) \/ CloseJoined(c) \/ CloseCancelled(c)
    PROVE  TypeOK'
<1>1. PoolType(pool)'
  BY TypeParts, NotifyBgType DEF CloseTake, CloseJoined, CloseCancelled
<1>2. CloseTypes'
  BY TypeParts DEF CloseTypes, CloserPcs, CloseTake, CloseJoined, CloseCancelled
<1>3. QED
  BY <1>1, <1>2, TypeParts, TypePartsNext, KeepsTypes
     DEF CloseTake, CloseJoined, CloseCancelled

\* LastHandle keeps TypeOK.
LEMMA LastHandleType ==
    ASSUME TypeOK, LastHandle
    PROVE  TypeOK'
<1>1. PoolType(pool)' /\ lock' \in Owners
  BY TypeParts, CloseAllType, NotifyBgType, CommitType DEF LastHandle
<1>2. alive' \subseteq ConnIds
  BY TypeParts DEF LastHandle
<1>3. CloseTypes'
  BY TypeParts DEF CloseTypes, LastHandle
<1>4. QED
  BY <1>1, <1>2, <1>3, TypeParts, TypePartsNext, KeepsTypes DEF LastHandle

\* SetGetmode and SetTimeoutSecs keep TypeOK.
LEMMA SettingsType ==
    ASSUME TypeOK,
           (\E m \in SetModes : SetGetmode(m)) \/ SetTimeoutSecs
    PROVE  TypeOK'
<1>1. PoolType(pool)
  BY TypeParts
<1>2. CASE \E m \in SetModes : SetGetmode(m)
  <2>1. PICK m \in SetModes : SetGetmode(m)
    BY <1>2
  <2>2. PoolType([pool EXCEPT !.mode = m])
    BY <1>1, EngineAssumption DEF PoolType, PoolStates
  <2>3. QED
    BY <2>1, <2>2, CommitType, TypeParts, TypePartsNext, KeepsTypes
       DEF SetGetmode
<1>3. CASE SetTimeoutSecs
  <2>1. PoolType([pool EXCEPT !.timeout = ~@])
    BY <1>1 DEF PoolType, PoolStates
  <2>2. QED
    BY <1>3, <2>1, NotifyBgType, CommitType, TypeParts, TypePartsNext,
       KeepsTypes DEF SetTimeoutSecs
<1>4. QED
  BY <1>2, <1>3

-----------------------------------------------------------------------------
\* A pool that has just been started satisfies TypeOK.
LEMMA InitType ==
    Init => TypeOK
<1>1. SUFFICES ASSUME Init PROVE TypeOK
  OBVIOUS
<1>2. PoolType(pool)
  <2> DEFINE idle == "idle" \in env
  <2>1. idle \in BOOLEAN
    OBVIOUS
  <2>2. pool = StartState(InitMode, idle)
    BY <1>1 DEF Init
  <2> HIDE DEF idle
  <2>3. QED
    BY <2>1, <2>2, StartStateType, EngineAssumption
<1>3. drops \in Seq(Nat)
  BY <1>1 DEF Init
<1>4. TaskTypes /\ ReaperTypes /\ CloseTypes /\ alive \subseteq ConnIds
  BY <1>1 DEF Init, TaskTypes, TaskPcs, ReaperTypes, ReaperPcs, CloseTypes,
         CloserPcs, Option
<1>5. lock \in Owners
  BY <1>1 DEF Init, Owners
<1>6. QED
  BY <1>2, <1>3, <1>4, <1>5, TypeParts

\* Every step of an acquiring task keeps TypeOK.
LEMMA TaskStepType ==
    ASSUME TypeOK, NEW t \in Tasks, TaskStep(t)
    PROVE  TypeOK'
<1>1. t \in Owners
  BY DEF Owners
<1>2. QED
  BY <1>1, DrainOneType, AcquireType, PollFailsType, PollCompletedType,
     PollPendingType, ScanUnfitType, ScanNeedsPingType, ScanFitType,
     ScanExhaustedType, AbandonType, ReleaseType, DropFromPoolType,
     DropGuardType DEF TaskStep, AbortWait, CancelWait, Timeout

\* Every step of the reaper keeps TypeOK.
LEMMA ReaperStepType ==
    ASSUME TypeOK, ReaperStep
    PROVE  TypeOK'
<1>1. Reaper \in Owners
  BY DEF Owners
<1>2. QED
  BY <1>1, DrainOneType, ReaperTopType, ReaperProcessType, ReaperPingType,
     ReaperCreateType, ReaperPostType, ReaperEffectType, ReaperOpenType,
     ReaperDropType, ReaperSweepType, ReaperRestType, ReaperWakeType,
     ReaperGoneType DEF ReaperStep

\* Every step of a call of close keeps TypeOK.
LEMMA CloserStepType ==
    ASSUME TypeOK, NEW c \in Closers, CloserStep(c)
    PROVE  TypeOK'
<1>1. c \in Owners
  BY DEF Owners
<1>2. QED
  BY <1>1, DrainOneType, CloseRequestType, CloseStepsType DEF CloserStep

\* Whatever the numbers of tasks and close calls, the sizes and the modes of a
\* pool, every variable of the engine stays in its domain: no step of an
\* acquire, a guard, the reaper or close leaves a malformed request, list or
\* option behind.
THEOREM TypeCorrect == Spec => []TypeOK
<1>1. Init => TypeOK
  BY InitType
<1>2. TypeOK /\ [Next]_vars => TypeOK'
  <2>1. SUFFICES ASSUME TypeOK, [Next]_vars
                 PROVE  TypeOK'
    OBVIOUS
  <2>2. CASE \E t \in Tasks : TaskStep(t)
    BY <2>1, <2>2, TaskStepType
  <2>3. CASE ReaperStep
    BY <2>1, <2>3, ReaperStepType
  <2>4. CASE \E c \in Closers : CloserStep(c)
    BY <2>1, <2>4, CloserStepType
  <2>5. CASE DrainOne(Observer) \/ Observe
    BY <2>1, <2>5, DrainOneType, ObserveType DEF Owners
  <2>6. CASE LastHandle
    BY <2>1, <2>6, LastHandleType
  <2>7. CASE (\E m \in SetModes : SetGetmode(m)) \/ SetTimeoutSecs
    BY <2>1, <2>7, SettingsType
  <2>8. CASE UNCHANGED vars
    BY <2>1, <2>8, TypeParts, TypePartsNext, KeepsTypes DEF vars
  <2>9. QED
    BY <2>1, <2>2, <2>3, <2>4, <2>5, <2>6, <2>7, <2>8 DEF Next
<1>3. QED
  BY <1>1, <1>2, PTL DEF Spec

-----------------------------------------------------------------------------
(* The places of a connection. *)

SeqIds(q) == {q[i].id : i \in DOMAIN q}

ReqIds(q) == {c.id : c \in UNION {q[i].conn : i \in DOMAIN q}}

NoTwins(q) == \A i, j \in DOMAIN q : q[i].id = q[j].id => i = j

NoReqTwins(q) ==
    \A i, j \in DOMAIN q :
        \A c \in q[i].conn, d \in q[j].conn : c.id = d.id => i = j

OneToOne(q) == \A i, j \in DOMAIN q : q[i] = q[j] => i = j

UniqueIds(conns) == \A c, d \in conns : c.id = d.id => c = d

\* free_new, free_used, busy, to_drop, requests and open_effects share no id
Apart(N, U, B, D, R, E) ==
    /\ N \cap (U \cup B \cup D \cup R \cup E) = {}
    /\ U \cap (B \cup D \cup R \cup E) = {}
    /\ B \cap (D \cup R \cup E) = {}
    /\ D \cap (R \cup E) = {}
    /\ R \cap E = {}

Placed(s) ==
    SeqIds(s.free_new) \cup SeqIds(s.free_used) \cup Ids(s.busy)
        \cup Ids(s.to_drop) \cup ReqIds(s.requests)

Planned(s) == ToSet(s.open_effects)

\* every id has one place at most, and none was given out before its turn
Tidy(s) ==
    /\ NoTwins(s.free_new) /\ NoTwins(s.free_used)
    /\ UniqueIds(s.busy) /\ UniqueIds(s.to_drop)
    /\ NoReqTwins(s.requests) /\ OneToOne(s.open_effects)
    /\ Apart(SeqIds(s.free_new), SeqIds(s.free_used), Ids(s.busy),
             Ids(s.to_drop), ReqIds(s.requests), Planned(s))
    /\ \A x \in Placed(s) \cup Planned(s) : x < s.next_conn_id

\* x was given out, and the connection is outside the pool's lists
Lacks(s, x) == x \notin Placed(s) \cup Planned(s) /\ x < s.next_conn_id

Leases == {lease[t] : t \in Holders}

\* what the reaper holds or creates is in no list
ReaperApart ==
    /\ \A x \in Ids(held) \cup Ids(fresh) : Lacks(pool, x)
    /\ Ids(held) \cap Ids(fresh) = {}

\* a connection that has a place is open; an open or leased one is not planned
SessionsKnown ==
    /\ Placed(pool) \cup Ids(held) \subseteq alive
    /\ \A x \in alive \cup Leases :
         /\ x < pool.next_conn_id
         /\ x \notin Planned(pool) \cup Ids(fresh)

GuardsApart == \A t, u \in Holders : lease[t] = lease[u] => t = u

BusyIsLent ==
    pool.open =>
        /\ Ids(pool.busy) = Leases \cup ToSet(drops)
        /\ Leases \cap ToSet(drops) = {} /\ OneToOne(drops)

OwnershipInv ==
    /\ Tidy(pool) /\ Allocates(pool)
    /\ ReaperApart /\ SessionsKnown /\ GuardsApart /\ BusyIsLent

-----------------------------------------------------------------------------
(* Lists that grow and shrink. *)

\* q2 consists of elements of q at different positions, the k-th not among them
DrawnWithout(q2, q, k) ==
    \E f \in [DOMAIN q2 -> DOMAIN q \ {k}] :
        /\ \A i, j \in DOMAIN q2 : f[i] = f[j] => i = j
        /\ \A i \in DOMAIN q2 : q2[i] = q[f[i]]

\* RemoveAt leaves the other elements.
LEMMA RemoveAtDraws ==
    ASSUME NEW S, NEW q \in Seq(S), NEW k \in DOMAIN q
    PROVE  DrawnWithout(RemoveAt(q, k), q, k)
<1> DEFINE q2 == RemoveAt(q, k)
           f == [i \in DOMAIN q2 |-> IF i < k THEN i ELSE i + 1]
<1>1. /\ q2 \in Seq(S) /\ Len(q2) = Len(q) - 1
      /\ \A i \in 1..(Len(q) - 1) : q2[i] = IF i < k THEN q[i] ELSE q[i + 1]
  <2> DEFINE a == SubSeq(q, 1, k - 1)
             b == SubSeq(q, k + 1, Len(q))
  <2>1. k \in 1..Len(q) /\ Len(q) \in Nat
    OBVIOUS
  <2>2. /\ a \in Seq(S) /\ Len(a) = k - 1
        /\ \A i \in 1..(k - 1) : a[i] = q[i]
    BY <2>1
  <2>3. b \in Seq(S) /\ Len(b) = Len(q) - k
    BY <2>1
  <2>4. \A i \in 1..(Len(q) - k) : b[i] = q[k + i]
    BY <2>1
  <2> HIDE DEF a, b
  <2>5. /\ a \o b \in Seq(S) /\ Len(a \o b) = Len(a) + Len(b)
        /\ \A i \in 1..(Len(a) + Len(b)) :
             (a \o b)[i] = IF i <= Len(a) THEN a[i] ELSE b[i - Len(a)]
    BY <2>2, <2>3, ConcatProperties
  <2>6. q2 = a \o b
    BY DEF RemoveAt, a, b
  <2> HIDE DEF q2
  <2>7. ASSUME NEW i \in 1..(Len(q) - 1)
        PROVE  q2[i] = IF i < k THEN q[i] ELSE q[i + 1]
    <3>0. i \in Nat /\ k \in Nat /\ i \in 1..(Len(a) + Len(b))
      BY <2>1, <2>2, <2>3, <2>7
    <3>1. q2[i] = IF i <= k - 1 THEN a[i] ELSE b[i - (k - 1)]
      BY <2>2, <2>5, <2>6, <3>0
    <3>2. i < k => a[i] = q[i]
      BY <2>1, <2>2, <2>7
    <3>3. ~(i < k) => b[i - (k - 1)] = q[i + 1]
      <4>1. ~(i < k) => i - (k - 1) \in 1..(Len(q) - k) /\ k + (i - (k - 1)) = i + 1
        BY <2>1, <2>7
      <4>2. QED
        BY <2>4, <4>1
    <3>4. QED
      BY <3>0, <3>1, <3>2, <3>3
  <2>8. q2 \in Seq(S) /\ Len(q2) = Len(q) - 1
    <3>1. Len(a) + Len(b) = Len(q) - 1
      BY <2>1, <2>2, <2>3
    <3>2. QED
      BY <2>5, <2>6, <3>1
  <2>9. QED
    BY <2>7, <2>8
<1>2. DOMAIN q2 = 1..(Len(q) - 1) /\ DOMAIN q = 1..Len(q) /\ Len(q) \in Nat
  BY <1>1
<1> HIDE DEF q2
<1>3. f \in [DOMAIN q2 -> DOMAIN q \ {k}]
  BY <1>2
<1>4. \A i, j \in DOMAIN q2 : f[i] = f[j] => i = j
  BY <1>2
<1>5. \A i \in DOMAIN q2 : q2[i] = q[f[i]]
  BY <1>1, <1>2
<1>6. QED
  BY <1>3, <1>4, <1>5 DEF DrawnWithout, q2

\* Popping from the back leaves the other elements.
LEMMA FrontDraws ==
    ASSUME NEW S, NEW q \in Seq(S), q # <<>>
    PROVE  /\ Len(q) \in DOMAIN q /\ Last(q) = q[Len(q)]
           /\ DrawnWithout(Front(q), q, Len(q))
<1> DEFINE f == [i \in 1..(Len(q) - 1) |-> i]
<1>1. Len(q) \in DOMAIN q /\ Last(q) = q[Len(q)]
  BY DEF Last
<1>2. /\ DOMAIN Front(q) = 1..(Len(q) - 1)
      /\ \A i \in 1..(Len(q) - 1) : Front(q)[i] = q[i]
  BY DEF Front
<1>3. /\ f \in [DOMAIN Front(q) -> DOMAIN q \ {Len(q)}]
      /\ \A i, j \in DOMAIN Front(q) : f[i] = f[j] => i = j
      /\ \A i \in DOMAIN Front(q) : Front(q)[i] = q[f[i]]
  BY <1>1, <1>2
<1>4. QED
  BY <1>1, <1>3 DEF DrawnWithout

\* Popping from the front leaves the other elements.
LEMMA TailDraws ==
    ASSUME NEW S, NEW q \in Seq(S), q # <<>>
    PROVE  1 \in DOMAIN q /\ Head(q) = q[1] /\ DrawnWithout(Tail(q), q, 1)
<1> DEFINE f == [i \in 1..(Len(q) - 1) |-> i + 1]
<1>1. 1 \in DOMAIN q /\ Head(q) = q[1]
  OBVIOUS
<1>2. /\ DOMAIN Tail(q) = 1..(Len(q) - 1)
      /\ \A i \in 1..(Len(q) - 1) : Tail(q)[i] = q[i + 1]
  OBVIOUS
<1>3. /\ f \in [DOMAIN Tail(q) -> DOMAIN q \ {1}]
      /\ \A i, j \in DOMAIN Tail(q) : f[i] = f[j] => i = j
      /\ \A i \in DOMAIN Tail(q) : Tail(q)[i] = q[f[i]]
  BY <1>1, <1>2
<1>4. QED
  BY <1>1, <1>3 DEF DrawnWithout

\* A list that lost one element has no twins if it had none, and lost its id.
LEMMA DrawnIds ==
    ASSUME NEW q, NEW q2, NEW k \in DOMAIN q, DrawnWithout(q2, q, k), NoTwins(q)
    PROVE  /\ NoTwins(q2) /\ SeqIds(q2) \subseteq SeqIds(q)
           /\ q[k].id \in SeqIds(q) /\ q[k].id \notin SeqIds(q2)
<1>1. PICK f \in [DOMAIN q2 -> DOMAIN q \ {k}] :
          /\ \A i, j \in DOMAIN q2 : f[i] = f[j] => i = j
          /\ \A i \in DOMAIN q2 : q2[i] = q[f[i]]
  BY DEF DrawnWithout
<1>2. \A i \in DOMAIN q2 : f[i] \in DOMAIN q /\ f[i] # k /\ q2[i].id = q[f[i]].id
  BY <1>1
<1>3. NoTwins(q2)
  BY <1>1, <1>2 DEF NoTwins
<1>4. SeqIds(q2) \subseteq SeqIds(q) /\ q[k].id \in SeqIds(q)
  BY <1>2 DEF SeqIds
<1>5. q[k].id \notin SeqIds(q2)
  BY <1>2 DEF SeqIds, NoTwins
<1>6. QED
  BY <1>3, <1>4, <1>5

\* The same for the queue of requests and the connections they were given.
LEMMA DrawnReqIds ==
    ASSUME NEW q, NEW q2, NEW k \in DOMAIN q, DrawnWithout(q2, q, k),
           NoReqTwins(q)
    PROVE  /\ NoReqTwins(q2) /\ ReqIds(q2) \subseteq ReqIds(q)
           /\ \A c \in q[k].conn : c.id \in ReqIds(q) /\ c.id \notin ReqIds(q2)
<1>1. PICK f \in [DOMAIN q2 -> DOMAIN q \ {k}] :
          /\ \A i, j \in DOMAIN q2 : f[i] = f[j] => i = j
          /\ \A i \in DOMAIN q2 : q2[i] = q[f[i]]
  BY DEF DrawnWithout
<1>2. \A i \in DOMAIN q2 :
          f[i] \in DOMAIN q /\ f[i] # k /\ q2[i].conn = q[f[i]].conn
  BY <1>1
<1>3. NoReqTwins(q2)
  BY <1>1, <1>2 DEF NoReqTwins
<1>4. ReqIds(q2) \subseteq ReqIds(q) /\ \A c \in q[k].conn : c.id \in ReqIds(q)
  BY <1>2 DEF ReqIds
<1>5. \A c \in q[k].conn : c.id \notin ReqIds(q2)
  BY <1>2 DEF ReqIds, NoReqTwins
<1>6. QED
  BY <1>3, <1>4, <1>5

\* A connection whose id is new to a list may be appended to it.
LEMMA AppendIds ==
    ASSUME NEW S, NEW q \in Seq(S), NEW c \in S, NoTwins(q), c.id \notin SeqIds(q)
    PROVE  NoTwins(Append(q, c)) /\ SeqIds(Append(q, c)) = SeqIds(q) \cup {c.id}
<1>1. /\ DOMAIN Append(q, c) = 1..(Len(q) + 1) /\ DOMAIN q = 1..Len(q)
      /\ Len(q) \in Nat /\ Append(q, c)[Len(q) + 1] = c
      /\ \A i \in 1..Len(q) : Append(q, c)[i] = q[i]
  BY AppendProperties
<1> DEFINE p == Append(q, c)
<1> HIDE DEF p
<1>2. NoTwins(p)
  BY <1>1 DEF NoTwins, SeqIds, p
<1>3. SeqIds(p) = SeqIds(q) \cup {c.id}
  BY <1>1 DEF SeqIds, p
<1>4. QED
  BY <1>2, <1>3 DEF p

\* What a request holds may be replaced by something no other request holds.
LEMMA ExceptReqIds ==
    ASSUME NEW q \in Seq(Request), NEW k \in DOMAIN q, NEW r \in Request,
           NoReqTwins(q), \A c \in r.conn : c.id \notin ReqIds(q)
    PROVE  /\ NoReqTwins([q EXCEPT ![k] = r])
           /\ ReqIds([q EXCEPT ![k] = r]) \subseteq ReqIds(q) \cup Ids(r.conn)
           /\ \A c \in q[k].conn : /\ c.id \in ReqIds(q)
                                   /\ c.id \notin ReqIds([q EXCEPT ![k] = r])
<1> DEFINE p == [q EXCEPT ![k] = r]
<1>1. DOMAIN p = DOMAIN q /\ p[k] = r /\ \A i \in DOMAIN q : i # k => p[i] = q[i]
  OBVIOUS
<1> HIDE DEF p
<1>2. \A i \in DOMAIN q : \A c \in q[i].conn : c.id \in ReqIds(q)
  BY DEF ReqIds
<1>3. NoReqTwins(p)
  <2>1. SUFFICES ASSUME NEW i \in DOMAIN q, NEW j \in DOMAIN q,
                        NEW c \in p[i].conn, NEW d \in p[j].conn, c.id = d.id
                 PROVE  i = j
    BY <1>1 DEF NoReqTwins
  <2>2. CASE i = k \/ j = k
    BY <1>1, <1>2, <2>1, <2>2
  <2>3. CASE i # k /\ j # k
    BY <1>1, <2>1, <2>3 DEF NoReqTwins
  <2>4. QED
    BY <2>2, <2>3
<1>4. ReqIds(p) \subseteq ReqIds(q) \cup Ids(r.conn)
  BY <1>1 DEF ReqIds, Ids
<1>5. ASSUME NEW c \in q[k].conn PROVE c.id \notin ReqIds(p)
  <2>1. SUFFICES ASSUME NEW i \in DOMAIN q, NEW d \in p[i].conn, d.id = c.id
                 PROVE  FALSE
    BY <1>1 DEF ReqIds
  <2>2. CASE i = k
    BY <1>1, <1>2, <2>1, <2>2
  <2>3. CASE i # k
    BY <1>1, <2>1, <2>3 DEF NoReqTwins
  <2>4. QED
    BY <2>2, <2>3
<1>6. QED
  BY <1>2, <1>3, <1>4, <1>5 DEF p

\* A request that keeps its connection leaves the queue's connections alone.
LEMMA SameReqIds ==
    ASSUME NEW q \in Seq(Request), NEW k \in DOMAIN q, NEW r,
           r.conn = q[k].conn, NoReqTwins(q)
    PROVE  /\ NoReqTwins([q EXCEPT ![k] = r])
           /\ ReqIds([q EXCEPT ![k] = r]) = ReqIds(q)
<1> DEFINE p == [q EXCEPT ![k] = r]
<1>1. DOMAIN p = DOMAIN q /\ \A i \in DOMAIN q : p[i].conn = q[i].conn
  OBVIOUS
<1> HIDE DEF p
<1>2. NoReqTwins(p)
  BY <1>1 DEF NoReqTwins
<1>3. ReqIds(p) = ReqIds(q)
  BY <1>1 DEF ReqIds
<1>4. QED
  BY <1>2, <1>3 DEF p

-----------------------------------------------------------------------------
(* Steps that move one connection. *)

\* nothing but X is placed anew, and new plans use new ids
Within(s, s2, X) ==
    /\ Placed(s2) \subseteq Placed(s) \cup X
    /\ \A y \in Planned(s2) : y \in Planned(s) \/ s.next_conn_id <= y
    /\ s.next_conn_id <= s2.next_conn_id

\* s2 is as tidy as s, differs by the connections X at most, and has the same
\* busy connections
Rehomes(s, s2, X) ==
    Tidy(s2) /\ Within(s, s2, X) /\ s2.busy = s.busy /\ s2.open = s.open

\* Ids are numbers.
LEMMA IdNumbers ==
    ASSUME NEW s, PoolType(s)
    PROVE  /\ Placed(s) \subseteq ConnIds /\ Planned(s) \subseteq ConnIds
           /\ s.next_conn_id \in ConnIds
<1>1. /\ SeqIds(s.free_new) \subseteq ConnIds /\ SeqIds(s.free_used) \subseteq ConnIds
  <2>1. /\ \A i \in DOMAIN s.free_new : s.free_new[i] \in PooledConn
        /\ \A i \in DOMAIN s.free_used : s.free_used[i] \in PooledConn
    BY Fields
  <2>2. \A c \in PooledConn : c.id \in ConnIds
    BY DEF PooledConn
  <2>3. QED
    BY <2>1, <2>2 DEF SeqIds
<1>2. Ids(s.busy) \subseteq ConnIds /\ Ids(s.to_drop) \subseteq ConnIds
  BY Fields, IdsType
<1>3. \A i \in DOMAIN s.requests : s.requests[i].conn \subseteq PooledConn
  BY RequestIn, RequestFields, OptionIsFinite
<1>4. ReqIds(s.requests) \subseteq ConnIds
  BY <1>3 DEF ReqIds, PooledConn
<1>5. Planned(s) \subseteq ConnIds
  BY Fields DEF Planned, ToSet
<1>6. QED
  BY <1>1, <1>2, <1>4, <1>5, Fields DEF Placed

\* The ids of a pool state are all below its counter.
LEMMA LacksKept ==
    ASSUME NEW s, PoolType(s), NEW s2, PoolType(s2), NEW X, Within(s, s2, X),
           NEW y \in ConnIds, Lacks(s, y), y \notin X
    PROVE  Lacks(s2, y)
<1>1. /\ s.next_conn_id \in Nat /\ s2.next_conn_id \in Nat /\ y \in Nat
      /\ Planned(s2) \subseteq Nat
  BY IdNumbers DEF ConnIds
<1>2. y < s.next_conn_id /\ s.next_conn_id <= s2.next_conn_id
  BY DEF Lacks, Within
<1>3. y < s2.next_conn_id
  BY <1>1, <1>2
<1>4. y \notin Placed(s2)
  BY DEF Lacks, Within
<1>5. y \notin Planned(s2)
  BY <1>1, <1>2 DEF Lacks, Within
<1>6. QED
  BY <1>3, <1>4, <1>5 DEF Lacks

\* Two such steps make one.
LEMMA RehomesTwice ==
    ASSUME NEW s, PoolType(s), NEW s1, PoolType(s1), NEW s2, PoolType(s2),
           NEW X, NEW Y, NEW Z, Rehomes(s, s1, X), Rehomes(s1, s2, Y),
           X \subseteq Placed(s) \cup Z, Y \subseteq Placed(s) \cup Z
    PROVE  Rehomes(s, s2, Z)
<1>1. /\ s.next_conn_id \in Nat /\ s1.next_conn_id \in Nat
      /\ s2.next_conn_id \in Nat /\ Planned(s2) \subseteq Nat
  BY IdNumbers DEF ConnIds
<1>2. Placed(s2) \subseteq Placed(s) \cup Z
  BY DEF Rehomes, Within
<1>3. s.next_conn_id <= s2.next_conn_id
  BY <1>1 DEF Rehomes, Within
<1>4. \A y \in Planned(s2) : y \in Planned(s) \/ s.next_conn_id <= y
  BY <1>1 DEF Rehomes, Within
<1>5. QED
  BY <1>2, <1>3, <1>4 DEF Rehomes, Within

\* A pool state with the same lists, counter and flag.
LEMMA SamePlaces ==
    ASSUME NEW s, PoolType(s), Tidy(s), NEW s2,
           s2.free_new = s.free_new, s2.free_used = s.free_used,
           s2.busy = s.busy, s2.to_drop = s.to_drop, s2.requests = s.requests,
           s2.open_effects = s.open_effects,
           s2.next_conn_id = s.next_conn_id, s2.open = s.open
    PROVE  Rehomes(s, s2, {})
<1>1. Placed(s2) = Placed(s) /\ Planned(s2) = Planned(s)
  BY DEF Placed, Planned
<1>2. Tidy(s2)
  BY <1>1 DEF Tidy
<1>3. s.next_conn_id <= s2.next_conn_id
  BY IdNumbers DEF ConnIds
<1>4. QED
  BY <1>1, <1>2, <1>3 DEF Rehomes, Within

\* Poking a notifier, parking a task and ending an open move nothing.
LEMMA SignalsRehome ==
    ASSUME NEW s, PoolType(s), Tidy(s)
    PROVE  /\ Rehomes(s, s, {})
           /\ Rehomes(s, NotifyBg(s), {}) /\ Rehomes(s, WakeWaiters(s), {})
           /\ \A t : Rehomes(s, Park(s, t), {})
           /\ \A id : Rehomes(s, CompleteOpenEffect(s, id), {})
<1>1. Rehomes(s, s, {})
  BY SamePlaces
<1>2. Rehomes(s, NotifyBg(s), {})
  <2> DEFINE s2 == NotifyBg(s)
  <2>1. /\ s2.free_new = s.free_new /\ s2.free_used = s.free_used
        /\ s2.busy = s.busy /\ s2.to_drop = s.to_drop /\ s2.requests = s.requests
        /\ s2.open_effects = s.open_effects
        /\ s2.next_conn_id = s.next_conn_id /\ s2.open = s.open
    BY DEF NotifyBg, PoolType, PoolStates
  <2>2. QED
    BY <2>1, SamePlaces
<1>3. Rehomes(s, WakeWaiters(s), {})
  <2> DEFINE s2 == WakeWaiters(s)
  <2>1. /\ s2.free_new = s.free_new /\ s2.free_used = s.free_used
        /\ s2.busy = s.busy /\ s2.to_drop = s.to_drop /\ s2.requests = s.requests
        /\ s2.open_effects = s.open_effects
        /\ s2.next_conn_id = s.next_conn_id /\ s2.open = s.open
    BY DEF WakeWaiters, PoolType, PoolStates
  <2>2. QED
    BY <2>1, SamePlaces
<1>4. ASSUME NEW t PROVE Rehomes(s, Park(s, t), {})
  <2> DEFINE s2 == Park(s, t)
  <2>1. /\ s2.free_new = s.free_new /\ s2.free_used = s.free_used
        /\ s2.busy = s.busy /\ s2.to_drop = s.to_drop /\ s2.requests = s.requests
        /\ s2.open_effects = s.open_effects
        /\ s2.next_conn_id = s.next_conn_id /\ s2.open = s.open
    BY DEF Park, PoolType, PoolStates
  <2>2. QED
    BY <2>1, SamePlaces
<1>5. ASSUME NEW id PROVE Rehomes(s, CompleteOpenEffect(s, id), {})
  <2> DEFINE s2 == CompleteOpenEffect(s, id)
  <2>1. /\ s2.free_new = s.free_new /\ s2.free_used = s.free_used
        /\ s2.busy = s.busy /\ s2.to_drop = s.to_drop /\ s2.requests = s.requests
        /\ s2.open_effects = s.open_effects
        /\ s2.next_conn_id = s.next_conn_id /\ s2.open = s.open
    BY DEF CompleteOpenEffect, PoolType, PoolStates
  <2>2. QED
    BY <2>1, SamePlaces
<1>6. QED
  BY <1>1, <1>2, <1>3, <1>4, <1>5

\* A connection outside the lists is put into a free list, the close queue or
\* the busy map.
LEMMA PutNew ==
    ASSUME NEW s, PoolType(s), Tidy(s), NEW c \in PooledConn, Lacks(s, c.id)
    PROVE  Rehomes(s, [s EXCEPT !.free_new = Append(s.free_new, c)], {c.id})
<1> DEFINE q == Append(s.free_new, c)
           s2 == [s EXCEPT !.free_new = q]
<1>1. NoTwins(q) /\ SeqIds(q) = SeqIds(s.free_new) \cup {c.id}
  BY Fields, AppendIds DEF Tidy, Lacks, Placed
<1> HIDE DEF q
<1>2. /\ s2.free_new = q /\ s2.free_used = s.free_used
      /\ s2.busy = s.busy /\ s2.to_drop = s.to_drop /\ s2.requests = s.requests
      /\ s2.open_effects = s.open_effects
      /\ s2.next_conn_id = s.next_conn_id /\ s2.open = s.open
  BY DEF PoolType, PoolStates
<1> HIDE DEF s2
<1>3. Placed(s2) = Placed(s) \cup {c.id} /\ Planned(s2) = Planned(s)
  BY <1>1, <1>2 DEF Placed, Planned
<1>4. Tidy(s2)
  BY <1>1, <1>2, <1>3 DEF Tidy, Apart, Lacks, Placed
<1>5. s.next_conn_id <= s2.next_conn_id
  BY <1>2, IdNumbers DEF ConnIds
<1>6. QED
  BY <1>2, <1>3, <1>4, <1>5 DEF Rehomes, Within, s2, q

\* A connection outside the lists joins the used ones.
LEMMA PutUsed ==
    ASSUME NEW s, PoolType(s), Tidy(s), NEW c \in PooledConn, Lacks(s, c.id)
    PROVE  Rehomes(s, [s EXCEPT !.free_used = Append(s.free_used, c)], {c.id})
<1> DEFINE q == Append(s.free_used, c)
           s2 == [s EXCEPT !.free_used = q]
<1>1. NoTwins(q) /\ SeqIds(q) = SeqIds(s.free_used) \cup {c.id}
  BY Fields, AppendIds DEF Tidy, Lacks, Placed
<1> HIDE DEF q
<1>2. /\ s2.free_new = s.free_new /\ s2.free_used = q
      /\ s2.busy = s.busy /\ s2.to_drop = s.to_drop
      /\ s2.requests = s.requests /\ s2.open_effects = s.open_effects
      /\ s2.next_conn_id = s.next_conn_id /\ s2.open = s.open
  BY DEF PoolType, PoolStates
<1> HIDE DEF s2
<1>3. Placed(s2) = Placed(s) \cup {c.id} /\ Planned(s2) = Planned(s)
  BY <1>1, <1>2 DEF Placed, Planned
<1>4. Tidy(s2)
  BY <1>1, <1>2, <1>3 DEF Tidy, Apart, Lacks, Placed
<1>5. s.next_conn_id <= s2.next_conn_id
  BY <1>2, IdNumbers DEF ConnIds
<1>6. QED
  BY <1>2, <1>3, <1>4, <1>5 DEF Rehomes, Within, s2, q

\* A connection outside the lists joins the close queue.
LEMMA PutDrop ==
    ASSUME NEW s, PoolType(s), Tidy(s), NEW c \in PooledConn, Lacks(s, c.id)
    PROVE  Rehomes(s, [s EXCEPT !.to_drop = s.to_drop \cup {c}], {c.id})
<1> DEFINE d == s.to_drop \cup {c}
           s2 == [s EXCEPT !.to_drop = d]
<1>1. Ids(d) = Ids(s.to_drop) \cup {c.id}
  BY DEF Ids
<1>2. UniqueIds(d)
  <2>1. \A x \in s.to_drop : x.id # c.id
    BY DEF Lacks, Placed, Ids
  <2>2. QED
    BY <2>1 DEF UniqueIds, Tidy
<1> HIDE DEF d
<1>3. /\ s2.free_new = s.free_new /\ s2.free_used = s.free_used
      /\ s2.busy = s.busy /\ s2.to_drop = d
      /\ s2.requests = s.requests /\ s2.open_effects = s.open_effects
      /\ s2.next_conn_id = s.next_conn_id /\ s2.open = s.open
  BY DEF PoolType, PoolStates
<1> HIDE DEF s2
<1>4. Placed(s2) = Placed(s) \cup {c.id} /\ Planned(s2) = Planned(s)
  BY <1>1, <1>3 DEF Placed, Planned
<1>5. Tidy(s2)
  BY <1>1, <1>2, <1>3, <1>4 DEF Tidy, Apart, Lacks, Placed
<1>6. s.next_conn_id <= s2.next_conn_id
  BY <1>3, IdNumbers DEF ConnIds
<1>7. QED
  BY <1>3, <1>4, <1>5, <1>6 DEF Rehomes, Within, s2, d

\* A request is given a connection from outside the lists, or none; what it
\* had before is then outside.
LEMMA PutRequest ==
    ASSUME NEW s, PoolType(s), Tidy(s), NEW i \in DOMAIN s.requests,
           NEW r \in Request, \A c \in r.conn : Lacks(s, c.id)
    PROVE  /\ Rehomes(s, SetRequest(s, i, r), Ids(r.conn))
           /\ \A c \in s.requests[i].conn :
                c.id \in Placed(s) /\ Lacks(SetRequest(s, i, r), c.id)
<1> DEFINE q == [s.requests EXCEPT ![i] = r]
           s2 == SetRequest(s, i, r)
<1>1. \A c \in r.conn : c.id \notin ReqIds(s.requests)
  BY DEF Lacks, Placed
<1>2. /\ NoReqTwins(q) /\ ReqIds(q) \subseteq ReqIds(s.requests) \cup Ids(r.conn)
      /\ \A c \in s.requests[i].conn :
           c.id \in ReqIds(s.requests) /\ c.id \notin ReqIds(q)
  BY <1>1, Fields, ExceptReqIds DEF Tidy
<1>3. /\ s2.free_new = s.free_new /\ s2.free_used = s.free_used
      /\ s2.busy = s.busy /\ s2.to_drop = s.to_drop
      /\ s2.requests = q /\ s2.open_effects = s.open_effects
      /\ s2.next_conn_id = s.next_conn_id /\ s2.open = s.open
  BY DEF SetRequest, PoolType, PoolStates
<1> HIDE DEF s2, q
<1>4. Placed(s2) \subseteq Placed(s) \cup Ids(r.conn) /\ Planned(s2) = Planned(s)
  BY <1>2, <1>3 DEF Placed, Planned
<1>5. \A x \in Ids(r.conn) : Lacks(s, x)
  BY DEF Ids
<1>6. Tidy(s2)
  <2>1. Apart(SeqIds(s.free_new), SeqIds(s.free_used), Ids(s.busy),
              Ids(s.to_drop), ReqIds(q), Planned(s))
    BY <1>2, <1>5 DEF Tidy, Apart, Lacks, Placed
  <2>2. \A x \in Placed(s2) \cup Planned(s2) : x < s.next_conn_id
    BY <1>4, <1>5 DEF Tidy, Lacks
  <2>3. QED
    BY <1>2, <1>3, <1>4, <2>1, <2>2 DEF Tidy
<1>7. s.next_conn_id <= s2.next_conn_id
  BY <1>3, IdNumbers DEF ConnIds
<1>8. ASSUME NEW c \in s.requests[i].conn
      PROVE  c.id \in Placed(s) /\ Lacks(s2, c.id)
  <2>1. c.id \in ReqIds(s.requests) /\ c.id \notin ReqIds(q)
    BY <1>2
  <2>2. c.id \in Placed(s) /\ c.id < s2.next_conn_id
    BY <1>3, <2>1 DEF Tidy, Placed
  <2>3. c.id \notin Placed(s2) \cup Planned(s2)
    BY <1>3, <1>4, <2>1 DEF Tidy, Apart, Placed
  <2>4. QED
    BY <2>2, <2>3 DEF Lacks
<1>9. QED
  BY <1>3, <1>4, <1>6, <1>7, <1>8 DEF Rehomes, Within, s2

\* A request that keeps its connection moves nothing.
LEMMA KeepRequest ==
    ASSUME NEW s, PoolType(s), Tidy(s), NEW i \in DOMAIN s.requests, NEW r,
           r.conn = s.requests[i].conn
    PROVE  Rehomes(s, SetRequest(s, i, r), {})
<1> DEFINE q == [s.requests EXCEPT ![i] = r]
           s2 == SetRequest(s, i, r)
<1>1. NoReqTwins(q) /\ ReqIds(q) = ReqIds(s.requests)
  BY Fields, SameReqIds DEF Tidy
<1>2. /\ s2.free_new = s.free_new /\ s2.free_used = s.free_used
      /\ s2.busy = s.busy /\ s2.to_drop = s.to_drop
      /\ s2.requests = q /\ s2.open_effects = s.open_effects
      /\ s2.next_conn_id = s.next_conn_id /\ s2.open = s.open
  BY DEF SetRequest, PoolType, PoolStates
<1> HIDE DEF s2, q
<1>3. Placed(s2) = Placed(s) /\ Planned(s2) = Planned(s)
  BY <1>1, <1>2 DEF Placed, Planned
<1>4. Tidy(s2)
  BY <1>1, <1>2, <1>3 DEF Tidy
<1>5. s.next_conn_id <= s2.next_conn_id
  BY <1>2, IdNumbers DEF ConnIds
<1>6. QED
  BY <1>2, <1>3, <1>4, <1>5 DEF Rehomes, Within, s2

\* A connection is taken out of free_new.
LEMMA TakeNew ==
    ASSUME NEW s, PoolType(s), Tidy(s), NEW k \in DOMAIN s.free_new,
           NEW q, DrawnWithout(q, s.free_new, k)
    PROVE  /\ Rehomes(s, [s EXCEPT !.free_new = q], {})
           /\ s.free_new[k].id \in Placed(s)
           /\ Lacks([s EXCEPT !.free_new = q], s.free_new[k].id)
<1> DEFINE x == s.free_new[k].id
           s2 == [s EXCEPT !.free_new = q]
<1>1. /\ NoTwins(q) /\ SeqIds(q) \subseteq SeqIds(s.free_new)
      /\ x \in SeqIds(s.free_new) /\ x \notin SeqIds(q)
  BY DrawnIds DEF Tidy
<1>2. /\ s2.free_new = q /\ s2.free_used = s.free_used
      /\ s2.busy = s.busy /\ s2.to_drop = s.to_drop
      /\ s2.requests = s.requests /\ s2.open_effects = s.open_effects
      /\ s2.next_conn_id = s.next_conn_id /\ s2.open = s.open
  BY DEF PoolType, PoolStates
<1> HIDE DEF s2, x
<1>3. Placed(s2) \subseteq Placed(s) /\ Planned(s2) = Planned(s)
  BY <1>1, <1>2 DEF Placed, Planned
<1>4. Tidy(s2)
  BY <1>1, <1>2, <1>3 DEF Tidy, Apart
<1>5. x \in Placed(s) /\ Lacks(s2, x)
  BY <1>1, <1>2, <1>3 DEF Tidy, Apart, Lacks, Placed
<1>6. s.next_conn_id <= s2.next_conn_id
  BY <1>2, IdNumbers DEF ConnIds
<1>7. QED
  BY <1>2, <1>3, <1>4, <1>5, <1>6 DEF Rehomes, Within, s2, x

\* A connection is taken out of free_used.
LEMMA TakeUsed ==
    ASSUME NEW s, PoolType(s), Tidy(s), NEW k \in DOMAIN s.free_used,
           NEW q, DrawnWithout(q, s.free_used, k)
    PROVE  /\ Rehomes(s, [s EXCEPT !.free_used = q], {})
           /\ s.free_used[k].id \in Placed(s)
           /\ Lacks([s EXCEPT !.free_used = q], s.free_used[k].id)
<1> DEFINE x == s.free_used[k].id
           s2 == [s EXCEPT !.free_used = q]
<1>1. /\ NoTwins(q) /\ SeqIds(q) \subseteq SeqIds(s.free_used)
      /\ x \in SeqIds(s.free_used) /\ x \notin SeqIds(q)
  BY DrawnIds DEF Tidy
<1>2. /\ s2.free_new = s.free_new /\ s2.free_used = q
      /\ s2.busy = s.busy /\ s2.to_drop = s.to_drop
      /\ s2.requests = s.requests /\ s2.open_effects = s.open_effects
      /\ s2.next_conn_id = s.next_conn_id /\ s2.open = s.open
  BY DEF PoolType, PoolStates
<1> HIDE DEF s2, x
<1>3. Placed(s2) \subseteq Placed(s) /\ Planned(s2) = Planned(s)
  BY <1>1, <1>2 DEF Placed, Planned
<1>4. Tidy(s2)
  BY <1>1, <1>2, <1>3 DEF Tidy, Apart
<1>5. x \in Placed(s) /\ Lacks(s2, x)
  BY <1>1, <1>2, <1>3 DEF Tidy, Apart, Lacks, Placed
<1>6. s.next_conn_id <= s2.next_conn_id
  BY <1>2, IdNumbers DEF ConnIds
<1>7. QED
  BY <1>2, <1>3, <1>4, <1>5, <1>6 DEF Rehomes, Within, s2, x

\* A request leaves the queue with its connection.
LEMMA TakeRequest ==
    ASSUME NEW s, PoolType(s), Tidy(s), NEW i \in DOMAIN s.requests
    PROVE  /\ Rehomes(s, [s EXCEPT !.requests = RemoveAt(s.requests, i)], {})
           /\ \A c \in s.requests[i].conn :
                /\ c.id \in Placed(s)
                /\ Lacks([s EXCEPT !.requests = RemoveAt(s.requests, i)], c.id)
<1> DEFINE q == RemoveAt(s.requests, i)
           s2 == [s EXCEPT !.requests = q]
<1>1. DrawnWithout(q, s.requests, i)
  BY Fields, RemoveAtDraws
<1> HIDE DEF q
<1>2. /\ NoReqTwins(q) /\ ReqIds(q) \subseteq ReqIds(s.requests)
      /\ \A c \in s.requests[i].conn :
           c.id \in ReqIds(s.requests) /\ c.id \notin ReqIds(q)
  BY <1>1, DrawnReqIds DEF Tidy
<1>3. /\ s2.free_new = s.free_new /\ s2.free_used = s.free_used
      /\ s2.busy = s.busy /\ s2.to_drop = s.to_drop
      /\ s2.requests = q /\ s2.open_effects = s.open_effects
      /\ s2.next_conn_id = s.next_conn_id /\ s2.open = s.open
  BY DEF PoolType, PoolStates
<1> HIDE DEF s2
<1>4. Placed(s2) \subseteq Placed(s) /\ Planned(s2) = Planned(s)
  BY <1>2, <1>3 DEF Placed, Planned
<1>5. Tidy(s2)
  BY <1>2, <1>3, <1>4 DEF Tidy, Apart
<1>6. \A c \in s.requests[i].conn : c.id \in Placed(s) /\ Lacks(s2, c.id)
  BY <1>2, <1>3, <1>4 DEF Tidy, Apart, Lacks, Placed
<1>7. s.next_conn_id <= s2.next_conn_id
  BY <1>3, IdNumbers DEF ConnIds
<1>8. QED
  BY <1>3, <1>4, <1>5, <1>6, <1>7 DEF Rehomes, Within, s2, q

\* Planned opens get ids nobody has.
LEMMA ScheduleRehomes ==
    ASSUME NEW s, PoolType(s), Tidy(s), NEW n \in Nat
    PROVE  Rehomes(s, ScheduleOpenEffects(s, n), {})
<1> DEFINE k == s.next_conn_id
           ids == [i \in 1..n |-> k + i - 1]
           e == s.open_effects
           p == e \o ids
           s2 == ScheduleOpenEffects(s, n)
<1>1. /\ e \in Seq(ConnIds) /\ Len(e) \in Nat /\ DOMAIN e = 1..Len(e)
      /\ k \in Nat /\ k > 0 /\ \A i \in DOMAIN e : e[i] \in Nat
  BY Fields DEF ConnIds
<1>2. \A i \in DOMAIN e : e[i] < k
  BY DEF Tidy, Planned, ToSet
<1>3. /\ s2.free_new = s.free_new /\ s2.free_used = s.free_used
      /\ s2.busy = s.busy /\ s2.to_drop = s.to_drop
      /\ s2.requests = s.requests /\ s2.open_effects = p
      /\ s2.next_conn_id = k + n /\ s2.open = s.open
  BY DEF ScheduleOpenEffects, PoolType, PoolStates
<1>4. /\ DOMAIN p = 1..(Len(e) + n)
      /\ \A i \in 1..Len(e) : p[i] = e[i]
      /\ \A i \in (Len(e) + 1)..(Len(e) + n) : p[i] = k + (i - Len(e)) - 1
  <2>1. ids \in Seq(Int) /\ Len(ids) = n
    BY <1>1
  <2>2. e \in Seq(Int)
    BY <1>1
  <2>3. /\ p \in Seq(Int) /\ Len(p) = Len(e) + n
        /\ \A i \in 1..(Len(e) + n) :
             p[i] = IF i <= Len(e) THEN e[i] ELSE ids[i - Len(e)]
    <3> HIDE DEF ids, e
    <3>1. QED
      BY <2>1, <2>2, ConcatProperties
  <2>4. \A i \in 1..n : ids[i] = k + i - 1
    OBVIOUS
  <2> HIDE DEF p, ids, e, k
  <2>5. DOMAIN p = 1..(Len(e) + n)
    BY <2>3
  <2>6. \A i \in 1..Len(e) : p[i] = e[i]
    BY <1>1, <2>3
  <2>7. ASSUME NEW i \in (Len(e) + 1)..(Len(e) + n)
        PROVE  p[i] = k + (i - Len(e)) - 1
    <3>1. i \in 1..(Len(e) + n) /\ ~(i <= Len(e)) /\ i - Len(e) \in 1..n
      BY <1>1, <2>7
    <3>2. QED
      BY <2>3, <2>4, <3>1
  <2>8. QED
    BY <2>5, <2>6, <2>7
<1> HIDE DEF k, ids, e, p, s2
<1>5. \A i \in DOMAIN p : \/ i \in DOMAIN e /\ p[i] = e[i]
                         \/ /\ i > Len(e) /\ p[i] = k + (i - Len(e)) - 1
                            /\ k <= p[i] /\ p[i] < k + n
  <2>1. SUFFICES ASSUME NEW i \in DOMAIN p, ~(i \in DOMAIN e)
                 PROVE  /\ i > Len(e) /\ p[i] = k + (i - Len(e)) - 1
                        /\ k <= p[i] /\ p[i] < k + n
    BY <1>1, <1>4
  <2>2. i \in (Len(e) + 1)..(Len(e) + n)
    BY <1>1, <1>4, <2>1
  <2>3. QED
    BY <1>1, <1>4, <2>2
<1>6. OneToOne(p)
  <2>1. OneToOne(e)
    BY DEF Tidy, e
  <2>2. DOMAIN p \subseteq Nat
    BY <1>1, <1>4
  <2>3. SUFFICES ASSUME NEW i \in DOMAIN p, NEW j \in DOMAIN p, p[i] = p[j]
                 PROVE  i = j
    BY DEF OneToOne
  <2>4. QED
    BY <1>1, <1>2, <1>5, <2>1, <2>2, <2>3 DEF OneToOne
<1>7. \A y \in Planned(s2) : y \in Planned(s) \/ (k <= y /\ y < k + n)
  BY <1>3, <1>5 DEF Planned, ToSet, e
<1>8. Placed(s2) = Placed(s)
  BY <1>3 DEF Placed
<1>9. Planned(s) \subseteq Nat /\ Placed(s) \subseteq Nat
  BY IdNumbers DEF ConnIds
<1>10. \A x \in Placed(s) \cup Planned(s) : x < k
  BY DEF Tidy, k
<1>11. \A x \in Placed(s2) \cup Planned(s2) : x < k + n
  BY <1>1, <1>7, <1>8, <1>9, <1>10
<1>12. Placed(s) \cap Planned(s2) = {}
  <2>1. Placed(s) \cap Planned(s) = {}
    BY DEF Tidy, Apart, Placed
  <2>2. QED
    BY <1>1, <1>7, <1>9, <1>10, <2>1
<1>13. Tidy(s2)
  <2>1. Apart(SeqIds(s.free_new), SeqIds(s.free_used), Ids(s.busy),
              Ids(s.to_drop), ReqIds(s.requests), Planned(s2))
    BY <1>12 DEF Tidy, Apart, Placed
  <2>2. QED
    BY <1>3, <1>6, <1>8, <1>11, <2>1 DEF Tidy
<1>14. QED
  BY <1>1, <1>3, <1>7, <1>8, <1>13 DEF Rehomes, Within, k, s2

-----------------------------------------------------------------------------
(* The functions that change the pool state. *)

\* ensure_min_connections plans opens under new ids.
LEMMA EnsureMinRehomes ==
    ASSUME NEW s, PoolType(s), Tidy(s)
    PROVE  Rehomes(s, EnsureMinConnections(s), {})
<1>1. CASE s.open
  <2> DEFINE n == Monus(PoolMin, ReservedOpenCount(s))
             s1 == ScheduleOpenEffects(s, n)
  <2>1. n \in Nat
    BY CountsAreNat, SizeAssumption DEF Monus
  <2> HIDE DEF n
  <2>2. PoolType(s1) /\ Rehomes(s, s1, {})
    BY <2>1, ScheduleOpenEffectsType, ScheduleRehomes
  <2> HIDE DEF s1
  <2>3. PoolType(NotifyBg(s1)) /\ Rehomes(s1, NotifyBg(s1), {})
    BY <2>2, NotifyBgType, SignalsRehome DEF Rehomes
  <2>4. Rehomes(s, NotifyBg(s1), {})
    BY <2>2, <2>3, RehomesTwice
  <2>5. QED
    BY <1>1, <2>4 DEF EnsureMinConnections, n, s1
<1>2. CASE ~s.open
  BY <1>2, SignalsRehome DEF EnsureMinConnections
<1>3. QED
  BY <1>1, <1>2

\* drop_conn puts a connection into the close queue.
LEMMA DropConnRehomes ==
    ASSUME NEW s, PoolType(s), Tidy(s), NEW c \in PooledConn, Lacks(s, c.id)
    PROVE  Rehomes(s, DropConn(s, c), {c.id})
<1> DEFINE s1 == [s EXCEPT !.to_drop = s.to_drop \cup {c}]
           s2 == EnsureMinConnections(s1)
<1>1. PoolType(s1) /\ Rehomes(s, s1, {c.id})
  BY Fields, ToDropType, PutDrop
<1> HIDE DEF s1
<1>2. PoolType(s2) /\ Rehomes(s1, s2, {})
  BY <1>1, EnsureMinConnectionsType, EnsureMinRehomes DEF Rehomes
<1>3. Rehomes(s, s2, {c.id})
  BY <1>1, <1>2, RehomesTwice
<1> HIDE DEF s2
<1>4. PoolType(NotifyBg(s2)) /\ Rehomes(s2, NotifyBg(s2), {})
  BY <1>2, NotifyBgType, SignalsRehome DEF Rehomes
<1>5. Rehomes(s, NotifyBg(s2), {c.id})
  BY <1>2, <1>3, <1>4, RehomesTwice
<1>6. QED
  BY <1>5 DEF DropConn, s1, s2

\* Clearing is_pool_extra keeps the id.
LEMMA NotExtraId ==
    ASSUME NEW c \in PooledConn
    PROVE  NotExtra(c) \in PooledConn /\ NotExtra(c).id = c.id
BY DEF NotExtra, PooledConn

\* reject_request files the connection of a request that left the queue.
LEMMA RejectRehomes ==
    ASSUME NEW s, PoolType(s), Tidy(s), NEW r \in Request,
           \A c \in r.conn : Lacks(s, c.id)
    PROVE  Rehomes(s, Reject(s, r), Ids(r.conn))
<1>1. CASE r.conn = {}
  <2>1. Ids(r.conn) = {}
    BY <1>1 DEF Ids
  <2>2. QED
    BY <1>1, <2>1, SignalsRehome DEF Reject
<1>2. CASE r.conn # {}
  <2> DEFINE conn == CHOOSE c \in r.conn : TRUE
             d == [s EXCEPT !.to_drop = s.to_drop \cup {NotExtra(conn)}]
             n == [s EXCEPT !.free_new = Append(s.free_new, conn)]
             u == [s EXCEPT !.free_used = Append(s.free_used, conn)]
  <2>1. conn \in r.conn /\ conn \in PooledConn
    BY <1>2, RequestFields, OptionIsFinite
  <2>2. conn.id \in Ids(r.conn)
    BY <2>1 DEF Ids
  <2>3. Lacks(s, conn.id)
    BY <2>1
  <2> HIDE DEF conn
  <2>4. PoolType(d) /\ Rehomes(s, d, {conn.id})
    <3>1. NotExtra(conn) \in PooledConn /\ Lacks(s, NotExtra(conn).id)
      BY <2>1, <2>3, NotExtraId
    <3>2. Rehomes(s, d, {NotExtra(conn).id})
      BY <3>1, PutDrop
    <3>3. QED
      BY <2>1, <3>1, <3>2, NotExtraId, Fields, ToDropType
  <2>5. PoolType(n) /\ Rehomes(s, n, {conn.id})
    BY <2>1, <2>3, Fields, AppendProperties, FreeListsType, PutNew
  <2>6. PoolType(u) /\ Rehomes(s, u, {conn.id})
    BY <2>1, <2>3, Fields, AppendProperties, FreeListsType, PutUsed
  <2>7. Reject(s, r) = WakeWaiters(
            CASE ~s.open \/ conn.is_pool_extra -> NotifyBg(d)
              [] s.open /\ ~conn.is_pool_extra /\ ~conn.ever_acquired -> n
              [] OTHER -> u)
    BY <1>2 DEF Reject, conn
  <2> HIDE DEF d, n, u
  <2>8. PoolType(NotifyBg(d)) /\ Rehomes(s, NotifyBg(d), {conn.id})
    <3>1. PoolType(NotifyBg(d)) /\ Rehomes(d, NotifyBg(d), {})
      BY <2>4, NotifyBgType, SignalsRehome DEF Rehomes
    <3>2. QED
      BY <2>4, <3>1, RehomesTwice
  <2>9. ASSUME NEW v, PoolType(v), Rehomes(s, v, {conn.id})
        PROVE  Rehomes(s, WakeWaiters(v), Ids(r.conn))
    <3>1. PoolType(WakeWaiters(v)) /\ Rehomes(v, WakeWaiters(v), {})
      BY <2>9, WakeWaitersType, SignalsRehome DEF Rehomes
    <3>2. QED
      BY <2>2, <2>9, <3>1, RehomesTwice
  <2>10. QED
    BY <2>5, <2>6, <2>7, <2>8, <2>9
<1>3. QED
  BY <1>1, <1>2

\* A request leaves the queue and its connection is filed.
LEMMA RemoveAndReject ==
    ASSUME NEW s, PoolType(s), Tidy(s), NEW i \in DOMAIN s.requests,
           NEW r \in Request, r.conn = s.requests[i].conn
    PROVE  Rehomes(s, Reject([s EXCEPT !.requests = RemoveAt(@, i)], r), {})
<1> DEFINE s1 == [s EXCEPT !.requests = RemoveAt(@, i)]
<1>1. /\ PoolType(s1) /\ Rehomes(s, s1, {})
      /\ \A c \in r.conn : c.id \in Placed(s) /\ Lacks(s1, c.id)
  BY WithoutRequestType, TakeRequest
<1> HIDE DEF s1
<1>2. PoolType(Reject(s1, r)) /\ Rehomes(s1, Reject(s1, r), Ids(r.conn))
  BY <1>1, RejectType, RejectRehomes DEF Rehomes
<1>3. Ids(r.conn) \subseteq Placed(s)
  BY <1>1 DEF Ids
<1>4. Rehomes(s, Reject(s1, r), {})
  BY <1>1, <1>2, <1>3, RehomesTwice
<1>5. QED
  BY <1>4 DEF s1

\* abandon_request moves a connection to a list at most.
LEMMA AbandonRehomes ==
    ASSUME NEW s, PoolType(s), Tidy(s), NEW t
    PROVE  Rehomes(s, AbandonRequest(s, t), {})
<1> DEFINE i == RequestPosition(s, t)
<1>1. CASE ~HasRequest(s, t)
  BY <1>1, SignalsRehome DEF AbandonRequest
<1>2. CASE HasRequest(s, t)
  <2>1. i \in DOMAIN s.requests /\ s.requests[i] \in Request
    BY <1>2, PositionIn, RequestIn
  <2>2. [s.requests[i] EXCEPT !.waiting = FALSE].conn = s.requests[i].conn
    BY <2>1 DEF Request
  <2> HIDE DEF i
  <2>3. Rehomes(s, SetRequest(s, i, [s.requests[i] EXCEPT !.waiting = FALSE]), {})
    BY <2>1, <2>2, KeepRequest
  <2>4. Rehomes(s, Reject([s EXCEPT !.requests = RemoveAt(@, i)], s.requests[i]), {})
    BY <2>1, RemoveAndReject
  <2>5. QED
    BY <1>2, <2>3, <2>4 DEF AbandonRequest, i
<1>3. QED
  BY <1>1, <1>2

\* enqueue_request adds a request without a connection.
LEMMA EnqueueRehomes ==
    ASSUME NEW s, PoolType(s), Tidy(s), NEW t, NEW cclass, NEW wantsNew
    PROVE  Rehomes(s, EnqueueRequest(s, t, cclass, wantsNew), {})
<1> DEFINE r == [task |-> t, cclass |-> cclass, wants_new |-> wantsNew,
                 requires_ping |-> FALSE, bg_processing |-> FALSE,
                 is_extra |-> FALSE, is_replacing |-> FALSE,
                 in_progress |-> FALSE, completed |-> FALSE, waiting |-> TRUE,
                 conn |-> {}, error |-> FALSE]
           q == Append(s.requests, r)
           s2 == EnqueueRequest(s, t, cclass, wantsNew)
<1>1. r.conn = {}
  OBVIOUS
<1>2. /\ s2.free_new = s.free_new /\ s2.free_used = s.free_used
      /\ s2.busy = s.busy /\ s2.to_drop = s.to_drop /\ s2.requests = q
      /\ s2.open_effects = s.open_effects
      /\ s2.next_conn_id = s.next_conn_id /\ s2.open = s.open
  BY DEF EnqueueRequest, PoolType, PoolStates
<1> HIDE DEF r, s2
<1>3. /\ DOMAIN q = 1..(Len(s.requests) + 1) /\ q[Len(s.requests) + 1] = r
      /\ DOMAIN s.requests = 1..Len(s.requests) /\ Len(s.requests) \in Nat
      /\ \A i \in 1..Len(s.requests) : q[i] = s.requests[i]
  BY Fields
<1> HIDE DEF q
<1>4. \A i \in DOMAIN q : \/ i \in DOMAIN s.requests /\ q[i] = s.requests[i]
                         \/ q[i].conn = {}
  BY <1>1, <1>3
<1>5. DOMAIN s.requests \subseteq DOMAIN q
  BY <1>3
<1>6. ReqIds(q) = ReqIds(s.requests)
  <2>1. \A i \in DOMAIN s.requests : q[i] = s.requests[i]
    BY <1>3
  <2>2. QED
    BY <1>4, <1>5, <2>1 DEF ReqIds
<1>7. NoReqTwins(q)
  BY <1>4 DEF NoReqTwins, Tidy
<1>8. Placed(s2) = Placed(s) /\ Planned(s2) = Planned(s)
  BY <1>2, <1>6 DEF Placed, Planned
<1>9. Tidy(s2)
  BY <1>2, <1>6, <1>7, <1>8 DEF Tidy
<1>10. s.next_conn_id <= s2.next_conn_id
  BY <1>2, IdNumbers DEF ConnIds
<1>11. QED
  BY <1>2, <1>8, <1>9, <1>10 DEF Rehomes, Within, s2

\* add_request_for_bg leaves the connection with its request.
LEMMA AddForBgRehomes ==
    ASSUME NEW s, PoolType(s), Tidy(s), NEW i \in DOMAIN s.requests
    PROVE  Rehomes(s, AddRequestForBg(s, i), {})
<1> DEFINE r == [s.requests[i] EXCEPT !.bg_processing = TRUE, !.completed = FALSE]
           s1 == SetRequest(s, i, r)
<1>1. r \in Request /\ r.conn = s.requests[i].conn
  BY RequestIn DEF Request
<1> HIDE DEF r
<1>2. PoolType(s1) /\ Rehomes(s, s1, {})
  BY <1>1, SetRequestType, KeepRequest
<1> HIDE DEF s1
<1>3. PoolType(NotifyBg(s1)) /\ Rehomes(s1, NotifyBg(s1), {})
  BY <1>2, NotifyBgType, SignalsRehome DEF Rehomes
<1>4. Rehomes(s, NotifyBg(s1), {})
  BY <1>2, <1>3, RehomesTwice
<1>5. QED
  BY <1>4 DEF AddRequestForBg, r, s1

\* A candidate is taken out of the list it is found in.
LEMMA WithoutCandidateRehomes ==
    ASSUME NEW s, PoolType(s), Tidy(s), NEW i \in DOMAIN s.requests,
           HasCandidate(s, i)
    PROVE  /\ Rehomes(s, WithoutCandidate(s, i), {})
           /\ Candidate(s, i).id \in Placed(s)
           /\ Lacks(WithoutCandidate(s, i), Candidate(s, i).id)
<1>1. s.free_used \in Seq(PooledConn) /\ s.free_new \in Seq(PooledConn)
  BY Fields
<1>2. CASE UsedCandidates(s, i) # {}
  <2> DEFINE k == Max(UsedCandidates(s, i))
  <2>1. UsedCandidates(s, i) \in SUBSET (1..Len(s.free_used))
    BY <1>1 DEF UsedCandidates
  <2>2. k \in DOMAIN s.free_used
    BY <1>1, <1>2, <2>1, MaxIn, LenProperties
  <2> HIDE DEF k
  <2>3. DrawnWithout(RemoveAt(s.free_used, k), s.free_used, k)
    BY <1>1, <2>2, RemoveAtDraws
  <2>4. QED
    BY <1>2, <2>2, <2>3, TakeUsed DEF Candidate, WithoutCandidate, k
<1>3. CASE UsedCandidates(s, i) = {}
  <2>1. s.free_new # <<>>
    BY <1>3 DEF HasCandidate, NewCandidates
  <2>2. /\ Len(s.free_new) \in DOMAIN s.free_new
        /\ Last(s.free_new) = s.free_new[Len(s.free_new)]
        /\ DrawnWithout(Front(s.free_new), s.free_new, Len(s.free_new))
    BY <1>1, <2>1, FrontDraws
  <2>3. QED
    BY <1>3, <2>2, TakeNew DEF Candidate, WithoutCandidate
<1>4. QED
  BY <1>2, <1>3

\* The three verdicts of check_connection: the candidate goes to the close
\* queue, or to the request.
LEMMA CheckRehomes ==
    ASSUME NEW s, PoolType(s), Tidy(s), NEW i \in DOMAIN s.requests,
           HasCandidate(s, i)
    PROVE  /\ Rehomes(s, CheckUnfit(s, i), {})
           /\ Rehomes(s, CheckFit(s, i), {})
           /\ Rehomes(s, CheckNeedsPing(s, i), {})
           /\ CheckFit(s, i).requests[i].conn = {Candidate(s, i)}
<1> DEFINE w == WithoutCandidate(s, i)
           conn == Candidate(s, i)
           fit == [s.requests[i] EXCEPT !.conn = {conn}, !.completed = TRUE]
           ping == [s.requests[i] EXCEPT !.conn = {conn},
                                         !.requires_ping = TRUE]
           sfit == SetRequest(w, i, fit)
           sping == SetRequest(w, i, ping)
<1>1. conn \in PooledConn /\ PoolType(w) /\ w.requests = s.requests
  BY CandidateType
<1>2. Rehomes(s, w, {}) /\ conn.id \in Placed(s) /\ Lacks(w, conn.id)
  BY WithoutCandidateRehomes
<1> HIDE DEF w, conn
<1>3. {conn} \in Option(PooledConn)
  BY <1>1, OptionSome
<1>4. /\ fit \in Request /\ ping \in Request
      /\ fit.conn = {conn} /\ ping.conn = {conn}
  BY <1>3, RequestIn DEF Request
<1> HIDE DEF fit, ping
<1>5. Ids({conn}) = {conn.id}
  BY DEF Ids
<1>6. Rehomes(s, CheckUnfit(s, i), {})
  <2>1. PoolType(DropConn(w, conn)) /\ Rehomes(w, DropConn(w, conn), {conn.id})
    BY <1>1, <1>2, DropConnType, DropConnRehomes DEF Rehomes
  <2>2. Rehomes(s, DropConn(w, conn), {})
    BY <1>1, <1>2, <2>1, RehomesTwice
  <2>3. QED
    BY <2>2 DEF CheckUnfit, w, conn
<1>7. /\ PoolType(sfit) /\ PoolType(sping) /\ i \in DOMAIN sping.requests
      /\ sfit.requests[i] = fit
  BY <1>1, <1>4, SetRequestType
<1>8. Rehomes(w, sfit, {conn.id}) /\ Rehomes(w, sping, {conn.id})
  <2>1. \A c \in {conn} : Lacks(w, c.id)
    BY <1>2
  <2>2. Tidy(w) /\ i \in DOMAIN w.requests
    BY <1>1, <1>2 DEF Rehomes
  <2>3. Rehomes(w, sfit, Ids({conn})) /\ Rehomes(w, sping, Ids({conn}))
    BY <1>1, <1>4, <2>1, <2>2, PutRequest
  <2>4. QED
    BY <1>5, <2>3
<1>9. Rehomes(s, sfit, {}) /\ Rehomes(s, sping, {})
  BY <1>1, <1>2, <1>7, <1>8, RehomesTwice
<1> HIDE DEF sfit, sping
<1>10. Rehomes(s, AddRequestForBg(sping, i), {})
  <2>1. PoolType(AddRequestForBg(sping, i)) /\ Rehomes(sping, AddRequestForBg(sping, i), {})
    BY <1>7, <1>9, AddRequestForBgType, AddForBgRehomes DEF Rehomes
  <2>2. QED
    BY <1>7, <1>9, <2>1, RehomesTwice
<1>11. CheckFit(s, i) = sfit
  BY DEF CheckFit, w, conn, fit, sfit
<1>12. CheckNeedsPing(s, i) = AddRequestForBg(sping, i)
  BY DEF CheckNeedsPing, w, conn, ping, sping
<1>13. QED
  BY <1>4, <1>6, <1>7, <1>9, <1>10, <1>11, <1>12 DEF conn

\* fulfill without a candidate: at capacity an idle connection gives way.
LEMMA QueueForBgRehomes ==
    ASSUME NEW s, PoolType(s), Tidy(s), NEW i \in DOMAIN s.requests
    PROVE  Rehomes(s, QueueForBg(s, i), {})
<1> DEFINE r == [s.requests[i] EXCEPT !.requires_ping = FALSE]
           s0 == SetRequest(s, i, r)
           rep == SetRequest(s, i, [r EXCEPT !.is_replacing = TRUE])
           ext == SetRequest(s, i, [r EXCEPT !.is_extra = TRUE])
           vnew == [rep EXCEPT !.to_drop = @ \cup {Last(s0.free_new)},
                               !.free_new = Front(@)]
           vused == [rep EXCEPT !.to_drop = @ \cup {Last(s0.free_used)},
                                !.free_used = Front(@)]
           grow == ScheduleOpenEffects(s0, GrowthFor(s0, i))
           Good(v) == PoolType(v) /\ i \in DOMAIN v.requests /\ Rehomes(s, v, {})
<1>1. /\ r \in Request /\ [r EXCEPT !.is_replacing = TRUE] \in Request
      /\ [r EXCEPT !.is_extra = TRUE] \in Request
      /\ r.conn = s.requests[i].conn
      /\ [r EXCEPT !.is_replacing = TRUE].conn = s.requests[i].conn
      /\ [r EXCEPT !.is_extra = TRUE].conn = s.requests[i].conn
  BY RequestIn DEF Request
<1> HIDE DEF r
<1>2. Good(s0) /\ Good(rep) /\ Good(ext)
  <2>1. ASSUME NEW p \in Request, p.conn = s.requests[i].conn
        PROVE  Good(SetRequest(s, i, p))
    BY <2>1, SetRequestType, KeepRequest
  <2> HIDE DEF Good
  <2>2. QED
    BY <1>1, <2>1
<1>3. rep.free_new = s0.free_new /\ rep.free_used = s0.free_used
  BY DEF SetRequest, PoolType, PoolStates
<1> HIDE DEF s0, rep, ext
<1>4. s0.free_new # <<>> => Good(vnew)
  <2>1. SUFFICES ASSUME rep.free_new # <<>> PROVE Good(vnew)
    BY <1>3
  <2> DEFINE q == rep.free_new
             c == Last(q)
             w == [rep EXCEPT !.free_new = Front(q)]
             v == [w EXCEPT !.to_drop = w.to_drop \cup {c}]
  <2>2. /\ PoolType(rep) /\ Tidy(rep) /\ q \in Seq(PooledConn)
        /\ i \in DOMAIN rep.requests
    BY <1>2, Fields DEF Rehomes
  <2>3. /\ Len(q) \in DOMAIN q /\ c = q[Len(q)]
        /\ DrawnWithout(Front(q), q, Len(q))
        /\ Front(q) \in Seq(PooledConn) /\ c \in PooledConn
    BY <2>1, <2>2, FrontDraws, FrontLastIn
  <2>4. Rehomes(rep, w, {}) /\ c.id \in Placed(rep) /\ Lacks(w, c.id)
    BY <2>2, <2>3, TakeNew
  <2>5. PoolType(w)
    BY <2>2, <2>3, FreeListsType
  <2>6. vnew = v
    BY <1>3, <2>2 DEF PoolType, PoolStates
  <2>7. i \in DOMAIN v.requests
    BY <2>2 DEF PoolType, PoolStates
  <2> HIDE DEF w, c, q
  <2>8. PoolType(v) /\ Rehomes(w, v, {c.id})
    BY <2>3, <2>4, <2>5, Fields, ToDropType, PutDrop DEF Rehomes
  <2> HIDE DEF v
  <2>9. Rehomes(rep, v, {})
    BY <2>2, <2>4, <2>5, <2>8, RehomesTwice
  <2>10. Rehomes(s, v, {})
    BY <1>2, <2>8, <2>9, RehomesTwice
  <2>11. QED
    BY <2>6, <2>7, <2>8, <2>10
<1>5. s0.free_used # <<>> => Good(vused)
  <2>1. SUFFICES ASSUME rep.free_used # <<>> PROVE Good(vused)
    BY <1>3
  <2> DEFINE q == rep.free_used
             c == Last(q)
             w == [rep EXCEPT !.free_used = Front(q)]
             v == [w EXCEPT !.to_drop = w.to_drop \cup {c}]
  <2>2. /\ PoolType(rep) /\ Tidy(rep) /\ q \in Seq(PooledConn)
        /\ i \in DOMAIN rep.requests
    BY <1>2, Fields DEF Rehomes
  <2>3. /\ Len(q) \in DOMAIN q /\ c = q[Len(q)]
        /\ DrawnWithout(Front(q), q, Len(q))
        /\ Front(q) \in Seq(PooledConn) /\ c \in PooledConn
    BY <2>1, <2>2, FrontDraws, FrontLastIn
  <2>4. Rehomes(rep, w, {}) /\ c.id \in Placed(rep) /\ Lacks(w, c.id)
    BY <2>2, <2>3, TakeUsed
  <2>5. PoolType(w)
    BY <2>2, <2>3, FreeListsType
  <2>6. vused = v
    BY <1>3, <2>2 DEF PoolType, PoolStates
  <2>7. i \in DOMAIN v.requests
    BY <2>2 DEF PoolType, PoolStates
  <2> HIDE DEF w, c, q
  <2>8. PoolType(v) /\ Rehomes(w, v, {c.id})
    BY <2>3, <2>4, <2>5, Fields, ToDropType, PutDrop DEF Rehomes
  <2> HIDE DEF v
  <2>9. Rehomes(rep, v, {})
    BY <2>2, <2>4, <2>5, <2>8, RehomesTwice
  <2>10. Rehomes(s, v, {})
    BY <1>2, <2>8, <2>9, RehomesTwice
  <2>11. QED
    BY <2>6, <2>7, <2>8, <2>10
<1>6. Good(grow)
  <2> DEFINE n == GrowthFor(s0, i)
  <2>1. n \in Nat
    BY <1>2, GrowthIsNat
  <2> HIDE DEF n
  <2>2. PoolType(ScheduleOpenEffects(s0, n)) /\ Rehomes(s0, ScheduleOpenEffects(s0, n), {})
    BY <1>2, <2>1, ScheduleOpenEffectsType, ScheduleRehomes DEF Rehomes
  <2>3. i \in DOMAIN ScheduleOpenEffects(s0, n).requests
    BY <1>2 DEF ScheduleOpenEffects, PoolType, PoolStates
  <2>4. Rehomes(s, ScheduleOpenEffects(s0, n), {})
    BY <1>2, <2>2, RehomesTwice
  <2>5. QED
    BY <2>2, <2>3, <2>4 DEF n
<1> HIDE DEF vnew, vused, grow
<1>7. QueueForBg(s, i) = AddRequestForBg(
         CASE AtCapacity(s0) /\ s0.free_new # <<>> -> vnew
           [] AtCapacity(s0) /\ s0.free_new = <<>> /\ s0.free_used # <<>> -> vused
           [] AtCapacity(s0) /\ NothingFree(s0) /\ s0.mode = "FORCEGET" -> ext
           [] ~AtCapacity(s0) /\ CclassMatches(s0.requests[i]) -> grow
           [] OTHER -> s0, i)
  BY DEF QueueForBg, r, s0, rep, ext, vnew, vused, grow
<1>8. ASSUME NEW v, Good(v) PROVE Rehomes(s, AddRequestForBg(v, i), {})
  <2>1. PoolType(AddRequestForBg(v, i)) /\ Rehomes(v, AddRequestForBg(v, i), {})
    BY <1>8, AddRequestForBgType, AddForBgRehomes DEF Rehomes
  <2>2. QED
    BY <1>8, <2>1, RehomesTwice
<1> HIDE DEF Good
<1>9. QED
  BY <1>2, <1>4, <1>5, <1>6, <1>7, <1>8

\* finish_completed_request moves the connection of a request to busy.
LEMMA FinishLends ==
    ASSUME NEW s, PoolType(s), Tidy(s), NEW i \in DOMAIN s.requests
    PROVE  LET s2 == FinishCompletedRequest(s, i)
               X == Ids(s.requests[i].conn)
           IN /\ Tidy(s2) /\ Within(s, s2, {}) /\ s2.open = s.open
              /\ Ids(s2.busy) = Ids(s.busy) \cup X
              /\ X \cap Ids(s.busy) = {} /\ X \subseteq Placed(s)
<1> DEFINE conn == s.requests[i].conn
           X == Ids(conn)
           w == [s EXCEPT !.requests = RemoveAt(s.requests, i)]
           taken == {[c EXCEPT !.ever_acquired = TRUE] : c \in conn}
           s2 == FinishCompletedRequest(s, i)
<1>1. conn \subseteq PooledConn /\ (conn = {} \/ \E x \in PooledConn : conn = {x})
  BY RequestIn, RequestFields, OptionIsFinite
<1>2. /\ Rehomes(s, w, {})
      /\ \A c \in conn : c.id \in Placed(s) /\ Lacks(w, c.id)
  BY TakeRequest
<1>3. X \subseteq Placed(s) /\ \A x \in X : Lacks(w, x)
  BY <1>2 DEF Ids
<1>4. Ids(taken) = X
  <2>1. \A c \in conn : [c EXCEPT !.ever_acquired = TRUE].id = c.id
    BY <1>1 DEF PooledConn
  <2>2. \A c \in taken : c.id \in X
    BY <2>1 DEF Ids
  <2>3. \A c \in conn : \E d \in taken : d.id = c.id
    BY <2>1
  <2> HIDE DEF taken, conn
  <2>4. QED
    BY <2>2, <2>3 DEF Ids
<1>5. UniqueIds(taken)
  BY <1>1 DEF UniqueIds
<1>6. PoolType(w)
  BY WithoutRequestType
<1>7. /\ s2.free_new = w.free_new /\ s2.free_used = w.free_used
      /\ s2.busy = w.busy \cup taken /\ s2.to_drop = w.to_drop
      /\ s2.requests = w.requests /\ s2.open_effects = w.open_effects
      /\ s2.next_conn_id = w.next_conn_id /\ s2.open = w.open
  BY DEF FinishCompletedRequest, PoolType, PoolStates
<1> HIDE DEF conn, X, w, taken, s2
<1>8. Ids(s2.busy) = Ids(w.busy) \cup X
  BY <1>4, <1>7 DEF Ids
<1>9. X \cap Ids(w.busy) = {}
  BY <1>3 DEF Lacks, Placed
<1>10. UniqueIds(s2.busy)
  <2>1. UniqueIds(w.busy)
    BY <1>2 DEF Rehomes, Tidy
  <2>2. \A c \in w.busy, d \in taken : c.id # d.id
    BY <1>4, <1>9 DEF Ids
  <2>3. QED
    BY <1>5, <1>7, <2>1, <2>2 DEF UniqueIds
<1>11. Placed(s2) = Placed(w) \cup X /\ Planned(s2) = Planned(w)
  BY <1>7, <1>8 DEF Placed, Planned
<1>12. Tidy(s2)
  <2>1. Tidy(w)
    BY <1>2 DEF Rehomes
  <2>2. Apart(SeqIds(w.free_new), SeqIds(w.free_used), Ids(s2.busy),
              Ids(w.to_drop), ReqIds(w.requests), Planned(w))
    BY <1>3, <1>8, <2>1 DEF Tidy, Apart, Lacks, Placed
  <2>3. \A x \in Placed(s2) \cup Planned(s2) : x < w.next_conn_id
    BY <1>3, <1>11, <2>1 DEF Tidy, Lacks
  <2>4. QED
    BY <1>7, <1>10, <1>11, <2>1, <2>2, <2>3 DEF Tidy
<1>13. Within(s, s2, {})
  BY <1>2, <1>3, <1>7, <1>11 DEF Rehomes, Within
<1>14. w.busy = s.busy /\ w.open = s.open
  BY <1>2 DEF Rehomes
<1>15. QED
  BY <1>3, <1>7, <1>8, <1>9, <1>12, <1>13, <1>14 DEF X, conn, s2

\* get_next_request marks a request.
LEMMA GetNextRehomes ==
    ASSUME NEW s, PoolType(s), Tidy(s)
    PROVE  Rehomes(s, GetNextRequest(s), {})
<1>1. CASE PeekNextRequest(s) = {}
  BY <1>1, SignalsRehome DEF GetNextRequest
<1>2. CASE PeekNextRequest(s) # {}
  <2> DEFINE t == CHOOSE x \in PeekNextRequest(s) : TRUE
             i == RequestPosition(s, t)
             r == [s.requests[i] EXCEPT !.in_progress = s.requests[i].waiting]
  <2>1. HasRequest(s, t)
    BY <1>2, PeekType
  <2> HIDE DEF t
  <2>2. i \in DOMAIN s.requests /\ s.requests[i] \in Request
    BY <2>1, PositionIn, RequestIn
  <2> HIDE DEF i
  <2>3. r.conn = s.requests[i].conn
    BY <2>2 DEF Request
  <2> HIDE DEF r
  <2>4. Rehomes(s, SetRequest(s, i, r), {})
    BY <2>2, <2>3, KeepRequest
  <2>5. QED
    BY <1>2, <2>4 DEF GetNextRequest, t, i, r
<1>3. QED
  BY <1>1, <1>2

\* post_process_request: the request stays, or its connection is filed.
LEMMA PostProcessRehomes ==
    ASSUME NEW s, PoolType(s), Tidy(s), NEW t
    PROVE  Rehomes(s, PostProcessRequest(s, t), {})
<1> DEFINE i == RequestPosition(s, t)
           r == s.requests[i]
           r0 == [r EXCEPT !.in_progress = FALSE, !.bg_processing = FALSE,
                           !.completed = @ \/ r.conn # {}]
           s0 == SetRequest(s, i, r0)
           s1 == IF r.conn = {} /\ r.requires_ping
                 THEN EnsureMinConnections(s0) ELSE s0
           gone == Reject([s1 EXCEPT !.requests = RemoveAt(@, i)], r)
<1>1. CASE ~HasRequest(s, t)
  BY <1>1, SignalsRehome DEF PostProcessRequest
<1>2. CASE HasRequest(s, t)
  <2>1. i \in DOMAIN s.requests /\ r \in Request
    BY <1>2, PositionIn, RequestIn
  <2>2. r = s.requests[i]
    OBVIOUS
  <2> HIDE DEF i, r
  <2>3. r0 \in Request /\ r0.conn = r.conn
    BY <2>1 DEF Request
  <2> HIDE DEF r0
  <2>4. /\ PoolType(s0) /\ i \in DOMAIN s0.requests /\ s0.requests[i] = r0
        /\ Rehomes(s, s0, {})
    BY <2>1, <2>2, <2>3, SetRequestType, KeepRequest
  <2> HIDE DEF s0
  <2> DEFINE e == EnsureMinConnections(s0)
  <2>5. PoolType(e) /\ Rehomes(s, e, {}) /\ e.requests = s0.requests
    <3>1. PoolType(e) /\ Rehomes(s0, e, {})
      BY <2>4, EnsureMinConnectionsType, EnsureMinRehomes DEF Rehomes
    <3>2. e.requests = s0.requests
      BY <2>4 DEF EnsureMinConnections, NotifyBg, ScheduleOpenEffects, PoolType, PoolStates
    <3> HIDE DEF e
    <3>3. QED
      BY <2>4, <3>1, <3>2, RehomesTwice
  <2>6. PoolType(s1) /\ i \in DOMAIN s1.requests /\ Rehomes(s, s1, {})
        /\ s1.requests[i].conn = r.conn
    BY <2>3, <2>4, <2>5
  <2> HIDE DEF s1
  <2>7. PoolType(gone) /\ Rehomes(s, gone, {})
    <3>1. PoolType(gone)
      BY <2>1, <2>6, WithoutRequestType, RejectType
    <3>2. Rehomes(s1, gone, {})
      BY <2>1, <2>6, RemoveAndReject DEF Rehomes
    <3> HIDE DEF gone
    <3>3. QED
      BY <2>6, <3>1, <3>2, RehomesTwice
  <2>8. PostProcessRequest(s, t) = WakeWaiters(IF r.waiting THEN s1 ELSE gone)
    BY <1>2 DEF PostProcessRequest, i, r, r0, s0, s1
  <2> HIDE DEF gone
  <2>9. ASSUME NEW v, PoolType(v), Rehomes(s, v, {})
        PROVE  Rehomes(s, WakeWaiters(v), {})
    <3>1. PoolType(WakeWaiters(v)) /\ Rehomes(v, WakeWaiters(v), {})
      BY <2>9, WakeWaitersType, SignalsRehome DEF Rehomes
    <3>2. QED
      BY <2>9, <3>1, RehomesTwice
  <2>10. QED
    BY <2>6, <2>7, <2>8, <2>9
<1>3. QED
  BY <1>1, <1>2

\* Handing a connection from outside the lists to a request.
LEMMA HandOverRehomes ==
    ASSUME NEW s, PoolType(s), Tidy(s), NEW i \in DOMAIN s.requests,
           NEW c \in PooledConn, Lacks(s, c.id)
    PROVE  Rehomes(s, HandOver(s, i, c), {c.id})
<1> DEFINE r == [s.requests[i] EXCEPT !.conn = {c}, !.completed = TRUE,
                                      !.bg_processing = FALSE]
           s1 == SetRequest(s, i, r)
<1>1. {c} \in Option(PooledConn)
  BY OptionSome
<1>2. r \in Request /\ r.conn = {c}
  BY <1>1, RequestIn DEF Request
<1> HIDE DEF r
<1>3. Ids(r.conn) = {c.id} /\ \A x \in r.conn : Lacks(s, x.id)
  BY <1>2 DEF Ids
<1>4. PoolType(s1) /\ Rehomes(s, s1, {c.id})
  <2>1. PoolType(s1) /\ Rehomes(s, s1, Ids(r.conn))
    BY <1>2, <1>3, SetRequestType, PutRequest
  <2>2. QED
    BY <1>3, <2>1
<1> HIDE DEF s1
<1>5. PoolType(WakeWaiters(s1)) /\ Rehomes(s1, WakeWaiters(s1), {})
  BY <1>4, WakeWaitersType, SignalsRehome DEF Rehomes
<1>6. Rehomes(s, WakeWaiters(s1), {c.id})
  BY <1>4, <1>5, RehomesTwice
<1>7. QED
  BY <1>6 DEF HandOver, r, s1

\* A refused open marks a request.
LEMMA PostCreateFailedRehomes ==
    ASSUME NEW s, PoolType(s), Tidy(s), NEW id
    PROVE  Rehomes(s, PostCreateFailed(s, id), {})
<1> DEFINE s0 == CompleteOpenEffect(s, id)
           told == {i \in DOMAIN s0.requests :
                      LET r == s0.requests[i]
                      IN /\ r.bg_processing /\ r.waiting /\ ~r.requires_ping
                         /\ ~r.is_extra /\ ~r.is_replacing
                         /\ CclassMatches(r) /\ r.conn = {}}
           r0 == [s0.requests[Min(told)] EXCEPT !.bg_processing = FALSE,
                                                !.error = TRUE]
           s1 == SetRequest(s0, Min(told), r0)
<1>1. PoolType(s0) /\ Rehomes(s, s0, {})
  BY CompleteOpenEffectType, SignalsRehome
<1> HIDE DEF s0
<1>2. told \in SUBSET DOMAIN s0.requests
  OBVIOUS
<1> HIDE DEF told
<1>3. CASE told # {}
  <2>1. Min(told) \in DOMAIN s0.requests
    BY <1>1, <1>2, <1>3, FirstIn
  <2>2. r0 \in Request /\ r0.conn = s0.requests[Min(told)].conn
    BY <1>1, <2>1, RequestIn DEF Request
  <2> HIDE DEF r0
  <2>3. PoolType(s1) /\ Rehomes(s0, s1, {})
    BY <1>1, <2>1, <2>2, SetRequestType, KeepRequest DEF Rehomes
  <2> HIDE DEF s1
  <2>4. PoolType(WakeWaiters(s1)) /\ Rehomes(s1, WakeWaiters(s1), {})
    BY <2>3, WakeWaitersType, SignalsRehome DEF Rehomes
  <2>5. Rehomes(s, s1, {})
    BY <1>1, <2>3, RehomesTwice
  <2>6. Rehomes(s, WakeWaiters(s1), {})
    BY <2>3, <2>4, <2>5, RehomesTwice
  <2>7. QED
    BY <1>1, <2>6 DEF PostCreateFailed, s0, told, r0, s1
<1>4. CASE told = {}
  BY <1>1, <1>4 DEF PostCreateFailed, s0, told
<1>5. QED
  BY <1>3, <1>4

\* post_create_conn gives the new connection its first place.
LEMMA PostCreateConnRehomes ==
    ASSUME NEW s, PoolType(s), Tidy(s), NEW c \in PooledConn, Lacks(s, c.id)
    PROVE  Rehomes(s, PostCreateConn(s, c), {c.id})
<1> DEFINE s0 == CompleteOpenEffect(s, c.id)
           full == ActiveOpenCount(s0) + 1 >= PoolMax
           takers == {i \in DOMAIN s0.requests :
                        /\ AwaitsConn(s0.requests[i])
                        /\ \/ Accepts(s0.requests[i], c)
                           \/ ~CclassMatches(s0.requests[i]) /\ full}
           d == [s0 EXCEPT !.to_drop = s0.to_drop \cup {c}]
           n == [s0 EXCEPT !.free_new = Append(s0.free_new, c)]
           r0 == [s0.requests[Min(takers)] EXCEPT !.conn = {c},
                                                  !.is_replacing = TRUE]
           rep == SetRequest(s0, Min(takers), r0)
           over == HandOver(s0, Min(takers), c)
           Good(v) == Rehomes(s, v, {c.id})
<1>1. PoolType(s0) /\ Rehomes(s, s0, {})
  BY CompleteOpenEffectType, SignalsRehome
<1> HIDE DEF s0
<1>2. takers \in SUBSET DOMAIN s0.requests
  OBVIOUS
<1> HIDE DEF takers
<1>3. Tidy(s0) /\ Lacks(s0, c.id)
  <2>1. c.id \in ConnIds
    BY DEF PooledConn
  <2>2. QED
    BY <1>1, <2>1, LacksKept DEF Rehomes
<1>4. ASSUME NEW v, PoolType(v), Rehomes(s0, v, {c.id}) PROVE Good(v)
  BY <1>1, <1>4, RehomesTwice
<1>5. Good(NotifyBg(d))
  <2>1. PoolType(d) /\ Rehomes(s0, d, {c.id})
    BY <1>1, <1>3, Fields, ToDropType, PutDrop
  <2> HIDE DEF d
  <2>2. PoolType(NotifyBg(d)) /\ Rehomes(d, NotifyBg(d), {})
    BY <2>1, NotifyBgType, SignalsRehome DEF Rehomes
  <2>3. Rehomes(s0, NotifyBg(d), {c.id})
    BY <1>1, <2>1, <2>2, RehomesTwice
  <2>4. QED
    BY <1>4, <2>2, <2>3
<1>6. Good(WakeWaiters(n))
  <2>1. PoolType(n) /\ Rehomes(s0, n, {c.id})
    BY <1>1, <1>3, Fields, AppendProperties, FreeListsType, PutNew
  <2> HIDE DEF n
  <2>2. PoolType(WakeWaiters(n)) /\ Rehomes(n, WakeWaiters(n), {})
    BY <2>1, WakeWaitersType, SignalsRehome DEF Rehomes
  <2>3. Rehomes(s0, WakeWaiters(n), {c.id})
    BY <1>1, <2>1, <2>2, RehomesTwice
  <2>4. QED
    BY <1>4, <2>2, <2>3
<1>7. takers # {} => Good(over) /\ Good(rep)
  <2>1. SUFFICES ASSUME takers # {} PROVE Good(over) /\ Good(rep)
    OBVIOUS
  <2>2. Min(takers) \in DOMAIN s0.requests
    BY <1>1, <1>2, <2>1, FirstIn
  <2>3. Good(over)
    <3>1. PoolType(over) /\ Rehomes(s0, over, {c.id})
      BY <1>1, <1>3, <2>2, HandOverType, HandOverRehomes
    <3>2. QED
      BY <1>4, <3>1
  <2>4. Good(rep)
    <3>1. {c} \in Option(PooledConn)
      BY OptionSome
    <3>2. r0 \in Request /\ r0.conn = {c}
      BY <1>1, <2>2, <3>1, RequestIn DEF Request
    <3> HIDE DEF r0
    <3>3. Ids(r0.conn) = {c.id} /\ \A x \in r0.conn : Lacks(s0, x.id)
      BY <1>3, <3>2 DEF Ids
    <3>4. PoolType(rep) /\ Rehomes(s0, rep, Ids(r0.conn))
      BY <1>1, <1>3, <2>2, <3>2, <3>3, SetRequestType, PutRequest
    <3>5. QED
      BY <1>4, <3>3, <3>4
  <2>5. QED
    BY <2>3, <2>4
<1> HIDE DEF d, n, r0, rep, over, Good
<1>8. PostCreateConn(s, c) =
        CASE ~s0.open -> NotifyBg(d)
          [] s0.open /\ takers = {} -> WakeWaiters(n)
          [] s0.open /\ takers # {} /\ Accepts(s0.requests[Min(takers)], c) -> over
          [] OTHER -> rep
  BY DEF PostCreateConn, s0, takers, d, n, r0, rep, over
<1>9. Good(PostCreateConn(s, c))
  <2>1. CASE takers = {}
    BY <1>5, <1>6, <1>8, <2>1
  <2>2. CASE takers # {}
    BY <1>5, <1>7, <1>8, <2>2
  <2>3. QED
    BY <2>1, <2>2
<1>10. QED
  BY <1>9 DEF Good

\* return_connection_helper gives a returned connection a place.
LEMMA ReturnRehomes ==
    ASSUME NEW s, PoolType(s), Tidy(s), NEW c \in PooledConn, Lacks(s, c.id),
           NEW fit \in BOOLEAN
    PROVE  Rehomes(s, ReturnConnectionHelper(s, c, fit), {c.id})
<1> DEFINE takers == Takers(s, c)
           n == NotExtra(c)
           free == [s EXCEPT !.free_used = Append(s.free_used, n)]
<1>1. n \in PooledConn /\ n.id = c.id /\ Lacks(s, n.id)
  BY NotExtraId
<1>2. takers \in SUBSET DOMAIN s.requests
  BY DEF Takers
<1> HIDE DEF takers, n
<1>3. Rehomes(s, DropConn(s, n), {c.id})
  BY <1>1, DropConnRehomes
<1>4. Rehomes(s, free, {c.id})
  BY <1>1, PutUsed
<1>5. takers # {} => Rehomes(s, HandOver(s, Min(takers), n), {c.id})
  BY <1>1, <1>2, FirstIn, HandOverRehomes
<1> HIDE DEF free
<1>6. PICK surplus \in BOOLEAN : ReturnConnectionHelper(s, c, fit) =
        CASE ~fit \/ surplus -> DropConn(s, n)
          [] fit /\ ~surplus /\ takers # {} -> HandOver(s, Min(takers), n)
          [] OTHER -> free
  BY DEF ReturnConnectionHelper, takers, free, n
<1>7. QED
  BY <1>3, <1>4, <1>5, <1>6

\* A connection is taken out of busy.
LEMMA TakeBusyMoves ==
    ASSUME NEW s, PoolType(s), Tidy(s), NEW c \in s.busy
    PROVE  LET s2 == TakeBusy(s, c)
           IN /\ Tidy(s2) /\ Within(s, s2, {}) /\ s2.open = s.open
              /\ Ids(s2.busy) = Ids(s.busy) \ {c.id}
              /\ c.id \in Placed(s) /\ Lacks(s2, c.id)
<1> DEFINE b == s.busy \ {c}
           s2 == TakeBusy(s, c)
<1>1. UniqueIds(s.busy)
  BY DEF Tidy
<1>2. Ids(b) = Ids(s.busy) \ {c.id} /\ UniqueIds(b) /\ c.id \in Ids(s.busy)
  BY <1>1 DEF UniqueIds, Ids
<1> HIDE DEF b
<1>3. /\ s2.free_new = s.free_new /\ s2.free_used = s.free_used
      /\ s2.busy = b /\ s2.to_drop = s.to_drop
      /\ s2.requests = s.requests /\ s2.open_effects = s.open_effects
      /\ s2.next_conn_id = s.next_conn_id /\ s2.open = s.open
  BY DEF TakeBusy, b, PoolType, PoolStates
<1> HIDE DEF s2
<1>4. Placed(s2) \subseteq Placed(s) /\ Planned(s2) = Planned(s)
  BY <1>2, <1>3 DEF Placed, Planned
<1>5. Tidy(s2)
  BY <1>2, <1>3, <1>4 DEF Tidy, Apart
<1>6. c.id \in Placed(s) /\ Lacks(s2, c.id)
  BY <1>2, <1>3, <1>4 DEF Tidy, Apart, Lacks, Placed
<1>7. Within(s, s2, {})
  BY <1>3, <1>4, IdNumbers DEF Within, ConnIds
<1>8. QED
  BY <1>2, <1>3, <1>5, <1>6, <1>7 DEF s2

\* What happens to a connection that leaves busy: it is filed elsewhere.
LEMMA LeavesBusy ==
    ASSUME NEW s, PoolType(s), Tidy(s), NEW c \in s.busy, NEW s2, PoolType(s2),
           Rehomes(TakeBusy(s, c), s2, {c.id})
    PROVE  /\ Tidy(s2) /\ Within(s, s2, {}) /\ s2.open = s.open
           /\ Ids(s2.busy) = Ids(s.busy) \ {c.id}
<1> DEFINE w == TakeBusy(s, c)
<1>1. /\ Within(s, w, {}) /\ w.open = s.open
      /\ Ids(w.busy) = Ids(s.busy) \ {c.id} /\ c.id \in Placed(s)
  BY TakeBusyMoves
<1>2. PoolType(w)
  BY TakeBusyType
<1> HIDE DEF w
<1>3. Rehomes(w, s2, {c.id})
  BY DEF w
<1>4. /\ s.next_conn_id \in Nat /\ w.next_conn_id \in Nat
      /\ s2.next_conn_id \in Nat /\ Planned(s2) \subseteq Nat
  BY <1>2, IdNumbers DEF ConnIds
<1>5. Within(s, s2, {})
  BY <1>1, <1>3, <1>4 DEF Rehomes, Within
<1>6. QED
  BY <1>1, <1>3, <1>5 DEF Rehomes

\* drain_drop_returns takes the id of a dropped guard out of busy.
LEMMA DrainedMoves ==
    ASSUME NEW s, PoolType(s), Tidy(s), NEW id \in Ids(s.busy), s.open,
           NEW fit \in BOOLEAN
    PROVE  LET s2 == Drained(s, id, fit)
           IN /\ Tidy(s2) /\ Within(s, s2, {}) /\ s2.open = s.open
              /\ Ids(s2.busy) = Ids(s.busy) \ {id}
<1> DEFINE found == {c \in s.busy : c.id = id}
           conn == CHOOSE c \in found : TRUE
<1>1. found # {}
  BY DEF Ids
<1>2. conn \in found
  BY <1>1
<1>3. conn \in s.busy /\ conn.id = id /\ conn \in PooledConn
  BY <1>2, Fields
<1>4. Drained(s, id, fit) = ReturnConnectionHelper(TakeBusy(s, conn), conn, fit)
  BY <1>1 DEF Drained
<1> HIDE DEF found, conn
<1>5. /\ PoolType(TakeBusy(s, conn)) /\ Tidy(TakeBusy(s, conn))
      /\ Lacks(TakeBusy(s, conn), conn.id)
  BY <1>3, TakeBusyType, TakeBusyMoves
<1> DEFINE w == TakeBusy(s, conn)
           s2 == ReturnConnectionHelper(w, conn, fit)
<1> HIDE DEF w
<1>6. PoolType(s2) /\ Rehomes(w, s2, {conn.id})
  BY <1>3, <1>5, ReturnConnectionHelperType, ReturnRehomes DEF w
<1> HIDE DEF s2
<1>7. /\ Tidy(s2) /\ Within(s, s2, {}) /\ s2.open = s.open
      /\ Ids(s2.busy) = Ids(s.busy) \ {conn.id}
  BY <1>3, <1>6, LeavesBusy DEF w
<1>8. QED
  BY <1>3, <1>4, <1>7 DEF s2, w

\* The ids of a union are the union of the ids.
LEMMA UnionIds ==
    ASSUME NEW S, NEW T
    PROVE  Ids(S \cup T) = Ids(S) \cup Ids(T)
BY DEF Ids

\* The ids the pool owns are those that have a place.
LEMMA OwnedIds ==
    ASSUME NEW s
    PROVE  Ids(OwnedConns(s)) = Placed(s)
<1> DEFINE R == UNION {s.requests[i].conn : i \in DOMAIN s.requests}
<1>1. Ids(ToSet(s.free_new)) = SeqIds(s.free_new)
  BY DEF Ids, ToSet, SeqIds
<1>2. Ids(ToSet(s.free_used)) = SeqIds(s.free_used)
  BY DEF Ids, ToSet, SeqIds
<1>3. Ids(R) = ReqIds(s.requests)
  BY DEF Ids, ReqIds
<1>5. OwnedConns(s) = ToSet(s.free_new) \cup ToSet(s.free_used) \cup s.busy
                        \cup s.to_drop \cup R
  BY DEF OwnedConns
<1> HIDE DEF R
<1>6. Ids(OwnedConns(s)) = Ids(ToSet(s.free_new)) \cup Ids(ToSet(s.free_used))
                             \cup Ids(s.busy) \cup Ids(s.to_drop) \cup Ids(R)
  <2> DEFINE A == ToSet(s.free_new)
             B == ToSet(s.free_used)
  <2> HIDE DEF A, B
  <2>1. Ids(A \cup B) = Ids(A) \cup Ids(B)
    BY UnionIds
  <2>2. Ids(A \cup B \cup s.busy) = Ids(A \cup B) \cup Ids(s.busy)
    BY UnionIds
  <2>3. Ids(A \cup B \cup s.busy \cup s.to_drop)
          = Ids(A \cup B \cup s.busy) \cup Ids(s.to_drop)
    BY UnionIds
  <2>4. Ids(A \cup B \cup s.busy \cup s.to_drop \cup R)
          = Ids(A \cup B \cup s.busy \cup s.to_drop) \cup Ids(R)
    BY UnionIds
  <2>5. Ids(OwnedConns(s)) = Ids(A \cup B \cup s.busy \cup s.to_drop \cup R)
    BY <1>5 DEF A, B
  <2>6. QED
    BY <2>1, <2>2, <2>3, <2>4, <2>5 DEF A, B
<1>7. QED
  BY <1>1, <1>2, <1>3, <1>6 DEF Placed

\* No two connections the pool owns have the same id.
LEMMA OwnedUnique ==
    ASSUME NEW s, PoolType(s), Tidy(s)
    PROVE  UniqueIds(OwnedConns(s))
<1> DEFINE N == ToSet(s.free_new)
           U == ToSet(s.free_used)
           R == UNION {s.requests[i].conn : i \in DOMAIN s.requests}
<1>1. UniqueIds(N) /\ UniqueIds(U)
  BY DEF Tidy, NoTwins, UniqueIds, ToSet
<1>2. UniqueIds(R)
  <2>1. SUFFICES ASSUME NEW c \in R, NEW d \in R, c.id = d.id PROVE c = d
    BY DEF UniqueIds
  <2>2. PICK i \in DOMAIN s.requests : c \in s.requests[i].conn
    OBVIOUS
  <2>3. PICK j \in DOMAIN s.requests : d \in s.requests[j].conn
    OBVIOUS
  <2>4. i = j
    BY <2>1, <2>2, <2>3 DEF Tidy, NoReqTwins
  <2>5. \A x, y \in s.requests[i].conn : x = y
    BY RequestIn, RequestFields DEF Option
  <2>6. QED
    BY <2>2, <2>3, <2>4, <2>5
<1>3. /\ Ids(N) = SeqIds(s.free_new) /\ Ids(U) = SeqIds(s.free_used)
      /\ Ids(R) = ReqIds(s.requests)
  BY DEF Ids, ToSet, SeqIds, ReqIds
<1>4. UniqueIds(s.busy) /\ UniqueIds(s.to_drop)
  BY DEF Tidy
<1>5. OwnedConns(s) = N \cup U \cup s.busy \cup s.to_drop \cup R
  BY DEF OwnedConns
<1> HIDE DEF N, U, R
<1>6. ASSUME NEW S, NEW T, UniqueIds(S), UniqueIds(T), Ids(S) \cap Ids(T) = {}
      PROVE  UniqueIds(S \cup T)
  BY <1>6 DEF UniqueIds, Ids
<1>7. /\ Ids(N \cup U) = Ids(N) \cup Ids(U)
      /\ Ids(N \cup U \cup s.busy) = Ids(N) \cup Ids(U) \cup Ids(s.busy)
      /\ Ids(N \cup U \cup s.busy \cup s.to_drop)
           = Ids(N) \cup Ids(U) \cup Ids(s.busy) \cup Ids(s.to_drop)
  <2>1. Ids(N \cup U) = Ids(N) \cup Ids(U)
    BY UnionIds
  <2>2. Ids(N \cup U \cup s.busy) = Ids(N \cup U) \cup Ids(s.busy)
    BY UnionIds
  <2>3. Ids(N \cup U \cup s.busy \cup s.to_drop)
          = Ids(N \cup U \cup s.busy) \cup Ids(s.to_drop)
    BY UnionIds
  <2>4. QED
    BY <2>1, <2>2, <2>3
<1>8. Apart(Ids(N), Ids(U), Ids(s.busy), Ids(s.to_drop), Ids(R), Planned(s))
  BY <1>3 DEF Tidy
<1>9. UniqueIds(N \cup U)
  BY <1>1, <1>6, <1>8 DEF Apart
<1>10. UniqueIds(N \cup U \cup s.busy)
  <2>1. Ids(N \cup U) \cap Ids(s.busy) = {}
    BY <1>7, <1>8 DEF Apart
  <2>2. QED
    BY <1>4, <1>6, <1>9, <2>1
<1>11. UniqueIds(N \cup U \cup s.busy \cup s.to_drop)
  <2>1. Ids(N \cup U \cup s.busy) \cap Ids(s.to_drop) = {}
    BY <1>7, <1>8 DEF Apart
  <2>2. QED
    BY <1>4, <1>6, <1>10, <2>1
<1>12. UniqueIds(N \cup U \cup s.busy \cup s.to_drop \cup R)
  <2>1. Ids(N \cup U \cup s.busy \cup s.to_drop) \cap Ids(R) = {}
    BY <1>7, <1>8 DEF Apart
  <2>2. QED
    BY <1>2, <1>6, <1>11, <2>1
<1>13. QED
  BY <1>5, <1>12

\* Requests without connections hold no id.
LEMMA NoConnsNoIds ==
    ASSUME NEW q, \A i \in DOMAIN q : q[i].conn = {}
    PROVE  ReqIds(q) = {} /\ NoReqTwins(q)
BY DEF ReqIds, NoReqTwins

\* An empty list holds no id.
LEMMA EmptyIds ==
    /\ SeqIds(<<>>) = {} /\ NoTwins(<<>>) /\ ToSet(<<>>) = {} /\ OneToOne(<<>>)
    /\ Ids({}) = {} /\ UniqueIds({}) /\ ReqIds(<<>>) = {} /\ NoReqTwins(<<>>)
BY DEF SeqIds, NoTwins, ToSet, OneToOne, Ids, UniqueIds, ReqIds, NoReqTwins

\* The shutdown section of close moves everything to the close queue.
LEMMA ShutDownMoves ==
    ASSUME NEW s, PoolType(s), Tidy(s)
    PROVE  Tidy(ShutDown(s)) /\ Within(s, ShutDown(s), {}) /\ ~ShutDown(s).open
<1> DEFINE kept == InProgress(s.requests)
           left == [i \in DOMAIN kept |-> [kept[i] EXCEPT !.waiting = FALSE,
                                                          !.conn = {}]]
           s2 == ShutDown(s)
<1>1. kept \in Seq(Request)
  BY Fields, InProgressType
<1>2. /\ s2.free_new = <<>> /\ s2.free_used = <<>> /\ s2.busy = {}
      /\ s2.to_drop = OwnedConns(s) /\ s2.requests = left
      /\ s2.open_effects = <<>>
      /\ s2.next_conn_id = s.next_conn_id /\ s2.open = FALSE
  BY DEF ShutDown, NotifyBg, WakeWaiters, PoolType, PoolStates
<1> HIDE DEF kept, s2
<1>3. \A i \in DOMAIN left : left[i].conn = {}
  <2>1. \A r \in Request : [r EXCEPT !.waiting = FALSE, !.conn = {}].conn = {}
    BY DEF Request
  <2>2. \A i \in DOMAIN kept : kept[i] \in Request
    BY <1>1
  <2>3. QED
    BY <2>1, <2>2
<1> HIDE DEF left
<1>4. ReqIds(left) = {} /\ NoReqTwins(left)
  BY <1>3, NoConnsNoIds
<1>5. Placed(s2) = Placed(s) /\ Planned(s2) = {}
  BY <1>2, <1>4, EmptyIds, OwnedIds DEF Placed, Planned
<1>6. Tidy(s2)
  <2>1. UniqueIds(s2.to_drop)
    BY <1>2, OwnedUnique
  <2>2. Apart(SeqIds(s2.free_new), SeqIds(s2.free_used), Ids(s2.busy),
              Ids(s2.to_drop), ReqIds(s2.requests), Planned(s2))
    BY <1>2, <1>4, <1>5, EmptyIds DEF Apart
  <2>3. \A x \in Placed(s2) \cup Planned(s2) : x < s2.next_conn_id
    BY <1>2, <1>5 DEF Tidy
  <2>4. QED
    BY <1>2, <1>4, <2>1, <2>2, <2>3, EmptyIds DEF Tidy
<1>7. Within(s, s2, {})
  BY <1>2, <1>5, IdNumbers DEF Within, ConnIds
<1>8. QED
  BY <1>2, <1>6, <1>7 DEF s2

\* close_all_connections leaves nothing in any list.
LEMMA CloseAllMoves ==
    ASSUME NEW s, PoolType(s), Tidy(s)
    PROVE  /\ Tidy(CloseAll(s)) /\ Within(s, CloseAll(s), {})
           /\ ~CloseAll(s).open /\ Placed(CloseAll(s)) = {}
<1> DEFINE left == [i \in DOMAIN s.requests |->
                      [s.requests[i] EXCEPT !.conn = {}]]
           s2 == CloseAll(s)
<1>1. /\ s2.free_new = <<>> /\ s2.free_used = <<>> /\ s2.busy = {}
      /\ s2.to_drop = {} /\ s2.requests = left
      /\ s2.open_effects = s.open_effects
      /\ s2.next_conn_id = s.next_conn_id /\ s2.open = FALSE
  BY DEF CloseAll, PoolType, PoolStates
<1> HIDE DEF s2
<1>2. \A i \in DOMAIN left : left[i].conn = {}
  BY RequestIn DEF Request
<1> HIDE DEF left
<1>3. ReqIds(left) = {} /\ NoReqTwins(left)
  BY <1>2, NoConnsNoIds
<1>4. Placed(s2) = {} /\ Planned(s2) = Planned(s)
  BY <1>1, <1>3, EmptyIds DEF Placed, Planned
<1>5. Tidy(s2)
  BY <1>1, <1>3, <1>4, EmptyIds DEF Tidy, Apart
<1>6. Within(s, s2, {})
  BY <1>1, <1>4, IdNumbers DEF Within, ConnIds
<1>7. QED
  BY <1>1, <1>4, <1>5, <1>6 DEF s2

\* Retiring the replaced connection puts it into the close queue.
LEMMA RetiredRehomes ==
    ASSUME NEW s, PoolType(s), Tidy(s), NEW conns \in Option(PooledConn),
           \A x \in Ids(conns) : Lacks(s, x)
    PROVE  Rehomes(s, Retired(s, conns), Ids(conns))
<1>1. CASE conns = {}
  <2>1. Ids(conns) = {}
    BY <1>1 DEF Ids
  <2>2. QED
    BY <1>1, <2>1, SignalsRehome DEF Retired
<1>2. CASE conns # {}
  <2> DEFINE c == CHOOSE c \in conns : TRUE
  <2>1. c \in conns /\ c \in PooledConn /\ conns = {c}
    BY <1>2, OptionIsFinite
  <2> HIDE DEF c
  <2>2. Ids(conns) = {c.id}
    BY <2>1 DEF Ids
  <2>3. Rehomes(s, DropConn(s, c), {c.id})
    BY <2>1, <2>2, DropConnRehomes
  <2>4. QED
    BY <1>2, <2>2, <2>3 DEF Retired, c
<1>3. QED
  BY <1>1, <1>2

-----------------------------------------------------------------------------
(* The steps of the contract, as the engine takes them. *)

\* no task enters or leaves a role that the contract sees
SameRoles ==
    /\ lease' = lease
    /\ \A t \in Tasks : /\ pc'[t] = "hold" <=> pc[t] = "hold"
                        /\ pc'[t] = "done" <=> pc[t] = "done"

ContractStep == [Contract!CNext]_(Contract!cvars)

\* Without a change of roles the guards are the same.
LEMMA RolesKept ==
    ASSUME SameRoles
    PROVE  /\ Holders' = Holders /\ Leases' = Leases
           /\ \A t \in Tasks : GuardOf(t)' = GuardOf(t)
           /\ {t \in Tasks : pc'[t] \in {"hold", "done"}}
                = {t \in Tasks : pc[t] \in {"hold", "done"}}
<1>1. Holders' = Holders
  BY DEF SameRoles, Holders
<1>2. lease' = lease
  BY DEF SameRoles
<1>3. Leases' = Leases
  BY <1>1, <1>2 DEF Leases
<1>4. \A t \in Tasks : GuardOf(t)' = GuardOf(t)
  BY DEF SameRoles, GuardOf
<1>5. {t \in Tasks : pc'[t] \in {"hold", "done"}}
        = {t \in Tasks : pc[t] \in {"hold", "done"}}
  BY DEF SameRoles
<1>6. QED
  BY <1>1, <1>3, <1>4, <1>5

\* The sessions the contract's callers own are those of the guards.
LEMMA OwnedAreLeases ==
    Contract!Owned = Leases
<1>1. \A t \in Tasks : [u \in Tasks |-> GuardOf(u)][t] = GuardOf(t)
  OBVIOUS
<1>2. \A t \in Tasks : GuardOf(t) = IF t \in Holders THEN {lease[t]} ELSE {}
  BY DEF GuardOf, Holders
<1>3. Contract!Owned = UNION {GuardOf(t) : t \in Tasks}
  BY <1>1 DEF Contract!Owned
<1>4. Holders \subseteq Tasks
  BY DEF Holders
<1>5. QED
  BY <1>2, <1>3, <1>4 DEF Leases

\* An engine step that changes neither sessions nor roles is a stutter.
LEMMA ContractStutter ==
    ASSUME SameRoles, alive' = alive, pool'.open = pool.open
    PROVE  ContractStep
<1>1. [t \in Tasks |-> GuardOf(t)'] = [t \in Tasks |-> GuardOf(t)]
  BY RolesKept
<1>2. UNCHANGED Contract!cvars
  BY <1>1, RolesKept DEF Contract!cvars
<1>3. QED
  BY <1>2 DEF ContractStep

\* A session that is created is one the contract may open.
LEMMA ContractOpens ==
    ASSUME SameRoles, NEW s \in 1..MaxConnId, s \notin alive \cup Leases,
           alive' = alive \cup {s}, pool'.open = pool.open
    PROVE  ContractStep
<1>1. [t \in Tasks |-> GuardOf(t)'] = [t \in Tasks |-> GuardOf(t)]
  BY RolesKept
<1>2. Contract!OpenSession(s)
  BY <1>1, RolesKept, OwnedAreLeases DEF Contract!OpenSession
<1>3. QED
  BY <1>2 DEF ContractStep, Contract!CNext

\* Sessions that are closed are ones the contract may close.
LEMMA ContractCloses ==
    ASSUME SameRoles, NEW S \in SUBSET alive, ~pool.open \/ S \cap Leases = {},
           alive' = alive \ S, pool'.open = pool.open
    PROVE  ContractStep
<1>1. [t \in Tasks |-> GuardOf(t)'] = [t \in Tasks |-> GuardOf(t)]
  BY RolesKept
<1>2. Contract!CloseSessions(S)
  BY <1>1, RolesKept, OwnedAreLeases DEF Contract!CloseSessions
<1>3. QED
  BY <1>2 DEF ContractStep, Contract!CNext

\* The pool closes, at once or with the sessions it still owns.
LEMMA ContractShuts ==
    ASSUME SameRoles, NEW S \in SUBSET alive, alive' = alive \ S,
           pool.open, ~pool'.open
    PROVE  ContractStep
<1>1. [t \in Tasks |-> GuardOf(t)'] = [t \in Tasks |-> GuardOf(t)]
  BY RolesKept
<1>2. Contract!Shut(S)
  BY <1>1, RolesKept DEF Contract!Shut
<1>3. QED
  BY <1>2 DEF ContractStep, Contract!CNext

\* A task that waits receives an open session without a holder.
LEMMA ContractLeases ==
    ASSUME TypeOK, NEW t \in Tasks, NEW s \in alive \ Leases, pc[t] = "wait",
           pc' = [pc EXCEPT ![t] = "hold"],
           lease' = [lease EXCEPT ![t] = s],
           alive' = alive, pool.open, pool'.open = pool.open
    PROVE  ContractStep
<1>1. pc \in [Tasks -> TaskPcs] /\ lease \in [Tasks -> Nat]
  BY DEF TypeOK
<1>2. [u \in Tasks |-> GuardOf(u)']
        = [[u \in Tasks |-> GuardOf(u)] EXCEPT ![t] = {s}]
  BY <1>1 DEF GuardOf
<1>3. {u \in Tasks : pc'[u] \in {"hold", "done"}}
        = {u \in Tasks : pc[u] \in {"hold", "done"}} \cup {t}
  BY <1>1
<1>4. Contract!Lease(t, s)
  BY <1>2, <1>3, OwnedAreLeases DEF Contract!Lease
<1>5. QED
  BY <1>4 DEF ContractStep, Contract!CNext

\* A guard that goes away gives its session back.
LEMMA ContractGivesBack ==
    ASSUME TypeOK, NEW t \in Tasks, pc[t] = "hold",
           pc' = [pc EXCEPT ![t] = "done"], lease' = lease, alive' = alive,
           pool'.open = pool.open
    PROVE  ContractStep
<1>1. pc \in [Tasks -> TaskPcs] /\ lease \in [Tasks -> Nat]
  BY DEF TypeOK
<1>2. [u \in Tasks |-> GuardOf(u)']
        = [[u \in Tasks |-> GuardOf(u)] EXCEPT ![t] = {}]
  BY <1>1 DEF GuardOf
<1>3. {u \in Tasks : pc'[u] \in {"hold", "done"}}
        = {u \in Tasks : pc[u] \in {"hold", "done"}}
  BY <1>1
<1>4. GuardOf(t) # {}
  BY DEF GuardOf
<1>5. Contract!GiveBack(t)
  BY <1>2, <1>3, <1>4 DEF Contract!GiveBack
<1>6. QED
  BY <1>5 DEF ContractStep, Contract!CNext

-----------------------------------------------------------------------------
(* What a step must do with connections to keep the invariant. *)

StepKept == OwnershipInv' /\ ContractStep

\* The parts of TypeOK that the proofs below need.
LEMMA EngineTypes ==
    ASSUME TypeOK
    PROVE  /\ PoolType(pool) /\ drops \in Seq(Nat)
           /\ pc \in [Tasks -> TaskPcs] /\ lease \in [Tasks -> Nat]
           /\ held \in Option(PooledConn) /\ fresh \in Option(PooledConn)
           /\ held \subseteq PooledConn /\ fresh \subseteq PooledConn
           /\ alive \subseteq ConnIds /\ Leases \subseteq Nat
           /\ pool.open \in BOOLEAN
<1>1. pool.open \in BOOLEAN
  BY DEF TypeOK, PoolType, PoolStates
<1>2. Leases \subseteq Nat
  BY DEF TypeOK, Leases, Holders
<1>3. QED
  BY <1>1, <1>2 DEF TypeOK, Option

\* The same for the state after a step.
LEMMA EngineTypesNext ==
    ASSUME TypeOK'
    PROVE  /\ PoolType(pool') /\ drops' \in Seq(Nat)
           /\ pc' \in [Tasks -> TaskPcs] /\ lease' \in [Tasks -> Nat]
           /\ held' \in Option(PooledConn) /\ fresh' \in Option(PooledConn)
           /\ held' \subseteq PooledConn /\ fresh' \subseteq PooledConn
           /\ alive' \subseteq ConnIds /\ Leases' \subseteq Nat
           /\ pool'.open \in BOOLEAN
<1>1. pool'.open \in BOOLEAN
  BY DEF TypeOK, PoolType, PoolStates
<1>2. Leases' \subseteq Nat
  BY DEF TypeOK, Leases, Holders
<1>3. PoolType(pool')
  BY DEF TypeOK, PoolType
<1>4. QED
  BY <1>1, <1>2, <1>3 DEF TypeOK, Option

\* Connections move between lists, or from the reaper's hands into a list.
LEMMA PlacesStep ==
    ASSUME TypeOK, TypeOK', ReaperApart, SessionsKnown,
           NEW X, Within(pool, pool', X),
           Ids(held') \subseteq Ids(held), Ids(fresh') \subseteq Ids(fresh),
           X \cap (Ids(held') \cup Ids(fresh')) = {},
           Placed(pool') \cup Ids(held') \subseteq alive',
           alive' \cup Leases'
             \subseteq alive \cup Leases \cup (Ids(fresh) \ Ids(fresh'))
    PROVE  ReaperApart' /\ SessionsKnown'
<1>1. /\ PoolType(pool) /\ PoolType(pool')
      /\ alive \subseteq Nat /\ Leases \subseteq Nat
      /\ Ids(held) \subseteq ConnIds /\ Ids(fresh) \subseteq ConnIds
  BY EngineTypes, EngineTypesNext, IdsType DEF ConnIds
<1>2. \A x \in Ids(held') \cup Ids(fresh') : Lacks(pool', x)
  BY <1>1, LacksKept DEF ReaperApart
<1>3. ReaperApart'
  BY <1>2 DEF ReaperApart, Lacks, Placed, Planned, SeqIds, ReqIds, Ids, ToSet
<1>4. /\ pool.next_conn_id \in Nat /\ pool'.next_conn_id \in Nat
      /\ Planned(pool') \subseteq Nat
  BY <1>1, IdNumbers DEF ConnIds
<1>5. ASSUME NEW x \in alive' \cup Leases'
      PROVE  x < pool'.next_conn_id /\ x \notin Planned(pool') \cup Ids(fresh')
  <2>1. CASE x \in alive \cup Leases
    <3>1. x \in Nat /\ x < pool.next_conn_id /\ x \notin Planned(pool) \cup Ids(fresh)
      BY <1>1, <2>1 DEF SessionsKnown
    <3>2. QED
      BY <1>4, <3>1 DEF Within
  <2>2. CASE x \in Ids(fresh) \ Ids(fresh')
    <3>1. x \in Nat /\ x < pool.next_conn_id /\ x \notin Planned(pool)
      BY <1>1, <2>2 DEF ReaperApart, Lacks, ConnIds
    <3>2. QED
      BY <1>4, <2>2, <3>1 DEF Within
  <2>3. QED
    BY <1>5, <2>1, <2>2
<1>6. SessionsKnown'
  BY <1>5 DEF SessionsKnown, Placed, Planned, SeqIds, ReqIds, Ids, ToSet
<1>7. QED
  BY <1>3, <1>6

\* The invariant of the state after a step, from its parts.
LEMMA InvNext ==
    ASSUME Tidy(pool'), Allocates(pool'), ReaperApart', SessionsKnown',
           GuardsApart', BusyIsLent'
    PROVE  OwnershipInv'
BY DEF OwnershipInv, Tidy, Allocates, Placed, Planned

\* Where no guard comes or goes, busy still is what is lent.
LEMMA GuardsKept ==
    ASSUME GuardsApart, BusyIsLent, SameRoles, drops' = drops,
           pool'.open => pool.open,
           pool'.open => Ids(pool'.busy) = Ids(pool.busy)
    PROVE  GuardsApart' /\ BusyIsLent'
<1>1. Holders' = Holders /\ Leases' = Leases
  BY RolesKept
<1>2. lease' = lease
  BY DEF SameRoles
<1>3. GuardsApart'
  BY <1>1, <1>2 DEF GuardsApart
<1>4. BusyIsLent'
  BY <1>1 DEF BusyIsLent, Ids
<1>5. QED
  BY <1>3, <1>4

\* A step that only rearranges the pool's lists.
LEMMA QuietStep ==
    ASSUME TypeOK, TypeOK', OwnershipInv, Allocates(pool'),
           Rehomes(pool, pool', {}), SameRoles,
           UNCHANGED <<held, fresh, drops, alive>>
    PROVE  StepKept
<1>1. /\ Tidy(pool') /\ Within(pool, pool', {})
      /\ pool'.busy = pool.busy /\ pool'.open = pool.open
  BY DEF Rehomes
<1>2. /\ ReaperApart /\ SessionsKnown /\ GuardsApart /\ BusyIsLent
  BY DEF OwnershipInv
<1>3. Placed(pool') \cup Ids(held') \subseteq alive'
  BY <1>1, <1>2 DEF Within, SessionsKnown
<1>4. Leases' = Leases
  BY RolesKept
<1>5. ReaperApart' /\ SessionsKnown'
  BY <1>1, <1>2, <1>3, <1>4, PlacesStep
<1>6. GuardsApart' /\ BusyIsLent'
  BY <1>1, <1>2, GuardsKept
<1>7. OwnershipInv'
  BY <1>1, <1>5, <1>6, InvNext
<1>8. ContractStep
  BY <1>1, ContractStutter
<1>9. QED
  BY <1>7, <1>8 DEF StepKept

\* A task that waited now holds the connection s.
LEMMA LendStep ==
    ASSUME TypeOK, TypeOK', OwnershipInv, Allocates(pool'), Tidy(pool'),
           Within(pool, pool', {}), pool.open, pool'.open = pool.open,
           NEW t \in Tasks, NEW s \in Placed(pool), s \notin Ids(pool.busy),
           Ids(pool'.busy) = Ids(pool.busy) \cup {s},
           pc[t] = "wait", pc' = [pc EXCEPT ![t] = "hold"],
           lease' = [lease EXCEPT ![t] = s],
           UNCHANGED <<held, fresh, drops, alive>>
    PROVE  StepKept
<1>1. ReaperApart /\ SessionsKnown /\ GuardsApart /\ BusyIsLent
  BY DEF OwnershipInv
<1>2. pc \in [Tasks -> TaskPcs] /\ lease \in [Tasks -> Nat]
  BY EngineTypes
<1>3. /\ Holders' = Holders \cup {t} /\ t \notin Holders
      /\ \A u \in Holders : u # t /\ lease'[u] = lease[u]
      /\ lease'[t] = s
  BY <1>2 DEF Holders
<1>4. Leases' = Leases \cup {s}
  BY <1>3 DEF Leases
<1>5. s \in alive
  BY <1>1 DEF SessionsKnown
<1>6. s \notin Leases /\ s \notin ToSet(drops)
  BY <1>1 DEF BusyIsLent
<1>7. ReaperApart' /\ SessionsKnown'
  <2>1. Placed(pool') \cup Ids(held') \subseteq alive'
    BY <1>1 DEF Within, SessionsKnown
  <2>2. alive' \cup Leases' \subseteq alive \cup Leases
    BY <1>4, <1>5
  <2>3. QED
    BY <1>1, <2>1, <2>2, PlacesStep
<1>8. GuardsApart'
  <2>1. \A u \in Holders : lease[u] # s
    BY <1>6 DEF Leases
  <2>2. QED
    BY <1>1, <1>3, <2>1 DEF GuardsApart
<1>9. BusyIsLent'
  <2>1. Ids(pool'.busy) = Leases' \cup ToSet(drops)
    BY <1>1, <1>4 DEF BusyIsLent
  <2>2. Leases' \cap ToSet(drops) = {} /\ OneToOne(drops)
    BY <1>1, <1>4, <1>6 DEF BusyIsLent
  <2>3. QED
    BY <2>1, <2>2 DEF BusyIsLent, Ids
<1>10. ContractStep
  BY <1>5, <1>6, ContractLeases
<1>11. QED
  BY <1>7, <1>8, <1>9, <1>10, InvNext DEF StepKept

\* Appending a new id to the channel of dropped guards.
LEMMA AppendDrop ==
    ASSUME NEW q \in Seq(Nat), NEW x \in Nat
    PROVE  /\ ToSet(Append(q, x)) = ToSet(q) \cup {x}
           /\ OneToOne(q) /\ x \notin ToSet(q) => OneToOne(Append(q, x))
<1>1. /\ DOMAIN Append(q, x) = 1..(Len(q) + 1) /\ DOMAIN q = 1..Len(q)
      /\ Len(q) \in Nat /\ Append(q, x)[Len(q) + 1] = x
      /\ \A i \in 1..Len(q) : Append(q, x)[i] = q[i]
  BY AppendProperties
<1> DEFINE p == Append(q, x)
<1> HIDE DEF p
<1>2. ToSet(p) = ToSet(q) \cup {x}
  BY <1>1 DEF ToSet, p
<1>3. OneToOne(q) /\ x \notin ToSet(q) => OneToOne(p)
  BY <1>1 DEF OneToOne, ToSet, p
<1>4. QED
  BY <1>2, <1>3 DEF p

\* Taking the first id out of a queue of ids.
LEMMA TailDrop ==
    ASSUME NEW S, NEW q \in Seq(S), q # <<>>
    PROVE  /\ Head(q) \in ToSet(q) /\ ToSet(Tail(q)) \subseteq ToSet(q)
           /\ OneToOne(q) => /\ ToSet(Tail(q)) = ToSet(q) \ {Head(q)}
                             /\ OneToOne(Tail(q))
<1> DEFINE p == Tail(q)
<1>1. /\ DOMAIN p = 1..(Len(q) - 1) /\ DOMAIN q = 1..Len(q) /\ Len(q) \in Nat
      /\ Len(q) >= 1 /\ Head(q) = q[1]
      /\ \A i \in 1..(Len(q) - 1) : p[i] = q[i + 1]
  OBVIOUS
<1> HIDE DEF p
<1>2. \A i \in 2..Len(q) : i - 1 \in 1..(Len(q) - 1) /\ q[i] = p[i - 1]
  BY <1>1
<1>3. /\ Head(q) \in ToSet(q) /\ ToSet(p) \subseteq ToSet(q)
      /\ OneToOne(q) => Head(q) \notin ToSet(p) /\ OneToOne(p)
  <2>1. 1 \in DOMAIN q /\ Head(q) = q[1] /\ DrawnWithout(p, q, 1)
    BY TailDraws DEF p
  <2>2. PICK f \in [DOMAIN p -> DOMAIN q \ {1}] :
            /\ \A i, j \in DOMAIN p : f[i] = f[j] => i = j
            /\ \A i \in DOMAIN p : p[i] = q[f[i]]
    BY <2>1 DEF DrawnWithout
  <2>3. \A i \in DOMAIN p : f[i] \in DOMAIN q /\ f[i] # 1 /\ p[i] = q[f[i]]
    BY <2>2
  <2>4. Head(q) \in ToSet(q) /\ ToSet(p) \subseteq ToSet(q)
    BY <2>1, <2>3 DEF ToSet
  <2>5. ASSUME OneToOne(q) PROVE Head(q) \notin ToSet(p) /\ OneToOne(p)
    BY <2>1, <2>2, <2>3, <2>5 DEF ToSet, OneToOne
  <2>6. QED
    BY <2>4, <2>5
<1>4. ToSet(q) \subseteq ToSet(p) \cup {Head(q)}
  <2>1. SUFFICES ASSUME NEW i \in 1..Len(q) PROVE q[i] \in ToSet(p) \cup {q[1]}
    BY <1>1 DEF ToSet
  <2>2. CASE i = 1
    BY <2>2
  <2>3. CASE i \in 2..Len(q)
    BY <1>1, <1>2, <2>3 DEF ToSet
  <2>4. QED
    BY <1>1, <2>2, <2>3
<1>5. QED
  BY <1>3, <1>4 DEF p

\* A guard goes away: what the rest of the state must look like.
LEMMA GuardGone ==
    ASSUME TypeOK, OwnershipInv, NEW t \in Tasks, pc[t] = "hold",
           pc' = [pc EXCEPT ![t] = "done"], lease' = lease
    PROVE  /\ GuardsApart' /\ Leases' = Leases \ {lease[t]}
           /\ lease[t] \in Leases
<1>1. pc \in [Tasks -> TaskPcs] /\ lease \in [Tasks -> Nat]
  BY EngineTypes
<1>2. Holders' = Holders \ {t} /\ t \in Holders
  BY <1>1 DEF Holders
<1>3. GuardsApart
  BY DEF OwnershipInv
<1>4. GuardsApart'
  BY <1>2, <1>3 DEF GuardsApart
<1>5. Leases' = Leases \ {lease[t]} /\ lease[t] \in Leases
  BY <1>2, <1>3 DEF Leases, GuardsApart
<1>6. QED
  BY <1>4, <1>5

\* A guard returns its connection, or sends its id into the channel.
LEMMA ReturnStep ==
    ASSUME TypeOK, TypeOK', OwnershipInv, Allocates(pool'), Tidy(pool'),
           Within(pool, pool', {}), pool'.open = pool.open,
           NEW t \in Tasks, pc[t] = "hold", pc' = [pc EXCEPT ![t] = "done"],
           UNCHANGED <<lease, held, fresh, alive>>,
           \/ /\ drops' = drops
              /\ pool.open => Ids(pool'.busy) = Ids(pool.busy) \ {lease[t]}
           \/ /\ drops' = Append(drops, lease[t])
              /\ Ids(pool'.busy) = Ids(pool.busy)
    PROVE  StepKept
<1>1. ReaperApart /\ SessionsKnown /\ BusyIsLent
  BY DEF OwnershipInv
<1>2. /\ GuardsApart' /\ Leases' = Leases \ {lease[t]} /\ lease[t] \in Leases
  BY GuardGone
<1>3. ReaperApart' /\ SessionsKnown'
  <2>1. Placed(pool') \cup Ids(held') \subseteq alive'
    BY <1>1 DEF Within, SessionsKnown
  <2>2. alive' \cup Leases' \subseteq alive \cup Leases
    BY <1>2
  <2>3. QED
    BY <1>1, <2>1, <2>2, PlacesStep
<1>4. ASSUME pool'.open
      PROVE  /\ Ids(pool'.busy) = Leases' \cup ToSet(drops')
             /\ Leases' \cap ToSet(drops') = {} /\ OneToOne(drops')
  <2>1. /\ Ids(pool.busy) = Leases \cup ToSet(drops)
        /\ Leases \cap ToSet(drops) = {} /\ OneToOne(drops)
    BY <1>1, <1>4 DEF BusyIsLent
  <2>2. CASE drops' = drops /\ Ids(pool'.busy) = Ids(pool.busy) \ {lease[t]}
    BY <1>2, <2>1, <2>2
  <2>3. CASE /\ drops' = Append(drops, lease[t])
             /\ Ids(pool'.busy) = Ids(pool.busy)
    <3>1. drops \in Seq(Nat) /\ lease[t] \in Nat /\ lease[t] \notin ToSet(drops)
      BY <1>2, <2>1, EngineTypes
    <3>2. ToSet(drops') = ToSet(drops) \cup {lease[t]} /\ OneToOne(drops')
      BY <2>1, <2>3, <3>1, AppendDrop
    <3>3. QED
      BY <1>2, <2>1, <2>3, <3>1, <3>2
  <2>4. QED
    BY <1>4, <2>2, <2>3
<1>5. BusyIsLent'
  BY <1>4 DEF BusyIsLent, Ids, ToSet, OneToOne
<1>6. ContractStep
  BY ContractGivesBack
<1>7. QED
  BY <1>2, <1>3, <1>5, <1>6, InvNext DEF StepKept

\* Someone receives the id of a dropped guard.
LEMMA DrainStep ==
    ASSUME TypeOK, TypeOK', OwnershipInv, Allocates(pool'), Tidy(pool'),
           Within(pool, pool', {}), pool'.open = pool.open,
           drops # <<>>, drops' = Tail(drops),
           pool.open => Ids(pool'.busy) = Ids(pool.busy) \ {Head(drops)},
           UNCHANGED <<pc, lease, held, fresh, alive>>
    PROVE  StepKept
<1>1. ReaperApart /\ SessionsKnown /\ GuardsApart /\ BusyIsLent
  BY DEF OwnershipInv
<1>2. SameRoles
  BY DEF SameRoles
<1>3. Leases' = Leases /\ Holders' = Holders
  BY <1>2, RolesKept
<1>4. ReaperApart' /\ SessionsKnown'
  <2>1. Placed(pool') \cup Ids(held') \subseteq alive'
    BY <1>1 DEF Within, SessionsKnown
  <2>2. QED
    BY <1>1, <1>3, <2>1, PlacesStep
<1>5. GuardsApart'
  BY <1>1, <1>3 DEF GuardsApart
<1>6. ASSUME pool'.open
      PROVE  /\ Ids(pool'.busy) = Leases' \cup ToSet(drops')
             /\ Leases' \cap ToSet(drops') = {} /\ OneToOne(drops')
  <2>1. /\ Ids(pool.busy) = Leases \cup ToSet(drops)
        /\ Leases \cap ToSet(drops) = {} /\ OneToOne(drops)
    BY <1>1, <1>6 DEF BusyIsLent
  <2>2. /\ Head(drops) \in ToSet(drops) /\ OneToOne(drops')
        /\ ToSet(drops') = ToSet(drops) \ {Head(drops)}
    BY <2>1, TailDrop, EngineTypes
  <2>3. QED
    BY <1>3, <1>6, <2>1, <2>2
<1>7. BusyIsLent'
  BY <1>6 DEF BusyIsLent, Ids, ToSet, OneToOne
<1>8. ContractStep
  BY <1>2, ContractStutter
<1>9. QED
  BY <1>4, <1>5, <1>7, <1>8, InvNext DEF StepKept

-----------------------------------------------------------------------------
(* The actions of a task. *)

\* A task that does not move keeps its role.
LEMMA RolesSame ==
    ASSUME UNCHANGED <<pc, lease>>
    PROVE  SameRoles
BY DEF SameRoles

\* A task may move between places that the contract does not see.
LEMMA RolesMoved ==
    ASSUME TypeOK, NEW t \in Tasks, NEW v, pc' = [pc EXCEPT ![t] = v],
           lease' = lease, pc[t] \notin {"hold", "done"},
           v \notin {"hold", "done"}
    PROVE  SameRoles
<1>1. DOMAIN pc = Tasks
  BY EngineTypes
<1>2. QED
  BY <1>1 DEF SameRoles

\* Two rearrangements of the lists are one.
LEMMA RehomesChain ==
    ASSUME NEW s, PoolType(s), NEW s1, PoolType(s1), NEW s2, PoolType(s2),
           Rehomes(s, s1, {}), Rehomes(s1, s2, {})
    PROVE  Rehomes(s, s2, {})
BY RehomesTwice

\* A section that ends with rearranged lists.
LEMMA QuietCommit ==
    ASSUME TypeOK, TypeOK', OwnershipInv, NEW s, Rehomes(pool, s, {}),
           Commit(s) \/ (\E p : Continue(p, s)), SameRoles,
           UNCHANGED <<held, fresh, drops, alive>>
    PROVE  StepKept
<1>1. pool' = s /\ Allocates(s)
  BY DEF Commit, Continue
<1>2. QED
  BY <1>1, QuietStep

\* The pool before a step.
LEMMA PoolBefore ==
    ASSUME TypeOK, OwnershipInv
    PROVE  /\ PoolType(pool) /\ Tidy(pool)
           /\ \A p : Rehomes(pool, AfterDrain(p), {}) /\ PoolType(AfterDrain(p))
<1>1. PoolType(pool) /\ Tidy(pool)
  BY EngineTypes DEF OwnershipInv
<1>2. QED
  BY <1>1, SignalsRehome, AfterDrainType DEF AfterDrain

\* DrainOne keeps the invariant: an id in the channel is busy while open.
LEMMA DrainOneKept ==
    ASSUME TypeOK, TypeOK', OwnershipInv, NEW p, DrainOne(p)
    PROVE  StepKept
<1>1. PoolType(pool) /\ Tidy(pool)
  BY PoolBefore
<1>2. PICK fit \in BOOLEAN : Continue(p, Drained(pool, Head(drops), fit))
  BY DEF DrainOne, Fitness
<1>3. /\ pool' = Drained(pool, Head(drops), fit) /\ Allocates(pool')
      /\ drops # <<>> /\ drops' = Tail(drops)
      /\ UNCHANGED <<pc, lease, held, fresh, alive>>
  BY <1>2 DEF Continue, DrainOne, taskVars, reaperVars
<1>4. CASE pool.open
  <2>1. Head(drops) \in ToSet(drops)
    BY <1>3, TailDrop, EngineTypes
  <2>2. Head(drops) \in Ids(pool.busy)
    BY <1>4, <2>1 DEF OwnershipInv, BusyIsLent
  <2>3. /\ Tidy(pool') /\ Within(pool, pool', {}) /\ pool'.open = pool.open
        /\ Ids(pool'.busy) = Ids(pool.busy) \ {Head(drops)}
    BY <1>1, <1>3, <1>4, <2>2, DrainedMoves
  <2>4. QED
    BY <1>3, <2>3, DrainStep
<1>5. CASE ~pool.open
  <2>1. pool' = pool
    BY <1>3, <1>5 DEF Drained
  <2>2. Within(pool, pool', {}) /\ Tidy(pool')
    BY <1>1, <2>1, SignalsRehome DEF Rehomes
  <2>3. QED
    BY <1>3, <1>5, <2>1, <2>2, DrainStep
<1>6. QED
  BY <1>4, <1>5

\* Observe keeps the invariant.
LEMMA ObserveKept ==
    ASSUME TypeOK, TypeOK', OwnershipInv, Observe
    PROVE  StepKept
<1>1. /\ Commit(AfterDrain(Observer))
      /\ UNCHANGED <<pc, lease, held, fresh, drops, alive>>
  BY DEF Observe, taskVars, reaperVars
<1>2. QED
  BY <1>1, PoolBefore, RolesSame, QuietCommit

\* Acquire keeps the invariant.
LEMMA AcquireKept ==
    ASSUME TypeOK, TypeOK', OwnershipInv, NEW t \in Tasks, Acquire(t)
    PROVE  StepKept
<1>1. UNCHANGED <<lease, held, fresh, drops, alive>> /\ pc[t] = "start"
  BY DEF Acquire, reaperVars
<1>2. /\ PoolType(pool) /\ PoolType(AfterDrain(t))
      /\ Rehomes(pool, AfterDrain(t), {}) /\ Tidy(AfterDrain(t))
  BY PoolBefore DEF Rehomes
<1>3. SameRoles
  <2>1. pc' = [pc EXCEPT ![t] = "wait"] \/ pc' = [pc EXCEPT ![t] = "failed"]
    BY DEF Acquire
  <2>2. QED
    BY <1>1, <2>1, RolesMoved
<1>4. CASE pool.open
  <2>1. PICK cclass \in AskClasses, wantsNew \in AskNew :
               Commit(EnqueueRequest(AfterDrain(t), t, cclass, wantsNew))
    BY <1>4 DEF Acquire
  <2>2. cclass \in Classes /\ wantsNew \in BOOLEAN
    BY EngineAssumption
  <2> DEFINE s == EnqueueRequest(AfterDrain(t), t, cclass, wantsNew)
  <2>3. PoolType(s)
    BY <1>2, <2>2, EnqueueRequestType
  <2>4. Rehomes(AfterDrain(t), s, {})
    BY <1>2, EnqueueRehomes
  <2>5. Commit(s)
    BY <2>1
  <2> HIDE DEF s
  <2>6. Rehomes(pool, s, {})
    BY <1>2, <2>3, <2>4, RehomesChain
  <2>7. QED
    BY <1>1, <1>3, <2>5, <2>6, QuietCommit
<1>5. CASE ~pool.open
  <2>1. Commit(AfterDrain(t))
    BY <1>5 DEF Acquire
  <2>2. QED
    BY <1>1, <1>2, <1>3, <2>1, QuietCommit
<1>6. QED
  BY <1>4, <1>5

\* PollFails keeps the invariant: a connection of the request is filed away.
LEMMA PollFailsKept ==
    ASSUME TypeOK, TypeOK', OwnershipInv, NEW t \in Tasks, PollFails(t)
    PROVE  StepKept
<1> DEFINE i == Position(t)
           r == [pool.requests[i] EXCEPT !.error = FALSE]
           s == IF pool.open /\ HasRequest(pool, t)
                THEN SetRequest(pool, i, r)
                ELSE pool
<1>1. PoolType(pool) /\ Tidy(pool)
  BY PoolBefore
<1>2. PoolType(s) /\ Rehomes(pool, s, {})
  <2>1. CASE pool.open /\ HasRequest(pool, t)
    <3>1. i \in DOMAIN pool.requests /\ pool.requests[i] \in Request
      BY <2>1, PositionType DEF Req
    <3> HIDE DEF i
    <3>2. r \in Request /\ r.conn = pool.requests[i].conn
      BY <3>1 DEF Request
    <3> HIDE DEF r
    <3>3. /\ PoolType(SetRequest(pool, i, r))
          /\ Rehomes(pool, SetRequest(pool, i, r), {})
      BY <1>1, <3>1, <3>2, SetRequestType, KeepRequest
    <3>4. QED
      BY <2>1, <3>3
  <2>2. CASE ~(pool.open /\ HasRequest(pool, t))
    <3>1. Rehomes(pool, pool, {})
      BY <1>1, SignalsRehome
    <3>2. QED
      BY <1>1, <2>2, <3>1
  <2>3. QED
    BY <2>1, <2>2
<1>3. Commit(AbandonRequest(s, t))
  BY DEF PollFails
<1> HIDE DEF s
<1>4. PoolType(AbandonRequest(s, t)) /\ Rehomes(s, AbandonRequest(s, t), {})
  BY <1>2, AbandonRequestType, AbandonRehomes DEF Rehomes
<1>5. Rehomes(pool, AbandonRequest(s, t), {})
  BY <1>1, <1>2, <1>4, RehomesChain
<1>6. /\ UNCHANGED <<lease, held, fresh, drops, alive>> /\ pc[t] = "wait"
      /\ pc' = [pc EXCEPT ![t] = "abort"]
  BY DEF PollFails, Polls, reaperVars
<1>7. SameRoles
  BY <1>6, RolesMoved
<1>8. QED
  BY <1>3, <1>5, <1>6, <1>7, QuietCommit

\* PollCompleted keeps the invariant: the request's connection becomes busy
\* and is lent to the task.
LEMMA PollCompletedKept ==
    ASSUME TypeOK, TypeOK', OwnershipInv, NEW t \in Tasks, PollCompleted(t)
    PROVE  StepKept
<1> DEFINE i == Position(t)
           X == Ids(pool.requests[i].conn)
<1>1. PoolType(pool) /\ Tidy(pool)
  BY PoolBefore
<1>2. i \in DOMAIN pool.requests /\ Req(t) \in Request
  BY PositionType DEF PollCompleted, Pollable
<1>3. /\ pool' = FinishCompletedRequest(pool, i) /\ Allocates(pool')
      /\ UNCHANGED <<held, fresh, drops, alive>>
      /\ pc[t] = "wait" /\ pool.open
  BY DEF PollCompleted, Commit, Pollable, Polls, reaperVars
<1>4. Req(t).conn = pool.requests[i].conn
  BY DEF Req
<1> HIDE DEF i
<1>5. /\ Tidy(pool') /\ Within(pool, pool', {}) /\ pool'.open = pool.open
      /\ Ids(pool'.busy) = Ids(pool.busy) \cup X
      /\ X \cap Ids(pool.busy) = {} /\ X \subseteq Placed(pool)
  BY <1>1, <1>2, <1>3, FinishLends
<1> HIDE DEF X
<1>6. CASE Req(t).conn = {}
  <2>1. pc' = [pc EXCEPT ![t] = "abort"] /\ lease' = lease
    BY <1>6 DEF PollCompleted
  <2>2. SameRoles
    BY <1>3, <2>1, RolesMoved
  <2>3. X = {}
    BY <1>4, <1>6 DEF X, Ids
  <2>4. ReaperApart /\ SessionsKnown /\ GuardsApart /\ BusyIsLent
    BY DEF OwnershipInv
  <2>5. Placed(pool') \cup Ids(held') \subseteq alive'
    BY <1>3, <1>5, <2>4 DEF Within, SessionsKnown
  <2>6. ReaperApart' /\ SessionsKnown'
    BY <1>3, <1>5, <2>2, <2>4, <2>5, PlacesStep, RolesKept
  <2>7. GuardsApart' /\ BusyIsLent'
    BY <1>3, <1>5, <2>2, <2>3, <2>4, GuardsKept
  <2>8. ContractStep
    BY <1>3, <1>5, <2>2, ContractStutter
  <2>9. QED
    BY <1>3, <1>5, <2>6, <2>7, <2>8, InvNext DEF StepKept
<1>7. CASE Req(t).conn # {}
  <2>1. PICK c \in Req(t).conn : lease' = [lease EXCEPT ![t] = c.id]
    BY <1>7 DEF PollCompleted
  <2>2. \A x \in Req(t).conn : x = c
    BY <1>2, <2>1, RequestFields DEF Option
  <2>3. X = {c.id}
    BY <1>4, <2>1, <2>2 DEF X, Ids
  <2>4. pc' = [pc EXCEPT ![t] = "hold"]
    BY <1>7 DEF PollCompleted
  <2>5. c.id \in Placed(pool) /\ c.id \notin Ids(pool.busy)
    BY <1>5, <2>3
  <2>6. QED
    BY <1>3, <1>5, <2>1, <2>3, <2>4, <2>5, LendStep
<1>8. QED
  BY <1>6, <1>7

\* PollPending keeps the invariant.
LEMMA PollPendingKept ==
    ASSUME TypeOK, TypeOK', OwnershipInv, NEW t \in Tasks, PollPending(t)
    PROVE  StepKept
<1>1. /\ Commit(Park(pool, t))
      /\ UNCHANGED <<pc, lease, held, fresh, drops, alive>>
  BY DEF PollPending, taskVars, reaperVars
<1>2. Rehomes(pool, Park(pool, t), {})
  BY PoolBefore, SignalsRehome
<1>3. QED
  BY <1>1, <1>2, RolesSame, QuietCommit

\* Parking after a rearrangement is a rearrangement.
LEMMA ParkAfter ==
    ASSUME NEW s, PoolType(s), NEW s1, PoolType(s1), NEW t \in Tasks,
           Rehomes(s, s1, {})
    PROVE  Rehomes(s, Park(s1, t), {})
<1>1. PoolType(Park(s1, t)) /\ Rehomes(s1, Park(s1, t), {})
  BY ParkType, SignalsRehome DEF Rehomes
<1>2. QED
  BY <1>1, RehomesChain

\* ScanUnfit keeps the invariant.
LEMMA ScanUnfitKept ==
    ASSUME TypeOK, TypeOK', OwnershipInv, NEW t \in Tasks, ScanUnfit(t)
    PROVE  StepKept
<1> DEFINE s == CheckUnfit(pool, Position(t))
<1>1. PoolType(pool) /\ Tidy(pool)
  BY PoolBefore
<1>2. Position(t) \in DOMAIN pool.requests /\ HasCandidate(pool, Position(t))
  BY PositionType DEF ScanUnfit, Scans, Pollable
<1>3. PoolType(s) /\ Rehomes(pool, s, {})
  BY <1>1, <1>2, CheckTypes, CheckRehomes
<1>4. /\ Commit(Park(s, t)) \/ Continue(t, s)
      /\ UNCHANGED <<pc, lease, held, fresh, drops, alive>>
  BY DEF ScanUnfit, taskVars, reaperVars
<1> HIDE DEF s
<1>5. Rehomes(pool, Park(s, t), {})
  BY <1>1, <1>3, ParkAfter
<1>6. SameRoles
  BY <1>4, RolesSame
<1>7. CASE Commit(Park(s, t))
  BY <1>4, <1>5, <1>6, <1>7, QuietCommit
<1>8. CASE Continue(t, s)
  BY <1>3, <1>4, <1>6, <1>8, QuietCommit
<1>9. QED
  BY <1>4, <1>7, <1>8

\* ScanNeedsPing keeps the invariant.
LEMMA ScanNeedsPingKept ==
    ASSUME TypeOK, TypeOK', OwnershipInv, NEW t \in Tasks, ScanNeedsPing(t)
    PROVE  StepKept
<1> DEFINE s == CheckNeedsPing(pool, Position(t))
<1>1. PoolType(pool) /\ Tidy(pool)
  BY PoolBefore
<1>2. Position(t) \in DOMAIN pool.requests /\ HasCandidate(pool, Position(t))
  BY PositionType DEF ScanNeedsPing, Scans, Pollable
<1>3. PoolType(s) /\ Rehomes(pool, s, {})
  BY <1>1, <1>2, CheckTypes, CheckRehomes
<1>4. /\ Commit(Park(s, t))
      /\ UNCHANGED <<pc, lease, held, fresh, drops, alive>>
  BY DEF ScanNeedsPing, taskVars, reaperVars
<1> HIDE DEF s
<1>5. Rehomes(pool, Park(s, t), {})
  BY <1>1, <1>3, ParkAfter
<1>6. QED
  BY <1>4, <1>5, RolesSame, QuietCommit

\* ScanFit keeps the invariant: the candidate goes through the request to busy
\* and is lent.
LEMMA ScanFitKept ==
    ASSUME TypeOK, TypeOK', OwnershipInv, NEW t \in Tasks, ScanFit(t)
    PROVE  StepKept
<1> DEFINE i == Position(t)
           s == CheckFit(pool, i)
           c == Candidate(pool, i)
<1>1. PoolType(pool) /\ Tidy(pool)
  BY PoolBefore
<1>2. i \in DOMAIN pool.requests /\ HasCandidate(pool, i)
  BY PositionType DEF ScanFit, Scans, Pollable
<1>3. /\ pool' = FinishCompletedRequest(s, i) /\ Allocates(pool')
      /\ pc' = [pc EXCEPT ![t] = "hold"] /\ lease' = [lease EXCEPT ![t] = c.id]
      /\ UNCHANGED <<held, fresh, drops, alive>>
      /\ pc[t] = "wait" /\ pool.open
  BY DEF ScanFit, Commit, Scans, Pollable, Polls, reaperVars
<1> HIDE DEF i
<1>4. /\ PoolType(s) /\ i \in DOMAIN s.requests
      /\ Rehomes(pool, s, {}) /\ s.requests[i].conn = {c}
  BY <1>1, <1>2, CheckTypes, CheckRehomes
<1>5. c.id \in Placed(pool)
  BY <1>1, <1>2, WithoutCandidateRehomes
<1> HIDE DEF s, c
<1>6. Ids(s.requests[i].conn) = {c.id}
  BY <1>4 DEF Ids
<1>7. /\ Tidy(s) /\ Within(pool, s, {})
      /\ s.busy = pool.busy /\ s.open = pool.open
  BY <1>4 DEF Rehomes
<1>8. /\ Tidy(pool') /\ Within(s, pool', {}) /\ pool'.open = s.open
      /\ Ids(pool'.busy) = Ids(s.busy) \cup {c.id}
      /\ {c.id} \cap Ids(s.busy) = {}
  <2> DEFINE X == Ids(s.requests[i].conn)
  <2>1. /\ Tidy(pool') /\ Within(s, pool', {}) /\ pool'.open = s.open
        /\ Ids(pool'.busy) = Ids(s.busy) \cup X
        /\ X \cap Ids(s.busy) = {}
    BY <1>3, <1>4, <1>7, FinishLends
  <2> HIDE DEF X
  <2>2. X = {c.id}
    BY <1>6 DEF X
  <2>3. QED
    BY <2>1, <2>2
<1>9. Within(pool, pool', {})
  <2>1. /\ pool.next_conn_id \in Nat /\ s.next_conn_id \in Nat
        /\ pool'.next_conn_id \in Nat /\ Planned(pool') \subseteq Nat
    BY <1>1, <1>4, IdNumbers, EngineTypesNext DEF ConnIds
  <2>2. QED
    BY <1>7, <1>8, <2>1 DEF Within
<1>10. c.id \notin Ids(pool.busy) /\ Ids(pool'.busy) = Ids(pool.busy) \cup {c.id}
  BY <1>7, <1>8
<1>11. QED
  BY <1>3, <1>5, <1>7, <1>8, <1>9, <1>10, LendStep

\* ScanExhausted keeps the invariant.
LEMMA ScanExhaustedKept ==
    ASSUME TypeOK, TypeOK', OwnershipInv, NEW t \in Tasks, ScanExhausted(t)
    PROVE  StepKept
<1> DEFINE s == QueueForBg(pool, Position(t))
<1>1. PoolType(pool) /\ Tidy(pool)
  BY PoolBefore
<1>2. Position(t) \in DOMAIN pool.requests
  BY PositionType DEF ScanExhausted, Scans, Pollable
<1>3. PoolType(s) /\ Rehomes(pool, s, {})
  BY <1>1, <1>2, QueueForBgType, QueueForBgRehomes
<1>4. /\ \/ Commit(AbandonRequest(pool, t)) /\ pc' = [pc EXCEPT ![t] = "abort"]
         \/ Commit(Park(s, t)) /\ pc' = pc
      /\ UNCHANGED <<lease, held, fresh, drops, alive>> /\ pc[t] = "wait"
  BY DEF ScanExhausted, Scans, Pollable, Polls, reaperVars
<1> HIDE DEF s
<1>5. SameRoles
  BY <1>4, RolesSame, RolesMoved
<1>6. CASE Commit(AbandonRequest(pool, t))
  <2>1. Rehomes(pool, AbandonRequest(pool, t), {})
    BY <1>1, AbandonRehomes
  <2>2. QED
    BY <1>4, <1>5, <1>6, <2>1, QuietCommit
<1>7. CASE Commit(Park(s, t))
  <2>1. Rehomes(pool, Park(s, t), {})
    BY <1>1, <1>3, ParkAfter
  <2>2. QED
    BY <1>4, <1>5, <1>7, <2>1, QuietCommit
<1>8. QED
  BY <1>4, <1>6, <1>7

\* A wake-up after a rearrangement is a rearrangement.
LEMMA WakeAfter ==
    ASSUME NEW s, PoolType(s), NEW s1, PoolType(s1), Rehomes(s, s1, {})
    PROVE  Rehomes(s, WakeWaiters(s1), {}) /\ Rehomes(s, NotifyBg(s1), {})
<1>1. /\ PoolType(WakeWaiters(s1)) /\ Rehomes(s1, WakeWaiters(s1), {})
      /\ PoolType(NotifyBg(s1)) /\ Rehomes(s1, NotifyBg(s1), {})
  BY WakeWaitersType, NotifyBgType, SignalsRehome DEF Rehomes
<1>2. QED
  BY <1>1, RehomesChain

\* Abandon keeps the invariant, whoever gives the wait up.
LEMMA AbandonKept ==
    ASSUME TypeOK, TypeOK', OwnershipInv, NEW t \in Tasks,
           pc[t] \in {"wait", "abort"}, Abandon(t)
    PROVE  StepKept
<1> DEFINE s == AbandonRequest(pool, t)
<1>1. PoolType(pool) /\ Tidy(pool)
  BY PoolBefore
<1>2. PoolType(s) /\ Rehomes(pool, s, {})
  BY <1>1, AbandonRequestType, AbandonRehomes
<1>3. /\ Commit(WakeWaiters(s)) /\ pc' = [pc EXCEPT ![t] = "failed"]
      /\ UNCHANGED <<lease, held, fresh, drops, alive>>
  BY DEF Abandon, reaperVars
<1> HIDE DEF s
<1>4. Rehomes(pool, WakeWaiters(s), {})
  BY <1>1, <1>2, WakeAfter
<1>5. SameRoles
  BY <1>3, RolesMoved
<1>6. QED
  BY <1>3, <1>4, <1>5, QuietCommit

\* A connection leaves busy for another list, and the waiters are woken.
LEMMA BusyReturned ==
    ASSUME NEW s, PoolType(s), Tidy(s), NEW c \in s.busy, NEW w, PoolType(w),
           Rehomes(TakeBusy(s, c), w, {c.id})
    PROVE  LET s2 == WakeWaiters(w)
           IN /\ Tidy(s2) /\ Within(s, s2, {}) /\ s2.open = s.open
              /\ Ids(s2.busy) = Ids(s.busy) \ {c.id}
<1> DEFINE s2 == WakeWaiters(w)
           v == TakeBusy(s, c)
<1>1. PoolType(s2) /\ Rehomes(w, s2, {})
  BY WakeWaitersType, SignalsRehome DEF Rehomes
<1>2. PoolType(v)
  BY TakeBusyType
<1> HIDE DEF s2, v
<1>3. Rehomes(v, s2, {c.id})
  BY <1>1, <1>2, RehomesTwice DEF v
<1>4. QED
  BY <1>1, <1>3, LeavesBusy DEF s2, v

\* Release keeps the invariant: the connection leaves busy with its guard.
LEMMA ReleaseKept ==
    ASSUME TypeOK, TypeOK', OwnershipInv, NEW t \in Tasks, Release(t)
    PROVE  StepKept
<1>1. PoolType(pool) /\ Tidy(pool)
  BY PoolBefore
<1>2. /\ pc[t] = "hold" /\ pc' = [pc EXCEPT ![t] = "done"]
      /\ UNCHANGED <<lease, held, fresh, alive>>
  BY DEF Release, reaperVars
<1>3. CASE ~pool.open
  <2>1. pool' = pool /\ Allocates(pool') /\ drops' = drops
    BY <1>3 DEF Release, Commit
  <2>2. Within(pool, pool', {}) /\ Tidy(pool')
    BY <1>1, <2>1, SignalsRehome DEF Rehomes
  <2>3. QED
    BY <1>2, <1>3, <2>1, <2>2, ReturnStep
<1>4. CASE pool.open /\ LeasedConn(t) = {}
  <2> DEFINE s == WakeWaiters(NotifyBg(pool))
  <2>1. pool' = s /\ Allocates(pool') /\ drops' = Append(drops, lease[t])
    BY <1>4 DEF Release, Commit
  <2>2. Rehomes(pool, s, {})
    BY <1>1, WakeAfter, NotifyBgType, SignalsRehome
  <2> HIDE DEF s
  <2>3. /\ Within(pool, pool', {}) /\ Tidy(pool') /\ pool'.open = pool.open
        /\ Ids(pool'.busy) = Ids(pool.busy)
    BY <2>1, <2>2 DEF Rehomes
  <2>4. QED
    BY <1>2, <2>1, <2>3, ReturnStep
<1>5. CASE pool.open /\ LeasedConn(t) # {}
  <2>1. PICK fit \in Fitness, c \in LeasedConn(t) :
          Commit(WakeWaiters(ReturnConnectionHelper(TakeBusy(pool, c), c, fit)))
    BY <1>5 DEF Release
  <2>2. drops' = drops
    BY <1>5 DEF Release
  <2>3. /\ c \in PooledConn /\ fit \in BOOLEAN
        /\ c \in pool.busy /\ c.id = lease[t]
    BY <1>1, Fields DEF LeasedConn, Fitness
  <2> DEFINE v == TakeBusy(pool, c)
             w == ReturnConnectionHelper(v, c, fit)
  <2>4. PoolType(v) /\ Tidy(v) /\ Lacks(v, c.id)
    BY <1>1, <2>3, TakeBusyType, TakeBusyMoves
  <2>5. pool' = WakeWaiters(w) /\ Allocates(pool')
    BY <2>1 DEF Commit
  <2> HIDE DEF v
  <2>6. PoolType(w) /\ Rehomes(v, w, {c.id})
    BY <2>3, <2>4, ReturnConnectionHelperType, ReturnRehomes
  <2> HIDE DEF w
  <2>7. /\ Tidy(pool') /\ Within(pool, pool', {}) /\ pool'.open = pool.open
        /\ Ids(pool'.busy) = Ids(pool.busy) \ {c.id}
    BY <1>1, <2>3, <2>5, <2>6, BusyReturned DEF v
  <2>8. QED
    BY <1>2, <2>2, <2>3, <2>5, <2>7, ReturnStep
<1>6. QED
  BY <1>3, <1>4, <1>5

\* DropFromPool keeps the invariant: the connection goes to the close queue.
LEMMA DropFromPoolKept ==
    ASSUME TypeOK, TypeOK', OwnershipInv, NEW t \in Tasks, DropFromPool(t)
    PROVE  StepKept
<1>1. PoolType(pool) /\ Tidy(pool)
  BY PoolBefore
<1>2. /\ pc[t] = "hold" /\ pc' = [pc EXCEPT ![t] = "done"]
      /\ UNCHANGED <<lease, held, fresh, drops, alive>>
  BY DEF DropFromPool, reaperVars
<1>3. CASE ~pool.open
  <2>1. pool' = pool /\ Allocates(pool')
    BY <1>3 DEF DropFromPool, Commit
  <2>2. Within(pool, pool', {}) /\ Tidy(pool')
    BY <1>1, <2>1, SignalsRehome DEF Rehomes
  <2>3. QED
    BY <1>2, <1>3, <2>1, <2>2, ReturnStep
<1>4. CASE pool.open
  <2>1. lease[t] \in Leases
    BY <1>2 DEF Leases, Holders
  <2>2. lease[t] \in Ids(pool.busy)
    BY <1>4, <2>1 DEF OwnershipInv, BusyIsLent
  <2>3. LeasedConn(t) # {}
    BY <2>2 DEF LeasedConn, Ids
  <2>4. PICK c \in LeasedConn(t) :
          Commit(WakeWaiters(DropConn(TakeBusy(pool, c), c)))
    BY <1>4, <2>3 DEF DropFromPool
  <2>5. c \in PooledConn /\ c \in pool.busy /\ c.id = lease[t]
    BY <1>1, Fields DEF LeasedConn
  <2> DEFINE v == TakeBusy(pool, c)
             w == DropConn(v, c)
  <2>6. PoolType(v) /\ Tidy(v) /\ Lacks(v, c.id)
    BY <1>1, <2>5, TakeBusyType, TakeBusyMoves
  <2>7. pool' = WakeWaiters(w) /\ Allocates(pool')
    BY <2>4 DEF Commit
  <2> HIDE DEF v
  <2>8. PoolType(w) /\ Rehomes(v, w, {c.id})
    BY <2>5, <2>6, DropConnType, DropConnRehomes
  <2> HIDE DEF w
  <2>9. /\ Tidy(pool') /\ Within(pool, pool', {}) /\ pool'.open = pool.open
        /\ Ids(pool'.busy) = Ids(pool.busy) \ {c.id}
    BY <1>1, <2>5, <2>7, <2>8, BusyReturned DEF v
  <2>10. QED
    BY <1>2, <2>5, <2>7, <2>9, ReturnStep
<1>5. QED
  BY <1>3, <1>4

\* DropGuard keeps the invariant: the id moves from the guard to the channel.
LEMMA DropGuardKept ==
    ASSUME TypeOK, TypeOK', OwnershipInv, NEW t \in Tasks, DropGuard(t)
    PROVE  StepKept
<1> DEFINE s == WakeWaiters(NotifyBg(pool))
<1>1. PoolType(pool) /\ Tidy(pool)
  BY PoolBefore
<1>2. /\ pc[t] = "hold" /\ pc' = [pc EXCEPT ![t] = "done"] /\ pool' = s
      /\ drops' = Append(drops, lease[t]) /\ UNCHANGED <<lease, held, fresh, alive>>
  BY DEF DropGuard, reaperVars
<1>3. Rehomes(pool, s, {})
  BY <1>1, WakeAfter, NotifyBgType, SignalsRehome
<1>4. s.next_conn_id = pool.next_conn_id
  BY <1>1 DEF WakeWaiters, NotifyBg, PoolType, PoolStates
<1> HIDE DEF s
<1>5. Allocates(pool')
  BY <1>2, <1>4 DEF OwnershipInv, Allocates
<1>6. /\ Within(pool, pool', {}) /\ Tidy(pool') /\ pool'.open = pool.open
      /\ Ids(pool'.busy) = Ids(pool.busy)
  BY <1>2, <1>3 DEF Rehomes
<1>7. QED
  BY <1>2, <1>5, <1>6, ReturnStep

\* Every step of a task keeps the invariant.
LEMMA TaskStepKept ==
    ASSUME TypeOK, TypeOK', OwnershipInv, NEW t \in Tasks, TaskStep(t)
    PROVE  StepKept
<1>1. CASE AbortWait(t) \/ CancelWait(t) \/ Timeout(t)
  BY <1>1, AbandonKept DEF AbortWait, CancelWait, Timeout
<1>2. CASE ~(AbortWait(t) \/ CancelWait(t) \/ Timeout(t))
  BY <1>2, DrainOneKept, AcquireKept, PollFailsKept, PollCompletedKept,
     PollPendingKept, ScanUnfitKept, ScanNeedsPingKept, ScanFitKept,
     ScanExhaustedKept, ReleaseKept, DropFromPoolKept, DropGuardKept
     DEF TaskStep
<1>3. QED
  BY <1>1, <1>2

-----------------------------------------------------------------------------
(* The actions of the reaper. *)

\* ReaperTop keeps the invariant.
LEMMA ReaperTopKept ==
    ASSUME TypeOK, TypeOK', OwnershipInv, ReaperTop
    PROVE  StepKept
<1>1. PoolType(pool) /\ Tidy(pool)
  BY PoolBefore
<1>2. /\ Commit(GetNextRequest(pool)) \/ Commit(pool)
      /\ UNCHANGED <<pc, lease, held, fresh, drops, alive>>
  BY DEF ReaperTop, taskVars
<1>3. Rehomes(pool, GetNextRequest(pool), {}) /\ Rehomes(pool, pool, {})
  BY <1>1, GetNextRehomes, SignalsRehome
<1>4. SameRoles
  BY <1>2, RolesSame
<1>5. CASE Commit(pool)
  BY <1>2, <1>3, <1>4, <1>5, QuietCommit
<1>6. CASE Commit(GetNextRequest(pool))
  BY <1>2, <1>3, <1>4, <1>6, QuietCommit
<1>7. QED
  BY <1>2, <1>5, <1>6

\* A section of the reaper that leaves the pool as it is.
LEMMA IdleKept ==
    ASSUME TypeOK, TypeOK', OwnershipInv, pool' = pool, SameRoles,
           UNCHANGED <<held, fresh, drops, alive>>
    PROVE  StepKept
<1>1. Rehomes(pool, pool', {})
  BY PoolBefore, SignalsRehome
<1>2. Allocates(pool')
  BY DEF OwnershipInv
<1>3. QED
  BY <1>1, <1>2, QuietStep

\* Taking the next connection id changes no list, and no list has that id.
LEMMA NextIdFresh ==
    ASSUME NEW s, PoolType(s), Tidy(s)
    PROVE  LET n == [s EXCEPT !.next_conn_id = @ + 1]
           IN /\ Rehomes(s, n, {}) /\ Placed(n) = Placed(s)
              /\ Planned(n) = Planned(s) /\ n.next_conn_id = s.next_conn_id + 1
              /\ s.next_conn_id \notin Placed(s) \cup Planned(s)
<1> DEFINE n == [s EXCEPT !.next_conn_id = @ + 1]
<1>1. s.next_conn_id \in Nat /\ Placed(s) \subseteq Nat /\ Planned(s) \subseteq Nat
  BY IdNumbers DEF ConnIds
<1>2. /\ n.free_new = s.free_new /\ n.free_used = s.free_used
      /\ n.busy = s.busy /\ n.to_drop = s.to_drop
      /\ n.requests = s.requests /\ n.open_effects = s.open_effects
      /\ n.next_conn_id = s.next_conn_id + 1 /\ n.open = s.open
  BY DEF PoolType, PoolStates
<1> HIDE DEF n
<1>3. Placed(n) = Placed(s) /\ Planned(n) = Planned(s)
  BY <1>2 DEF Placed, Planned
<1>4. \A x \in Placed(s) \cup Planned(s) : x < s.next_conn_id
  BY DEF Tidy
<1>5. \A x \in Placed(n) \cup Planned(n) : x < n.next_conn_id
  BY <1>1, <1>2, <1>3, <1>4
<1>6. Tidy(n)
  BY <1>2, <1>3, <1>5 DEF Tidy
<1>7. Within(s, n, {})
  BY <1>1, <1>2, <1>3 DEF Within
<1>8. s.next_conn_id \notin Placed(s) \cup Planned(s)
  BY <1>1, <1>4
<1>9. QED
  BY <1>2, <1>3, <1>6, <1>7, <1>8 DEF Rehomes, n

\* ReaperProcess keeps the invariant: the request's connection goes into the
\* reaper's hands, and a create gets an id that was never given out.
LEMMA ReaperProcessKept ==
    ASSUME TypeOK, TypeOK', OwnershipInv, NEW t \in Tasks, ReaperProcess(t)
    PROVE  StepKept
<1> DEFINE i == Position(t)
           r == Req(t)
           e == [r EXCEPT !.conn = {}]
           s == SetRequest(pool, i, e)
           n == [s EXCEPT !.next_conn_id = @ + 1]
           new == NewConn(pool.next_conn_id, r.cclass, r.is_extra)
<1>1. PoolType(pool) /\ Tidy(pool)
  BY PoolBefore
<1>2. UNCHANGED <<pc, lease, drops, alive>>
  BY DEF ReaperProcess, taskVars
<1>3. SameRoles
  BY <1>2, RolesSame
<1>4. \/ /\ HasRequest(pool, t) /\ Commit(s)
         /\ held' = r.conn /\ fresh' = fresh
      \/ /\ HasRequest(pool, t) /\ Commit(n)
         /\ held' = r.conn /\ fresh' = {new}
      \/ Commit(pool) /\ UNCHANGED <<held, fresh>>
  BY DEF ReaperProcess
<1>5. CASE Commit(pool) /\ UNCHANGED <<held, fresh>>
  BY <1>2, <1>3, <1>5, IdleKept DEF Commit
<1>6. ASSUME HasRequest(pool, t), held' = r.conn,
             \/ Commit(s) /\ fresh' = fresh
             \/ Commit(n) /\ fresh' = {new}
      PROVE  StepKept
  <2>1. i \in DOMAIN pool.requests /\ r \in Request /\ r = pool.requests[i]
    BY <1>6, PositionType DEF Req
  <2> HIDE DEF i, r
  <2>2. e \in Request /\ e.conn = {}
    BY <2>1 DEF Request, Option
  <2> HIDE DEF e
  <2>3. /\ Rehomes(pool, s, Ids(e.conn)) /\ PoolType(s)
        /\ \A c \in pool.requests[i].conn : c.id \in Placed(pool) /\ Lacks(s, c.id)
    BY <1>1, <2>1, <2>2, PutRequest, SetRequestType
  <2>4. Ids(e.conn) = {}
    BY <2>2, EmptyIds
  <2>5. \A x \in Ids(held') : x \in Placed(pool) /\ Lacks(s, x)
    BY <1>6, <2>1, <2>3 DEF Ids
  <2>6. s.next_conn_id = pool.next_conn_id
    BY <1>1 DEF SetRequest, PoolType, PoolStates
  <2> HIDE DEF s
  <2>7. Rehomes(pool, s, {})
    BY <2>3, <2>4
  <2>8. /\ Tidy(s) /\ Within(pool, s, {})
        /\ s.busy = pool.busy /\ s.open = pool.open
    BY <2>7 DEF Rehomes
  <2>9. ReaperApart /\ SessionsKnown /\ GuardsApart /\ BusyIsLent
    BY DEF OwnershipInv
  <2>10. ASSUME NEW v, pool' = v, Allocates(v), PoolType(v), Tidy(v),
                Placed(v) = Placed(s),
                v.busy = pool.busy, v.open = pool.open,
                \A x \in Ids(held') \cup Ids(fresh') : Lacks(v, x),
                Ids(held') \cap Ids(fresh') = {},
                \A x \in alive \cup Leases :
                   x < v.next_conn_id /\ x \notin Planned(v) \cup Ids(fresh')
         PROVE  StepKept
    <3>1. ReaperApart'
      <4>1. \A x \in Ids(held') \cup Ids(fresh') : Lacks(pool', x)
        BY <2>10
      <4>2. QED
        BY <2>10, <4>1
           DEF ReaperApart, Lacks, Placed, Planned, SeqIds, ReqIds, Ids, ToSet
    <3>2. Placed(v) \cup Ids(held') \subseteq alive
      BY <2>5, <2>8, <2>9, <2>10 DEF Within, SessionsKnown
    <3>3. Leases' = Leases
      BY <1>3, RolesKept
    <3>4. SessionsKnown'
      BY <1>2, <2>10, <3>2, <3>3
         DEF SessionsKnown, Placed, Planned, SeqIds, ReqIds, Ids, ToSet
    <3>5. GuardsApart' /\ BusyIsLent'
      BY <1>2, <1>3, <2>9, <2>10, GuardsKept
    <3>6. ContractStep
      BY <1>2, <1>3, <2>10, ContractStutter
    <3>7. QED
      BY <2>10, <3>1, <3>4, <3>5, <3>6, InvNext DEF StepKept
  <2>11. /\ \A x \in alive \cup Leases :
              x \in Nat /\ x < pool.next_conn_id
                /\ x \notin Planned(pool) \cup Ids(fresh)
         /\ pool.next_conn_id \in Nat /\ Placed(pool) \subseteq Nat
    BY <1>1, <2>9, EngineTypes, IdNumbers DEF SessionsKnown, ConnIds
  <2>12. \A x \in alive \cup Leases : x \notin Planned(s)
    BY <2>8, <2>11 DEF Within
  <2>13. CASE Commit(s) /\ fresh' = fresh
    <3>1. pool' = s /\ Allocates(s)
      BY <2>13 DEF Commit
    <3>2. Ids(fresh) \subseteq ConnIds
      BY EngineTypes, IdsType
    <3>3. \A x \in Ids(fresh) : Lacks(pool, x)
      BY <2>9 DEF ReaperApart
    <3>4. \A x \in Ids(fresh) : Lacks(s, x)
      BY <1>1, <2>3, <2>8, <3>2, <3>3, LacksKept
    <3>5. Ids(held') \cap Ids(fresh) = {}
      BY <2>5, <3>3 DEF Lacks
    <3>6. QED
      BY <2>3, <2>5, <2>6, <2>8, <2>10, <2>11, <2>12, <2>13, <3>1, <3>4, <3>5
  <2>14. CASE Commit(n) /\ fresh' = {new}
    <3>1. pool' = n /\ Allocates(n)
      BY <2>14 DEF Commit
    <3>2. new.id = pool.next_conn_id
      BY DEF NewConn
    <3>3. Ids(fresh') = {pool.next_conn_id}
      BY <2>14, <3>2 DEF Ids
    <3>4. /\ PoolType(n) /\ Rehomes(s, n, {}) /\ Placed(n) = Placed(s)
          /\ Planned(n) = Planned(s) /\ n.next_conn_id = s.next_conn_id + 1
          /\ s.next_conn_id \notin Placed(s) \cup Planned(s)
      BY <2>3, <2>8, NextIdFresh, NextIdType
    <3> HIDE DEF n, new
    <3>5. Tidy(n) /\ n.busy = pool.busy /\ n.open = pool.open
      BY <2>8, <3>4 DEF Rehomes
    <3>6. \A x \in Ids(held') : x < pool.next_conn_id /\ x \in Nat
      BY <1>1, <2>5, <2>11 DEF Tidy
    <3>7. \A x \in Ids(held') \cup Ids(fresh') : Lacks(n, x)
      <4>1. ASSUME NEW x \in Ids(held') PROVE Lacks(n, x)
        BY <2>5, <2>6, <2>11, <3>4, <3>6 DEF Lacks
      <4>2. Lacks(n, pool.next_conn_id)
        BY <2>6, <2>11, <3>4 DEF Lacks
      <4>3. QED
        BY <3>3, <4>1, <4>2
    <3>8. Ids(held') \cap Ids(fresh') = {}
      BY <2>11, <3>3, <3>6
    <3>9. \A x \in alive \cup Leases :
            x < n.next_conn_id /\ x \notin Planned(n) \cup Ids(fresh')
      BY <2>6, <2>11, <2>12, <3>3, <3>4
    <3>10. QED
      BY <2>10, <3>1, <3>4, <3>5, <3>7, <3>8, <3>9
  <2>15. QED
    BY <1>6, <2>13, <2>14
<1>7. QED
  BY <1>4, <1>5, <1>6

\* ReaperPing keeps the invariant: what the reaper held returns to its request,
\* or its session is closed, or the request is gone and so is the connection.
LEMMA ReaperPingKept ==
    ASSUME TypeOK, TypeOK', OwnershipInv, NEW t \in Tasks,
           NEW healthy \in BOOLEAN, ReaperPing(t, healthy)
    PROVE  StepKept
<1> DEFINE i == Position(t)
           e == [Req(t) EXCEPT !.conn = held]
           s == SetRequest(pool, i, e)
<1>1. PoolType(pool) /\ Tidy(pool) /\ held \in Option(PooledConn)
  BY PoolBefore, EngineTypes
<1>2. UNCHANGED <<pc, lease, drops, fresh>> /\ held' = {}
  BY DEF ReaperPing, taskVars
<1>3. SameRoles
  BY <1>2, RolesSame
<1>4. Leases' = Leases
  BY <1>3, RolesKept
<1>5. ReaperApart /\ SessionsKnown /\ GuardsApart /\ BusyIsLent
  BY DEF OwnershipInv
<1>6. Ids(held') = {}
  BY <1>2, EmptyIds
<1>7. \/ Commit(pool) /\ alive' = alive
      \/ HasRequest(pool, t) /\ Commit(s) /\ alive' = alive
      \/ Commit(pool) /\ alive' = alive \ Ids(held)
  BY DEF ReaperPing
<1>8. CASE Commit(pool) /\ (alive' = alive \/ alive' = alive \ Ids(held))
  <2>1. pool' = pool /\ Allocates(pool')
    BY <1>8 DEF Commit
  <2>2. Within(pool, pool', {}) /\ Tidy(pool')
    BY <1>1, <2>1, SignalsRehome DEF Rehomes
  <2>3. \A x \in Ids(held) : x \notin Placed(pool)
    BY <1>5 DEF ReaperApart, Lacks
  <2>4. Placed(pool') \cup Ids(held') \subseteq alive'
    BY <1>5, <1>6, <1>8, <2>1, <2>3 DEF SessionsKnown
  <2>5. ReaperApart' /\ SessionsKnown'
    BY <1>2, <1>4, <1>5, <1>6, <1>8, <2>2, <2>4, PlacesStep
  <2>6. GuardsApart' /\ BusyIsLent'
    BY <1>2, <1>3, <1>5, <2>1, GuardsKept
  <2>7. ContractStep
    <3>1. CASE alive' = alive
      BY <1>3, <2>1, <3>1, ContractStutter
    <3>2. CASE alive' = alive \ Ids(held)
      <4>1. Ids(held) \subseteq alive
        BY <1>5 DEF SessionsKnown
      <4>2. pool.open => Leases \subseteq Placed(pool)
        BY <1>5 DEF BusyIsLent, Placed
      <4>3. ~pool.open \/ Ids(held) \cap Leases = {}
        BY <2>3, <4>2
      <4>4. QED
        BY <1>3, <2>1, <3>2, <4>1, <4>3, ContractCloses
    <3>3. QED
      BY <1>8, <3>1, <3>2
  <2>8. QED
    BY <2>1, <2>2, <2>5, <2>6, <2>7, InvNext DEF StepKept
<1>9. CASE HasRequest(pool, t) /\ Commit(s) /\ alive' = alive
  <2>1. i \in DOMAIN pool.requests /\ Req(t) \in Request
    BY <1>9, PositionType
  <2>2. e \in Request /\ e.conn = held
    BY <1>1, <2>1 DEF Request
  <2> HIDE DEF e, i
  <2>3. \A c \in e.conn : Lacks(pool, c.id)
    BY <1>5, <2>2 DEF ReaperApart, Ids
  <2>4. Rehomes(pool, s, Ids(e.conn))
    BY <1>1, <2>1, <2>2, <2>3, PutRequest
  <2>5. pool' = s /\ Allocates(pool')
    BY <1>9 DEF Commit
  <2> HIDE DEF s
  <2>6. Rehomes(pool, pool', Ids(held))
    BY <2>2, <2>4, <2>5
  <2>7. /\ Within(pool, pool', Ids(held)) /\ Tidy(pool')
        /\ pool'.busy = pool.busy /\ pool'.open = pool.open
    BY <2>6 DEF Rehomes
  <2>8. Placed(pool') \cup Ids(held') \subseteq alive'
    BY <1>5, <1>6, <1>9, <2>7 DEF Within, SessionsKnown
  <2>9. Ids(held) \cap (Ids(held') \cup Ids(fresh')) = {}
    BY <1>2, <1>5, <1>6 DEF ReaperApart
  <2>10. ReaperApart' /\ SessionsKnown'
    BY <1>2, <1>4, <1>5, <1>6, <1>9, <2>7, <2>8, <2>9, PlacesStep
  <2>11. GuardsApart' /\ BusyIsLent'
    BY <1>2, <1>3, <1>5, <2>7, GuardsKept
  <2>12. ContractStep
    BY <1>3, <1>9, <2>7, ContractStutter
  <2>13. QED
    BY <2>5, <2>7, <2>10, <2>11, <2>12, InvNext DEF StepKept
<1>10. QED
  BY <1>7, <1>8, <1>9

\* The connection that was created opens as a session of the contract, and what
\* the reaper held or created is in the lists afterwards.
LEMMA CreatedStep ==
    ASSUME TypeOK, TypeOK', OwnershipInv, Allocates(pool'),
           NEW X, Rehomes(pool, pool', X), SameRoles, drops' = drops,
           fresh' = {}, X \subseteq alive', Ids(held') \subseteq Ids(held),
           X \cap Ids(held') = {},
           \/ alive' = alive
           \/ fresh # {} /\ alive' = alive \cup Ids(fresh)
    PROVE  StepKept
<1>1. /\ Within(pool, pool', X) /\ Tidy(pool')
      /\ pool'.busy = pool.busy /\ pool'.open = pool.open
  BY DEF Rehomes
<1>2. ReaperApart /\ SessionsKnown /\ GuardsApart /\ BusyIsLent
  BY DEF OwnershipInv
<1>3. Leases' = Leases
  BY RolesKept
<1>4. Ids(fresh') = {}
  BY EmptyIds
<1>5. Placed(pool') \cup Ids(held') \subseteq alive'
  BY <1>1, <1>2, <1>4 DEF Within, SessionsKnown
<1>6. ReaperApart' /\ SessionsKnown'
  BY <1>1, <1>2, <1>3, <1>4, <1>5, PlacesStep
<1>7. GuardsApart' /\ BusyIsLent'
  BY <1>1, <1>2, GuardsKept
<1>8. CASE alive' = alive
  <2>1. ContractStep
    BY <1>1, <1>8, ContractStutter
  <2>2. QED
    BY <1>1, <1>6, <1>7, <2>1, InvNext DEF StepKept
<1>9. CASE fresh # {} /\ alive' = alive \cup Ids(fresh)
  <2>1. PICK c \in fresh : TRUE
    BY <1>9
  <2>2. \A x \in fresh : x = c
    BY <2>1, EngineTypes DEF Option
  <2>3. Ids(fresh) = {c.id} /\ c.id \in ConnIds
    BY <2>1, <2>2, EngineTypes DEF Ids, PooledConn
  <2>4. c.id < pool.next_conn_id /\ c.id \notin alive \cup Leases
    BY <1>2, <2>3 DEF ReaperApart, Lacks, SessionsKnown
  <2>5. pool.next_conn_id <= MaxConnId + 1 /\ pool.next_conn_id \in Nat
    BY PoolBefore, IdNumbers DEF OwnershipInv, Allocates, ConnIds
  <2>6. c.id \in 1..MaxConnId
    BY <2>3, <2>4, <2>5, EngineAssumption DEF ConnIds
  <2>7. ContractStep
    BY <1>1, <1>9, <2>3, <2>4, <2>6, ContractOpens
  <2>8. QED
    BY <1>1, <1>6, <1>7, <2>7, InvNext DEF StepKept
<1>10. QED
  BY <1>8, <1>9

\* ReaperOpen keeps the invariant: a connection of pool growth is filed.
LEMMA ReaperOpenKept ==
    ASSUME TypeOK, TypeOK', OwnershipInv, NEW ok \in BOOLEAN, ReaperOpen(ok)
    PROVE  StepKept
<1>1. PoolType(pool) /\ Tidy(pool) /\ ReaperApart
  BY PoolBefore DEF OwnershipInv
<1>2. PICK c \in fresh : Commit(IF ok THEN PostCreateConn(pool, c)
                                ELSE PostCreateFailed(pool, c.id))
  BY DEF ReaperOpen
<1>3. c \in PooledConn /\ Lacks(pool, c.id) /\ c.id \in Ids(fresh)
  BY <1>1, EngineTypes DEF ReaperApart, Ids
<1>4. /\ UNCHANGED <<pc, lease, drops, held>> /\ fresh' = {}
      /\ alive' = IF ok THEN alive \cup Ids(fresh) ELSE alive
  BY DEF ReaperOpen, taskVars
<1>5. SameRoles
  BY <1>4, RolesSame
<1>6. Allocates(pool') /\ pool' = IF ok THEN PostCreateConn(pool, c)
                                  ELSE PostCreateFailed(pool, c.id)
  BY <1>2 DEF Commit
<1>7. /\ Rehomes(pool, PostCreateConn(pool, c), {c.id})
      /\ Rehomes(pool, PostCreateFailed(pool, c.id), {})
  BY <1>1, <1>3, PostCreateConnRehomes, PostCreateFailedRehomes
<1>8. CASE ok
  <2>1. {c.id} \cap Ids(held') = {}
    BY <1>1, <1>3, <1>4 DEF ReaperApart
  <2>2. {c.id} \subseteq alive' /\ fresh # {}
    BY <1>2, <1>3, <1>4, <1>8
  <2>3. QED
    BY <1>4, <1>5, <1>6, <1>7, <1>8, <2>1, <2>2, CreatedStep
<1>9. CASE ~ok
  BY <1>4, <1>5, <1>6, <1>7, <1>9, CreatedStep
<1>10. QED
  BY <1>8, <1>9

\* ReaperCreate keeps the invariant: the replaced connection goes to the close
\* queue, the new one to its request or, if that is gone, to the close queue.
LEMMA ReaperCreateKept ==
    ASSUME TypeOK, TypeOK', OwnershipInv, NEW t \in Tasks, NEW ok \in BOOLEAN,
           ReaperCreate(t, ok)
    PROVE  StepKept
<1> DEFINE s == Retired(pool, held)
           i == RequestPosition(s, t)
           e == [s.requests[i] EXCEPT !.conn = fresh]
           f == [s.requests[i] EXCEPT !.error = TRUE]
           loose == {NotExtra(c) : c \in fresh}
           q == [s EXCEPT !.to_drop = @ \cup loose]
           H == Ids(held)
           F == Ids(fresh)
<1>1. /\ PoolType(pool) /\ Tidy(pool)
      /\ held \in Option(PooledConn) /\ fresh \in Option(PooledConn)
      /\ fresh \subseteq PooledConn
  BY PoolBefore, EngineTypes
<1>2. ReaperApart /\ SessionsKnown
  BY DEF OwnershipInv
<1>3. /\ PoolType(s) /\ Rehomes(pool, s, H)
  BY <1>1, <1>2, RetiredType, RetiredRehomes DEF ReaperApart
<1>4. Commit(CASE HasRequest(s, t) /\ ok -> SetRequest(s, i, e)
               [] HasRequest(s, t) /\ ~ok -> SetRequest(s, i, f)
               [] ~HasRequest(s, t) /\ ok -> NotifyBg(q)
               [] OTHER -> s)
  BY DEF ReaperCreate
<1>5. /\ UNCHANGED <<pc, lease, drops>> /\ held' = {} /\ fresh' = {}
      /\ alive' = IF ok THEN alive \cup Ids(fresh) ELSE alive
  BY DEF ReaperCreate, taskVars
<1>6. SameRoles
  BY <1>5, RolesSame
<1> HIDE DEF s
<1>7. \A c \in fresh : Lacks(s, c.id)
  <2>1. Within(pool, s, H)
    BY <1>3 DEF Rehomes
  <2>2. SUFFICES ASSUME NEW c \in fresh PROVE Lacks(s, c.id)
    OBVIOUS
  <2>3. c.id \in F /\ c.id \in ConnIds
    BY <1>1 DEF Ids, PooledConn
  <2>4. Lacks(pool, c.id) /\ c.id \notin H
    BY <1>2, <2>3 DEF ReaperApart
  <2>5. QED
    BY <1>1, <1>3, <2>1, <2>3, <2>4, LacksKept
<1>8. H \subseteq alive
  BY <1>2 DEF SessionsKnown
<1>9. Tidy(s)
  BY <1>3 DEF Rehomes
<1>10. ASSUME NEW v, Commit(v), PoolType(v), NEW Y, Rehomes(s, v, Y),
              Y \subseteq alive', Y \subseteq F
       PROVE  StepKept
  <2>1. Rehomes(pool, v, H \cup Y)
    BY <1>1, <1>3, <1>10, RehomesTwice
  <2>2. pool' = v /\ Allocates(v)
    BY <1>10 DEF Commit
  <2>3. H \cup Y \subseteq alive'
    BY <1>5, <1>8, <1>10
  <2>4. Ids(held') = {}
    BY <1>5, EmptyIds
  <2>5. fresh = {} => F = {}
    BY DEF Ids
  <2>6. \/ alive' = alive
        \/ fresh # {} /\ alive' = alive \cup F
    BY <1>5, <2>5
  <2> HIDE DEF F, H
  <2>7. QED
    BY <1>5, <1>6, <2>1, <2>2, <2>3, <2>4, <2>6, CreatedStep DEF F
<1>11. CASE HasRequest(s, t)
  <2>1. i \in DOMAIN s.requests
    BY <1>11, PositionIn
  <2> HIDE DEF i
  <2>2. s.requests[i] \in Request
    BY <1>3, <2>1, RequestIn
  <2>3. /\ e \in Request /\ e.conn = fresh
        /\ f \in Request /\ f.conn = s.requests[i].conn
    BY <1>1, <2>2 DEF Request
  <2> HIDE DEF e, f
  <2>4. Rehomes(s, SetRequest(s, i, e), Ids(e.conn)) /\ PoolType(SetRequest(s, i, e))
    BY <1>3, <1>7, <1>9, <2>1, <2>3, PutRequest, SetRequestType
  <2>5. Rehomes(s, SetRequest(s, i, f), {}) /\ PoolType(SetRequest(s, i, f))
    BY <1>3, <1>9, <2>1, <2>3, KeepRequest, SetRequestType
  <2>6. CASE ok
    <3>1. Commit(SetRequest(s, i, e))
      BY <1>4, <1>11, <2>6
    <3>2. Ids(e.conn) = F /\ F \subseteq alive'
      BY <1>5, <2>3, <2>6
    <3>3. QED
      BY <1>10, <2>4, <3>1, <3>2
  <2>7. CASE ~ok
    <3>1. Commit(SetRequest(s, i, f))
      BY <1>4, <1>11, <2>7
    <3>2. QED
      BY <1>10, <2>5, <3>1
  <2>8. QED
    BY <2>6, <2>7
<1>12. CASE ~HasRequest(s, t) /\ ok
  <2>1. Commit(NotifyBg(q))
    BY <1>4, <1>12
  <2>2. PoolType(q) /\ Rehomes(s, q, F)
    <3>1. CASE fresh = {}
      <4>1. loose = {} /\ F = {}
        BY <3>1 DEF Ids
      <4>2. q = s
        BY <1>3, <4>1 DEF PoolType, PoolStates
      <4>3. QED
        BY <1>3, <1>9, <4>1, <4>2, SignalsRehome
    <3>2. CASE fresh # {}
      <4>1. PICK c \in fresh : TRUE
        BY <3>2
      <4>2. c \in PooledConn /\ fresh = {c}
        BY <1>1, <4>1 DEF Option
      <4> DEFINE d == NotExtra(c)
      <4>3. d \in PooledConn /\ d.id = c.id
        BY <4>2, NotExtraId
      <4>4. loose = {d}
        BY <4>2
      <4> HIDE DEF d
      <4>5. F = {d.id} /\ Lacks(s, d.id)
        BY <1>7, <4>2, <4>3 DEF Ids
      <4>6. q = [s EXCEPT !.to_drop = s.to_drop \cup {d}]
        BY <4>4
      <4>7. Rehomes(s, q, {d.id})
        BY <1>3, <1>9, <4>3, <4>5, <4>6, PutDrop
      <4>8. PoolType(q)
        <5>1. s.to_drop \cup {d} \in SUBSET PooledConn
          BY <1>3, <4>3, Fields
        <5>2. QED
          BY <1>3, <4>6, <5>1, ToDropType
      <4>9. QED
        BY <4>5, <4>7, <4>8
    <3>3. QED
      BY <3>1, <3>2
  <2> HIDE DEF q
  <2>3. PoolType(NotifyBg(q)) /\ Rehomes(q, NotifyBg(q), {})
    BY <2>2, NotifyBgType, SignalsRehome DEF Rehomes
  <2>4. Rehomes(s, NotifyBg(q), F)
    BY <1>3, <2>2, <2>3, RehomesTwice
  <2>5. F \subseteq alive'
    BY <1>5, <1>12
  <2>6. QED
    BY <1>10, <2>1, <2>3, <2>4, <2>5
<1>13. CASE ~HasRequest(s, t) /\ ~ok
  <2>1. Commit(s)
    BY <1>4, <1>13
  <2>2. Rehomes(s, s, {})
    BY <1>3, <1>9, SignalsRehome
  <2>3. QED
    BY <1>3, <1>10, <2>1, <2>2
<1>14. QED
  BY <1>11, <1>12, <1>13

\* ReaperPost keeps the invariant.
LEMMA ReaperPostKept ==
    ASSUME TypeOK, TypeOK', OwnershipInv, NEW t \in Tasks, ReaperPost(t)
    PROVE  StepKept
<1> DEFINE s == PostProcessRequest(pool, t)
<1>1. PoolType(pool) /\ Tidy(pool)
  BY PoolBefore
<1>2. PoolType(s) /\ Rehomes(pool, s, {})
  BY <1>1, PostProcessRequestType, PostProcessRehomes
<1>3. /\ Commit(GetNextRequest(s))
      /\ UNCHANGED <<pc, lease, held, fresh, drops, alive>>
  BY DEF ReaperPost, taskVars
<1> HIDE DEF s
<1>4. PoolType(GetNextRequest(s)) /\ Rehomes(s, GetNextRequest(s), {})
  BY <1>2, GetNextRequestType, GetNextRehomes DEF Rehomes
<1>5. Rehomes(pool, GetNextRequest(s), {})
  BY <1>1, <1>2, <1>4, RehomesChain
<1>6. QED
  BY <1>3, <1>5, RolesSame, QuietCommit

\* ReaperEffect keeps the invariant: a planned id becomes the one being created.
LEMMA ReaperEffectKept ==
    ASSUME TypeOK, TypeOK', OwnershipInv, ReaperEffect
    PROVE  StepKept
<1>1. PoolType(pool) /\ Tidy(pool)
  BY PoolBefore
<1>2. UNCHANGED <<pc, lease, held, drops, alive>>
  BY DEF ReaperEffect, taskVars
<1>3. SameRoles
  BY <1>2, RolesSame
<1>4. CASE ~(pool.open /\ pool.open_effects # <<>>)
  <2>1. pool' = pool /\ fresh' = fresh
    BY <1>4 DEF ReaperEffect, Commit
  <2>2. QED
    BY <1>2, <1>3, <2>1, IdleKept
<1>5. CASE pool.open /\ pool.open_effects # <<>>
  <2> DEFINE id == Head(pool.open_effects)
             rest == Tail(pool.open_effects)
             s == [pool EXCEPT !.open_effects = rest,
                               !.in_flight = pool.in_flight \cup {id}]
  <2>1. pool' = s /\ Allocates(pool') /\ fresh' = {NewConn(id, PoolClass, FALSE)}
    BY <1>5 DEF ReaperEffect, Commit
  <2>2. Ids(fresh') = {id}
    BY <2>1 DEF Ids, NewConn
  <2>3. pool.open_effects \in Seq(ConnIds)
    BY <1>1, Fields
  <2>4. OneToOne(pool.open_effects)
    BY <1>1 DEF Tidy
  <2>5. /\ id \in Planned(pool) /\ ToSet(rest) = Planned(pool) \ {id}
        /\ OneToOne(rest)
    BY <1>5, <2>3, <2>4, TailDrop DEF Planned
  <2> HIDE DEF id, rest
  <2>6. /\ pool'.free_new = pool.free_new /\ pool'.free_used = pool.free_used
        /\ pool'.busy = pool.busy /\ pool'.to_drop = pool.to_drop
        /\ pool'.requests = pool.requests /\ pool'.open_effects = rest
        /\ pool'.next_conn_id = pool.next_conn_id /\ pool'.open = pool.open
    BY <1>1, <2>1 DEF PoolType, PoolStates
  <2> HIDE DEF s
  <2>7. Placed(pool') = Placed(pool) /\ Planned(pool') = Planned(pool) \ {id}
    BY <2>5, <2>6 DEF Placed, Planned
  <2>8. Tidy(pool')
    BY <1>1, <2>5, <2>6, <2>7 DEF Tidy, Apart
  <2>9. Lacks(pool', id) /\ id \notin Placed(pool)
    BY <1>1, <2>5, <2>6, <2>7 DEF Tidy, Apart, Lacks, Placed
  <2>10. ReaperApart /\ SessionsKnown /\ GuardsApart /\ BusyIsLent
    BY DEF OwnershipInv
  <2>11. \A x \in Ids(held) : Lacks(pool', x) /\ x # id
    BY <2>5, <2>6, <2>7, <2>10 DEF ReaperApart, Lacks
  <2>12. \A x \in Ids(held') \cup Ids(fresh') : Lacks(pool', x)
    BY <1>2, <2>2, <2>9, <2>11
  <2>13. Ids(held') \cap Ids(fresh') = {}
    BY <1>2, <2>2, <2>11
  <2>14. ReaperApart'
    BY <2>12, <2>13
       DEF ReaperApart, Lacks, Placed, Planned, SeqIds, ReqIds, Ids, ToSet
  <2>15. Leases' = Leases
    BY <1>3, RolesKept
  <2>16. /\ Placed(pool') \cup Ids(held') \subseteq alive'
         /\ \A x \in alive' \cup Leases' :
              /\ x < pool'.next_conn_id
              /\ x \notin Planned(pool') \cup Ids(fresh')
    BY <1>2, <2>2, <2>5, <2>6, <2>7, <2>10, <2>15 DEF SessionsKnown
  <2>17. SessionsKnown'
    BY <2>16 DEF SessionsKnown, Placed, Planned, SeqIds, ReqIds, Ids, ToSet
  <2>18. GuardsApart' /\ BusyIsLent'
    BY <1>2, <1>3, <2>6, <2>10, GuardsKept
  <2>19. ContractStep
    BY <1>2, <1>3, <2>6, ContractStutter
  <2>20. QED
    BY <2>1, <2>8, <2>14, <2>17, <2>18, <2>19, InvNext DEF StepKept
<1>6. QED
  BY <1>4, <1>5

\* A connection leaves the close queue.
LEMMA TakeDropped ==
    ASSUME NEW s, PoolType(s), Tidy(s), NEW c \in s.to_drop
    PROVE  LET s2 == [s EXCEPT !.to_drop = @ \ {c}]
           IN /\ Rehomes(s, s2, {}) /\ Placed(s2) = Placed(s) \ {c.id}
              /\ c.id \in Placed(s) /\ c.id \notin Ids(s.busy)
<1> DEFINE d == s.to_drop \ {c}
           s2 == [s EXCEPT !.to_drop = @ \ {c}]
<1>1. UniqueIds(s.to_drop)
  BY DEF Tidy
<1>2. Ids(d) = Ids(s.to_drop) \ {c.id} /\ UniqueIds(d) /\ c.id \in Ids(s.to_drop)
  BY <1>1 DEF UniqueIds, Ids
<1>3. /\ s2.free_new = s.free_new /\ s2.free_used = s.free_used
      /\ s2.busy = s.busy /\ s2.to_drop = d
      /\ s2.requests = s.requests /\ s2.open_effects = s.open_effects
      /\ s2.next_conn_id = s.next_conn_id /\ s2.open = s.open
  BY DEF PoolType, PoolStates
<1> HIDE DEF d, s2
<1>4. Apart(SeqIds(s.free_new), SeqIds(s.free_used), Ids(s.busy),
            Ids(s.to_drop), ReqIds(s.requests), Planned(s))
  BY DEF Tidy
<1>5. /\ Placed(s2) = Placed(s) \ {c.id} /\ Planned(s2) = Planned(s)
      /\ c.id \in Placed(s) /\ c.id \notin Ids(s.busy)
  BY <1>2, <1>3, <1>4 DEF Placed, Planned, Apart
<1>6. Tidy(s2)
  BY <1>2, <1>3, <1>5 DEF Tidy, Apart
<1>7. Within(s, s2, {})
  BY <1>3, <1>5, IdNumbers DEF Within, ConnIds
<1>8. QED
  BY <1>3, <1>5, <1>6, <1>7 DEF Rehomes, s2

\* ReaperDrop keeps the invariant: a queued connection has no guard.
LEMMA ReaperDropKept ==
    ASSUME TypeOK, TypeOK', OwnershipInv, ReaperDrop
    PROVE  StepKept
<1>1. PoolType(pool) /\ Tidy(pool)
  BY PoolBefore
<1>2. UNCHANGED <<pc, lease, held, fresh, drops>>
  BY DEF ReaperDrop, taskVars
<1>3. SameRoles
  BY <1>2, RolesSame
<1>4. CASE Commit(pool) /\ alive' = alive
  BY <1>2, <1>3, <1>4, IdleKept DEF Commit
<1>5. ASSUME NEW c \in pool.to_drop, Commit([pool EXCEPT !.to_drop = @ \ {c}]),
             alive' = alive \ {c.id}
      PROVE  StepKept
  <2> DEFINE s == [pool EXCEPT !.to_drop = @ \ {c}]
  <2>1. /\ Rehomes(pool, s, {}) /\ Placed(s) = Placed(pool) \ {c.id}
        /\ c.id \in Placed(pool) /\ c.id \notin Ids(pool.busy)
    BY <1>1, TakeDropped
  <2>2. pool' = s /\ Allocates(pool')
    BY <1>5 DEF Commit
  <2> HIDE DEF s
  <2>3. /\ Tidy(pool') /\ Within(pool, pool', {})
        /\ pool'.busy = pool.busy /\ pool'.open = pool.open
    BY <2>1, <2>2 DEF Rehomes
  <2>4. ReaperApart /\ SessionsKnown /\ GuardsApart /\ BusyIsLent
    BY DEF OwnershipInv
  <2>5. c.id \notin Ids(held)
    BY <2>1, <2>4 DEF ReaperApart, Lacks
  <2>6. Placed(pool') \cup Ids(held') \subseteq alive'
    BY <1>2, <1>5, <2>1, <2>2, <2>4, <2>5 DEF SessionsKnown
  <2>7. Leases' = Leases
    BY <1>3, RolesKept
  <2>8. ReaperApart' /\ SessionsKnown'
    BY <1>2, <1>5, <2>3, <2>4, <2>6, <2>7, PlacesStep
  <2>9. GuardsApart' /\ BusyIsLent'
    BY <1>2, <1>3, <2>3, <2>4, GuardsKept
  <2>10. ContractStep
    <3>1. {c.id} \subseteq alive
      BY <2>1, <2>4 DEF SessionsKnown
    <3>2. ~pool.open \/ {c.id} \cap Leases = {}
      BY <2>1, <2>4 DEF BusyIsLent
    <3>3. QED
      BY <1>3, <1>5, <2>3, <3>1, <3>2, ContractCloses
  <2>11. QED
    BY <2>2, <2>3, <2>8, <2>9, <2>10, InvNext DEF StepKept
<1>6. \/ Commit(pool) /\ alive' = alive
      \/ \E c \in pool.to_drop : /\ Commit([pool EXCEPT !.to_drop = @ \ {c}])
                                 /\ alive' = alive \ {c.id}
  BY DEF ReaperDrop
<1>7. QED
  BY <1>4, <1>5, <1>6

\* ReaperSweep keeps the invariant: an idle connection goes to the close queue.
LEMMA ReaperSweepKept ==
    ASSUME TypeOK, TypeOK', OwnershipInv, NEW list \in {"free_new", "free_used"},
           ReaperSweep(list)
    PROVE  StepKept
<1> DEFINE s == [pool EXCEPT ![list] = Tail(@)]
           c == Head(pool[list])
<1>1. PoolType(pool) /\ Tidy(pool)
  BY PoolBefore
<1>2. /\ Continue(Reaper, DropConn(s, c)) /\ pool[list] # <<>>
      /\ UNCHANGED <<pc, lease, held, fresh, drops, alive>>
  BY DEF ReaperSweep, taskVars, reaperVars
<1>3. /\ PoolType(s) /\ c \in PooledConn
      /\ Rehomes(pool, s, {}) /\ c.id \in Placed(pool) /\ Lacks(s, c.id)
  <2>1. CASE list = "free_new"
    <3> DEFINE q == Tail(pool.free_new)
    <3>1. pool.free_new \in Seq(PooledConn) /\ pool.free_new # <<>>
      BY <1>1, <1>2, <2>1, Fields
    <3>2. /\ q \in Seq(PooledConn) /\ c \in PooledConn
          /\ 1 \in DOMAIN pool.free_new /\ c = pool.free_new[1]
          /\ DrawnWithout(q, pool.free_new, 1)
      BY <2>1, <3>1, TailDraws
    <3> HIDE DEF q, c
    <3>3. s = [pool EXCEPT !.free_new = q]
      BY <2>1 DEF q
    <3>4. QED
      BY <1>1, <3>2, <3>3, TakeNew, FreeListsType, Fields
  <2>2. CASE list = "free_used"
    <3> DEFINE q == Tail(pool.free_used)
    <3>1. pool.free_used \in Seq(PooledConn) /\ pool.free_used # <<>>
      BY <1>1, <1>2, <2>2, Fields
    <3>2. /\ q \in Seq(PooledConn) /\ c \in PooledConn
          /\ 1 \in DOMAIN pool.free_used /\ c = pool.free_used[1]
          /\ DrawnWithout(q, pool.free_used, 1)
      BY <2>2, <3>1, TailDraws
    <3> HIDE DEF q, c
    <3>3. s = [pool EXCEPT !.free_used = q]
      BY <2>2 DEF q
    <3>4. QED
      BY <1>1, <3>2, <3>3, TakeUsed, FreeListsType, Fields
  <2>3. QED
    BY <2>1, <2>2
<1> HIDE DEF s, c
<1>4. PoolType(DropConn(s, c)) /\ Rehomes(s, DropConn(s, c), {c.id})
  BY <1>3, DropConnType, DropConnRehomes DEF Rehomes
<1>5. Rehomes(pool, DropConn(s, c), {})
  BY <1>1, <1>3, <1>4, RehomesTwice
<1>6. QED
  BY <1>2, <1>5, RolesSame, QuietCommit

\* ReaperRest, ReaperWake and ReaperTick keep the invariant.
LEMMA ReaperRestKept ==
    ASSUME TypeOK, TypeOK', OwnershipInv, ReaperRest \/ ReaperWake \/ ReaperTick
    PROVE  StepKept
<1>1. UNCHANGED <<pc, lease, held, fresh, drops, alive>>
  BY DEF ReaperRest, ReaperWake, ReaperTick, taskVars
<1>2. SameRoles
  BY <1>1, RolesSame
<1>3. CASE pool' = pool
  BY <1>1, <1>2, <1>3, IdleKept
<1>4. CASE pool' = [pool EXCEPT !.bg = FALSE]
  <2>1. PoolType(pool) /\ Tidy(pool)
    BY PoolBefore
  <2>2. /\ pool'.free_new = pool.free_new /\ pool'.free_used = pool.free_used
        /\ pool'.busy = pool.busy /\ pool'.to_drop = pool.to_drop
        /\ pool'.requests = pool.requests
        /\ pool'.open_effects = pool.open_effects
        /\ pool'.next_conn_id = pool.next_conn_id /\ pool'.open = pool.open
    BY <1>4, <2>1 DEF PoolType, PoolStates
  <2>3. Rehomes(pool, pool', {})
    BY <2>1, <2>2, SamePlaces
  <2>4. Allocates(pool')
    BY <2>2 DEF OwnershipInv, Allocates
  <2>5. QED
    BY <1>1, <1>2, <2>3, <2>4, QuietStep
<1>5. QED
  BY <1>3, <1>4 DEF ReaperRest, ReaperWake, ReaperTick, Commit

\* Everything the pool owns is closed at once, and the pool with it.
LEMMA ClosedStep ==
    ASSUME TypeOK, TypeOK', OwnershipInv, Allocates(pool'), Tidy(pool'),
           Within(pool, pool', {}), ~pool'.open, SameRoles,
           UNCHANGED <<held, fresh, drops>>,
           \/ Placed(pool') = {} /\ alive' = alive \ Placed(pool)
           \/ pool.open /\ alive' = alive
    PROVE  StepKept
<1>1. ReaperApart /\ SessionsKnown /\ GuardsApart /\ BusyIsLent
  BY DEF OwnershipInv
<1>2. Leases' = Leases
  BY RolesKept
<1>3. \A x \in Ids(held) : x \notin Placed(pool)
  BY <1>1 DEF ReaperApart, Lacks
<1>4. Placed(pool') \cup Ids(held') \subseteq alive'
  BY <1>1, <1>3 DEF SessionsKnown, Within
<1>5. ReaperApart' /\ SessionsKnown'
  BY <1>1, <1>2, <1>4, PlacesStep
<1>6. GuardsApart' /\ BusyIsLent'
  BY <1>1, GuardsKept
<1>7. PICK S \in SUBSET alive : alive' = alive \ S
  <2>1. Placed(pool) \in SUBSET alive
    BY <1>1 DEF SessionsKnown
  <2>2. CASE alive' = alive \ Placed(pool)
    BY <2>1, <2>2
  <2>3. CASE alive' = alive
    <3>1. {} \in SUBSET alive /\ alive' = alive \ {}
      BY <2>3
    <3>2. QED
      BY <3>1
  <2>4. QED
    BY <2>2, <2>3
<1>8. ContractStep
  <2>1. CASE pool.open
    BY <1>7, <2>1, ContractShuts
  <2>2. CASE ~pool.open
    <3>1. pool.open = FALSE /\ pool'.open = FALSE
      BY <2>2, EngineTypes, EngineTypesNext
    <3>2. QED
      BY <1>7, <3>1, ContractCloses
  <2>3. QED
    BY <2>1, <2>2
<1>9. QED
  BY <1>5, <1>6, <1>8, InvNext DEF StepKept

\* ReaperGone and LastHandle keep the invariant.
LEMMA ReleasedKept ==
    ASSUME TypeOK, TypeOK', OwnershipInv, ReaperGone \/ LastHandle
    PROVE  StepKept
<1> DEFINE s == CloseAll(pool)
<1>1. PoolType(pool) /\ Tidy(pool)
  BY PoolBefore
<1>2. /\ Commit(s) \/ Commit(NotifyBg(s))
      /\ alive' = alive \ Ids(OwnedConns(pool))
      /\ UNCHANGED <<pc, lease, held, fresh, drops>>
  BY DEF ReaperGone, LastHandle, taskVars, reaperVars
<1>3. SameRoles
  BY <1>2, RolesSame
<1>4. alive' = alive \ Placed(pool)
  BY <1>2, OwnedIds
<1>5. /\ Tidy(s) /\ Within(pool, s, {}) /\ ~s.open /\ Placed(s) = {}
      /\ PoolType(s)
  BY <1>1, CloseAllMoves, CloseAllType
<1> HIDE DEF s
<1>6. /\ Rehomes(s, NotifyBg(s), {}) /\ PoolType(NotifyBg(s))
  BY <1>5, SignalsRehome, NotifyBgType
<1>7. ASSUME NEW v, Commit(v), PoolType(v), Rehomes(s, v, {})
      PROVE  StepKept
  <2>1. pool' = v /\ Allocates(v)
    BY <1>7 DEF Commit
  <2>2. Tidy(v) /\ Within(s, v, {}) /\ ~v.open /\ Placed(v) = {}
    BY <1>5, <1>7 DEF Rehomes, Within
  <2>3. /\ pool.next_conn_id \in Nat /\ s.next_conn_id \in Nat
        /\ v.next_conn_id \in Nat /\ Planned(v) \subseteq Nat
    BY <1>1, <1>5, <1>7, IdNumbers DEF ConnIds
  <2>4. Within(pool, v, {})
    BY <1>5, <2>2, <2>3 DEF Within
  <2>5. QED
    BY <1>2, <1>3, <1>4, <2>1, <2>2, <2>4, ClosedStep
<1>8. CASE Commit(s)
  <2>1. Rehomes(s, s, {})
    BY <1>5, SignalsRehome
  <2>2. QED
    BY <1>5, <1>7, <1>8, <2>1
<1>9. CASE Commit(NotifyBg(s))
  BY <1>6, <1>7, <1>9
<1>10. QED
  BY <1>2, <1>8, <1>9

\* Every step of the reaper keeps the invariant.
LEMMA ReaperStepKept ==
    ASSUME TypeOK, TypeOK', OwnershipInv, ReaperStep
    PROVE  StepKept
<1>1. CASE \E t \in Tasks : \/ ReaperProcess(t)
                            \/ \E b \in BOOLEAN : ReaperPing(t, b)
                            \/ \E b \in BOOLEAN : ReaperCreate(t, b)
                            \/ ReaperPost(t)
  BY <1>1, ReaperProcessKept, ReaperPingKept, ReaperCreateKept, ReaperPostKept
<1>2. CASE \/ DrainOne(Reaper) \/ ReaperTop \/ ReaperEffect
           \/ \E b \in BOOLEAN : ReaperOpen(b)
  BY <1>2, DrainOneKept, ReaperTopKept, ReaperEffectKept, ReaperOpenKept
<1>3. CASE \/ ReaperDrop
           \/ \E list \in {"free_new", "free_used"} : ReaperSweep(list)
  BY <1>3, ReaperDropKept, ReaperSweepKept
<1>4. CASE ReaperRest \/ ReaperWake \/ ReaperTick \/ ReaperGone
  BY <1>4, ReaperRestKept, ReleasedKept
<1>5. QED
  BY <1>1, <1>2, <1>3, <1>4 DEF ReaperStep

-----------------------------------------------------------------------------
(* Close, and the settings. *)

\* CloseRequest keeps the invariant, refused or not.
LEMMA CloseRequestKept ==
    ASSUME TypeOK, TypeOK', OwnershipInv, NEW c \in Closers,
           NEW force \in BOOLEAN, CloseRequest(c, force)
    PROVE  StepKept
<1>1. PoolType(pool) /\ Tidy(pool)
  BY PoolBefore
<1>2. /\ \/ Commit(WakeWaiters(NotifyBg(pool)))
         \/ Commit(AfterDrain(c))
         \/ pool.open /\ Commit(ShutDown(pool))
      /\ UNCHANGED <<pc, lease, held, fresh, drops, alive>>
  BY DEF CloseRequest, taskVars, reaperVars
<1>3. SameRoles
  BY <1>2, RolesSame
<1>4. CASE Commit(WakeWaiters(NotifyBg(pool)))
  <2>1. Rehomes(pool, WakeWaiters(NotifyBg(pool)), {})
    BY <1>1, WakeAfter, NotifyBgType, SignalsRehome
  <2>2. QED
    BY <1>2, <1>3, <1>4, <2>1, QuietCommit
<1>5. CASE Commit(AfterDrain(c))
  <2>1. Rehomes(pool, AfterDrain(c), {})
    BY PoolBefore
  <2>2. QED
    BY <1>2, <1>3, <1>5, <2>1, QuietCommit
<1>6. CASE pool.open /\ Commit(ShutDown(pool))
  <2>1. /\ Tidy(pool') /\ Within(pool, pool', {}) /\ ~pool'.open
        /\ Allocates(pool')
    BY <1>1, <1>6, ShutDownMoves DEF Commit
  <2>2. QED
    BY <1>2, <1>3, <1>6, <2>1, ClosedStep
<1>7. QED
  BY <1>2, <1>4, <1>5, <1>6

\* CloseTake, CloseJoined and CloseCancelled keep the invariant.
LEMMA CloseStepsKept ==
    ASSUME TypeOK, TypeOK', OwnershipInv, NEW c \in Closers,
           CloseTake(c) \/ CloseJoined(c) \/ CloseCancelled(c)
    PROVE  StepKept
<1>1. PoolType(pool) /\ Tidy(pool)
  BY PoolBefore
<1>2. /\ pool' = NotifyBg(pool) \/ pool' = pool
      /\ UNCHANGED <<pc, lease, held, fresh, drops, alive>>
  BY DEF CloseTake, CloseJoined, CloseCancelled, taskVars, reaperVars
<1>3. SameRoles
  BY <1>2, RolesSame
<1>4. CASE pool' = pool
  BY <1>2, <1>3, <1>4, IdleKept
<1>5. CASE pool' = NotifyBg(pool)
  <2>1. Rehomes(pool, pool', {})
    BY <1>1, <1>5, SignalsRehome
  <2>2. pool'.next_conn_id = pool.next_conn_id
    BY <1>1, <1>5 DEF NotifyBg, PoolType, PoolStates
  <2>3. Allocates(pool')
    BY <2>2 DEF OwnershipInv, Allocates
  <2>4. QED
    BY <1>2, <1>3, <2>1, <2>3, QuietStep
<1>6. QED
  BY <1>2, <1>4, <1>5

\* SetGetmode and SetTimeoutSecs keep the invariant.
LEMMA SettingsKept ==
    ASSUME TypeOK, TypeOK', OwnershipInv,
           (\E m \in SetModes : SetGetmode(m)) \/ SetTimeoutSecs
    PROVE  StepKept
<1>1. PoolType(pool) /\ Tidy(pool)
  BY PoolBefore
<1>2. UNCHANGED <<pc, lease, held, fresh, drops, alive>>
  BY DEF SetGetmode, SetTimeoutSecs, taskVars, reaperVars
<1>3. \/ \E m \in SetModes : pool' = [pool EXCEPT !.mode = m]
      \/ pool' = NotifyBg([pool EXCEPT !.timeout = ~@])
  BY DEF SetGetmode, SetTimeoutSecs, Commit
<1>4. /\ pool'.free_new = pool.free_new /\ pool'.free_used = pool.free_used
      /\ pool'.busy = pool.busy /\ pool'.to_drop = pool.to_drop
      /\ pool'.requests = pool.requests
      /\ pool'.open_effects = pool.open_effects
      /\ pool'.next_conn_id = pool.next_conn_id /\ pool'.open = pool.open
  BY <1>1, <1>3 DEF NotifyBg, PoolType, PoolStates
<1>5. Rehomes(pool, pool', {})
  BY <1>1, <1>4, SamePlaces
<1>6. Allocates(pool')
  BY <1>4 DEF OwnershipInv, Allocates
<1>7. QED
  BY <1>2, <1>5, <1>6, RolesSame, QuietStep

\* Every step of the engine keeps the invariant and is one the contract allows.
LEMMA NextKept ==
    ASSUME TypeOK, TypeOK', OwnershipInv, [Next]_vars
    PROVE  StepKept
<1>1. CASE \E t \in Tasks : TaskStep(t)
  BY <1>1, TaskStepKept
<1>2. CASE ReaperStep
  BY <1>2, ReaperStepKept
<1>3. CASE \E c \in Closers : CloserStep(c)
  BY <1>3, DrainOneKept, CloseRequestKept, CloseStepsKept DEF CloserStep
<1>4. CASE DrainOne(Observer) \/ Observe
  BY <1>4, DrainOneKept, ObserveKept
<1>5. CASE LastHandle
  BY <1>5, ReleasedKept
<1>6. CASE (\E m \in SetModes : SetGetmode(m)) \/ SetTimeoutSecs
  BY <1>6, SettingsKept
<1>7. CASE UNCHANGED vars
  <2>1. pool' = pool /\ UNCHANGED <<pc, lease, held, fresh, drops, alive>>
    BY <1>7 DEF vars, taskVars, reaperVars
  <2>2. QED
    BY <2>1, RolesSame, IdleKept
<1>8. QED
  BY <1>1, <1>2, <1>3, <1>4, <1>5, <1>6, <1>7 DEF Next

\* A pool that has just been started satisfies the invariant, and the contract.
LEMMA InitKept ==
    ASSUME Init
    PROVE  OwnershipInv /\ Contract!CInit
<1> DEFINE idle == "idle" \in env
           s == [open |-> TRUE, mode |-> InitMode, timeout |-> idle,
                 free_new |-> <<>>, free_used |-> <<>>, busy |-> {},
                 to_drop |-> {}, requests |-> <<>>, open_effects |-> <<>>,
                 in_flight |-> {}, next_conn_id |-> 1, bg |-> FALSE,
                 parked |-> {}]
<1>1. idle \in BOOLEAN
  OBVIOUS
<1>2. pool = ScheduleOpenEffects(s, PoolMin)
  BY DEF Init, StartState
<1> HIDE DEF idle
<1>3. PoolType(s)
  BY <1>1, EngineAssumption, FS_EmptySet DEF PoolType, PoolStates, ConnIds
<1>4. /\ s.free_new = <<>> /\ s.free_used = <<>> /\ s.busy = {}
      /\ s.to_drop = {} /\ s.requests = <<>> /\ s.open_effects = <<>>
      /\ s.open = TRUE /\ s.next_conn_id = 1
  OBVIOUS
<1>5. pool.next_conn_id = 1 + PoolMin
  BY <1>2 DEF ScheduleOpenEffects
<1> HIDE DEF s
<1>6. Placed(s) = {} /\ Planned(s) = {}
  BY <1>4, EmptyIds DEF Placed, Planned
<1>7. Tidy(s)
  BY <1>4, <1>6, EmptyIds DEF Tidy, Apart
<1>8. Rehomes(s, pool, {})
  BY <1>2, <1>3, <1>7, SizeAssumption, ScheduleRehomes
<1>9. /\ Tidy(pool) /\ Placed(pool) = {} /\ pool.busy = {} /\ pool.open = TRUE
  BY <1>4, <1>6, <1>8 DEF Rehomes, Within
<1>10. Allocates(pool)
  BY <1>5, SizeAssumption, EngineAssumption DEF Allocates
<1>11. Holders = {} /\ Leases = {}
  BY DEF Init, Holders, Leases
<1>12. /\ held = {} /\ fresh = {} /\ alive = {} /\ drops = <<>>
       /\ pc = [t \in Tasks |-> "start"]
  BY DEF Init
<1>13. ReaperApart
  BY <1>12, EmptyIds DEF ReaperApart
<1>14. SessionsKnown
  BY <1>9, <1>11, <1>12, EmptyIds DEF SessionsKnown
<1>15. GuardsApart
  BY <1>11 DEF GuardsApart
<1>16. BusyIsLent
  BY <1>9, <1>11, <1>12, EmptyIds DEF BusyIsLent
<1>17. Contract!CInit
  <2>1. [t \in Tasks |-> GuardOf(t)] = [t \in Tasks |-> {}]
    BY <1>12 DEF GuardOf
  <2>2. {t \in Tasks : pc[t] \in {"hold", "done"}} = {}
    BY <1>12
  <2>3. QED
    BY <1>9, <1>12, <2>1, <2>2 DEF Contract!CInit
<1>18. QED
  BY <1>9, <1>10, <1>13, <1>14, <1>15, <1>16, <1>17 DEF OwnershipInv

\* The invariant holds throughout.
LEMMA OwnershipHolds == Spec => [](TypeOK /\ OwnershipInv)
<1>1. Init => OwnershipInv
  BY InitKept
<1>2. TypeOK /\ TypeOK' /\ OwnershipInv /\ [Next]_vars => OwnershipInv'
  BY NextKept DEF StepKept
<1>3. QED
  BY <1>1, <1>2, TypeCorrect, PTL DEF Spec

-----------------------------------------------------------------------------
(* The theorems. *)

\* The pool engine implements the pool contract, in every environment and for
\* every size: a guard is ownership of an open session nobody else holds, from
\* the moment acquire returns until release, drop or drop_from_pool, and until
\* close the reaper closes no session under its guard.
THEOREM EngineImplementsContract == Spec => ImplementsContract
<1>1. Init => Contract!CInit
  BY InitKept
<1>2. TypeOK /\ TypeOK' /\ OwnershipInv /\ [Next]_vars
        => [Contract!CNext]_(Contract!cvars)
  BY NextKept DEF StepKept, ContractStep
<1>3. QED
  BY <1>1, <1>2, OwnershipHolds, PTL DEF Spec, ImplementsContract,
     Contract!ContractSpec

\* Sets that are matched one to one have the same size.
LEMMA SameSize ==
    ASSUME NEW S, NEW T, NEW f \in [S -> T], IsFiniteSet(T),
           \A a, b \in S : f[a] = f[b] => a = b, \A y \in T : \E a \in S : f[a] = y
    PROVE  IsFiniteSet(S) /\ Cardinality(S) = Cardinality(T)
<1>1. f \in Injection(S, T) /\ f \in Surjection(S, T)
  BY DEF Injection, IsInjective, Surjection
<1>2. QED
  BY <1>1, FS_Injection

\* An interval from 1 has as many elements as its end says.
LEMMA IntervalSize ==
    ASSUME NEW n \in Nat
    PROVE  Cardinality(1..n) = n
BY FS_Interval

\* Connections with different ids are as many as their ids.
LEMMA IdsSize ==
    ASSUME NEW S, UniqueIds(S), IsFiniteSet(Ids(S))
    PROVE  IsFiniteSet(S) /\ Cardinality(S) = Cardinality(Ids(S))
<1> DEFINE f == [c \in S |-> c.id]
<1>1. /\ f \in [S -> Ids(S)]
      /\ \A a, b \in S : f[a] = f[b] => a = b
      /\ \A y \in Ids(S) : \E a \in S : f[a] = y
  BY DEF UniqueIds, Ids
<1> HIDE DEF f
<1>2. QED
  BY <1>1, SameSize

\* The same for a list.
LEMMA SeqIdsSize ==
    ASSUME NEW S, NEW q \in Seq(S), NoTwins(q), IsFiniteSet(SeqIds(q))
    PROVE  Cardinality(SeqIds(q)) = Len(q)
<1> DEFINE f == [i \in 1..Len(q) |-> q[i].id]
<1>1. DOMAIN q = 1..Len(q) /\ Len(q) \in Nat
  OBVIOUS
<1>2. /\ f \in [1..Len(q) -> SeqIds(q)]
      /\ \A a, b \in 1..Len(q) : f[a] = f[b] => a = b
      /\ \A y \in SeqIds(q) : \E a \in 1..Len(q) : f[a] = y
  BY <1>1 DEF NoTwins, SeqIds
<1> HIDE DEF f
<1>3. Cardinality(1..Len(q)) = Cardinality(SeqIds(q))
  BY <1>2, SameSize
<1>4. Cardinality(1..Len(q)) = Len(q)
  BY <1>1, IntervalSize
<1>5. QED
  BY <1>3, <1>4

\* The same for the requests that hold a connection.
LEMMA ReqIdsSize ==
    ASSUME NEW q \in Seq(Request), NoReqTwins(q), IsFiniteSet(ReqIds(q))
    PROVE  Cardinality(ReqIds(q))
             = Cardinality({i \in DOMAIN q : HasConn(q[i])})
<1> DEFINE D == {i \in DOMAIN q : HasConn(q[i])}
           f == [i \in D |-> (CHOOSE c \in q[i].conn : TRUE).id]
<1>1. \A i \in DOMAIN q : q[i].conn \in Option(PooledConn)
  BY RequestFields
<1>2. \A i \in D : i \in DOMAIN q /\ q[i].conn # {}
  BY DEF HasConn
<1>3. ASSUME NEW i \in D
      PROVE  /\ (CHOOSE c \in q[i].conn : TRUE) \in q[i].conn
             /\ f[i] = (CHOOSE c \in q[i].conn : TRUE).id
  BY <1>2
<1>4. f \in [D -> ReqIds(q)]
  <2>1. \A i \in D : (CHOOSE c \in q[i].conn : TRUE).id \in ReqIds(q)
    BY <1>2, <1>3 DEF ReqIds
  <2>2. QED
    BY <2>1
<1>5. \A a, b \in D : f[a] = f[b] => a = b
  BY <1>2, <1>3 DEF NoReqTwins
<1>6. \A y \in ReqIds(q) : \E a \in D : f[a] = y
  <2>1. SUFFICES ASSUME NEW y \in ReqIds(q) PROVE \E a \in D : f[a] = y
    OBVIOUS
  <2>2. PICK i \in DOMAIN q : \E c \in q[i].conn : y = c.id
    BY DEF ReqIds
  <2> PICK c \in q[i].conn : y = c.id
    BY <2>2
  <2>3. i \in D
    BY <2>2 DEF HasConn
  <2>4. \A x \in q[i].conn : x = c
    BY <1>1, <2>2 DEF Option
  <2>5. f[i] = y
    BY <1>3, <2>2, <2>3, <2>4
  <2>6. QED
    BY <2>3, <2>5
<1> HIDE DEF f, D
<1>7. Cardinality(D) = Cardinality(ReqIds(q))
  BY <1>4, <1>5, <1>6, SameSize
<1>8. QED
  BY <1>7 DEF D

\* The ids of a tidy pool are bounded, and so is every set of them.
LEMMA FiniteIds ==
    ASSUME NEW s, PoolType(s), NEW S, S \subseteq Nat,
           \A x \in S : x < s.next_conn_id
    PROVE  IsFiniteSet(S)
<1>1. s.next_conn_id \in Nat
  BY IdNumbers DEF ConnIds
<1>2. \A x \in S : x <= s.next_conn_id
  BY <1>1
<1>3. QED
  BY <1>1, <1>2, FS_BoundedSetOfNaturals

\* Disjoint finite sets add up.
LEMMA DisjointSum ==
    ASSUME NEW S, NEW T, IsFiniteSet(S), IsFiniteSet(T), S \cap T = {}
    PROVE  /\ IsFiniteSet(S \cup T)
           /\ Cardinality(S \cup T) = Cardinality(S) + Cardinality(T)
           /\ Cardinality(S) \in Nat /\ Cardinality(T) \in Nat
BY FS_Union, FS_EmptySet, FS_CardinalityType

\* The connections of a tidy pool are as many as the ids that have a place.
LEMMA PlacedSize ==
    ASSUME NEW s, PoolType(s), Tidy(s)
    PROVE  /\ IsFiniteSet(Placed(s))
           /\ Cardinality(Placed(s))
                = ActiveOpenCount(s) + Cardinality(s.to_drop)
<1> DEFINE N == SeqIds(s.free_new)
           U == SeqIds(s.free_used)
           B == Ids(s.busy)
           D == Ids(s.to_drop)
           R == ReqIds(s.requests)
<1>1. /\ Placed(s) = N \cup U \cup B \cup D \cup R
      /\ Placed(s) \subseteq Nat /\ \A x \in Placed(s) : x < s.next_conn_id
  BY IdNumbers DEF Placed, Tidy, ConnIds
<1>2. /\ IsFiniteSet(Placed(s)) /\ IsFiniteSet(N) /\ IsFiniteSet(U)
      /\ IsFiniteSet(B) /\ IsFiniteSet(D) /\ IsFiniteSet(R)
  <2> HIDE DEF N, U, B, D, R
  <2>1. \A S \in SUBSET Placed(s) : IsFiniteSet(S)
    BY <1>1, FiniteIds
  <2>2. QED
    BY <1>1, <2>1
<1>3. Apart(N, U, B, D, R, Planned(s))
  BY DEF Tidy
<1>4. /\ s.free_new \in Seq(PooledConn) /\ s.free_used \in Seq(PooledConn)
      /\ s.requests \in Seq(Request)
  BY Fields
<1>5. Cardinality(N) = Len(s.free_new) /\ Cardinality(U) = Len(s.free_used)
  BY <1>2, <1>4, SeqIdsSize DEF Tidy
<1>6. Cardinality(B) = Cardinality(s.busy) /\ Cardinality(D) = Cardinality(s.to_drop)
  BY <1>2, IdsSize DEF Tidy
<1>7. Cardinality(R) = CountRequests(s, HasConn)
  BY <1>2, <1>4, ReqIdsSize DEF Tidy, CountRequests
<1> HIDE DEF N, U, B, D, R
<1>8. /\ Cardinality(N \cup U) = Cardinality(N) + Cardinality(U)
      /\ IsFiniteSet(N \cup U)
  BY <1>2, <1>3, DisjointSum DEF Apart
<1>9. /\ Cardinality(N \cup U \cup B) = Cardinality(N \cup U) + Cardinality(B)
      /\ IsFiniteSet(N \cup U \cup B)
  <2>1. (N \cup U) \cap B = {}
    BY <1>3 DEF Apart
  <2>2. QED
    BY <1>2, <1>8, <2>1, DisjointSum
<1>10. /\ Cardinality(N \cup U \cup B \cup D)
            = Cardinality(N \cup U \cup B) + Cardinality(D)
       /\ IsFiniteSet(N \cup U \cup B \cup D)
  <2>1. (N \cup U \cup B) \cap D = {}
    BY <1>3 DEF Apart
  <2>2. QED
    BY <1>2, <1>9, <2>1, DisjointSum
<1>11. Cardinality(N \cup U \cup B \cup D \cup R)
         = Cardinality(N \cup U \cup B \cup D) + Cardinality(R)
  <2>1. (N \cup U \cup B \cup D) \cap R = {}
    BY <1>3 DEF Apart
  <2>2. QED
    BY <1>2, <1>10, <2>1, DisjointSum
<1>12. /\ Cardinality(N) \in Nat /\ Cardinality(U) \in Nat
       /\ Cardinality(B) \in Nat /\ Cardinality(D) \in Nat
       /\ Cardinality(R) \in Nat
  BY <1>2, FS_CardinalityType
<1>13. Cardinality(Placed(s)) = Cardinality(N) + Cardinality(U)
                                  + Cardinality(B) + Cardinality(R)
                                  + Cardinality(D)
  BY <1>1, <1>8, <1>9, <1>10, <1>11, <1>12
<1>14. QED
  BY <1>2, <1>5, <1>6, <1>7, <1>13 DEF ActiveOpenCount

\* No double hand-out, for pools of every size: the connections the engine can
\* reach are as many as their ids, so none is in two lists, requests, guards or
\* hands at once, and no two guards hold the same one.
THEOREM ExclusiveHandout == Spec => []NoDoubleHandout
<1>1. TypeOK /\ OwnershipInv => NoDoubleHandout
  <2>1. SUFFICES ASSUME TypeOK, OwnershipInv PROVE NoDoubleHandout
    OBVIOUS
  <2>2. PoolType(pool) /\ Tidy(pool)
    BY <2>1, PoolBefore
  <2>3. /\ IsFiniteSet(Placed(pool))
        /\ Cardinality(Placed(pool))
             = ActiveOpenCount(pool) + Cardinality(pool.to_drop)
    BY <2>2, PlacedSize
  <2>4. Ids(Tracked) = Placed(pool) \cup Ids(held)
    BY UnionIds, OwnedIds DEF Tracked
  <2>5. /\ Placed(pool) \cap Ids(held) = {}
        /\ \A x \in Ids(held) : x < pool.next_conn_id
    BY <2>1 DEF OwnershipInv, ReaperApart, Lacks
  <2>6. Ids(held) \subseteq Nat /\ UniqueIds(held)
    BY <2>1, EngineTypes, IdsType DEF ConnIds, Option, UniqueIds
  <2>7. IsFiniteSet(Ids(held))
    BY <2>2, <2>5, <2>6, FiniteIds
  <2>8. Cardinality(held) = Cardinality(Ids(held))
    BY <2>6, <2>7, IdsSize
  <2>9. Cardinality(Ids(Tracked)) = Slots
    BY <2>3, <2>4, <2>5, <2>7, <2>8, DisjointSum DEF Slots
  <2>10. QED
    BY <2>1, <2>9 DEF NoDoubleHandout, OwnershipInv, GuardsApart
<1>2. QED
  BY <1>1, OwnershipHolds, PTL

\* While the pool is open, busy is exactly what the guards hold and what dropped
\* guards have sent: release never meets ConnectionNotAcquired, an id in the
\* channel is returned once, and nothing stays busy without a holder.
THEOREM BusyIsGuards == Spec => []BusyMatchesGuards
<1>1. TypeOK /\ OwnershipInv => BusyMatchesGuards
  <2>1. SUFFICES ASSUME TypeOK, OwnershipInv, pool.open
                 PROVE  /\ Ids(pool.busy) = Leases \cup ToSet(drops)
                        /\ Cardinality(pool.busy)
                             = Cardinality(Holders) + Len(drops)
    BY DEF BusyMatchesGuards, Leases
  <2>2. /\ Ids(pool.busy) = Leases \cup ToSet(drops)
        /\ Leases \cap ToSet(drops) = {} /\ OneToOne(drops)
    BY <2>1 DEF OwnershipInv, BusyIsLent
  <2>3. PoolType(pool) /\ Tidy(pool) /\ IsFiniteSet(pool.busy)
    BY <2>1, PoolBefore DEF PoolType
  <2>4. Ids(pool.busy) \subseteq Placed(pool)
    BY DEF Placed
  <2>5. IsFiniteSet(Ids(pool.busy))
    BY <2>3, <2>4, PlacedSize, FS_Subset
  <2>6. Cardinality(pool.busy) = Cardinality(Ids(pool.busy))
    BY <2>3, <2>5, IdsSize DEF Tidy
  <2>7. IsFiniteSet(Leases) /\ IsFiniteSet(ToSet(drops))
    BY <2>2, <2>5, FS_Subset
  <2>8. Cardinality(Holders) = Cardinality(Leases)
    <3> DEFINE f == [t \in Holders |-> lease[t]]
    <3>1. /\ f \in [Holders -> Leases]
          /\ \A a, b \in Holders : f[a] = f[b] => a = b
          /\ \A y \in Leases : \E a \in Holders : f[a] = y
      BY <2>1 DEF Leases, OwnershipInv, GuardsApart
    <3> HIDE DEF f
    <3>2. QED
      BY <2>7, <3>1, SameSize
  <2>9. Len(drops) = Cardinality(ToSet(drops))
    <3>1. drops \in Seq(Nat)
      BY <2>1, EngineTypes
    <3>2. DOMAIN drops = 1..Len(drops) /\ Len(drops) \in Nat
      BY <3>1
    <3>3. drops \in [1..Len(drops) -> ToSet(drops)]
      BY <3>1, <3>2 DEF ToSet
    <3>4. /\ \A a, b \in 1..Len(drops) : drops[a] = drops[b] => a = b
          /\ \A y \in ToSet(drops) : \E a \in 1..Len(drops) : drops[a] = y
      BY <2>2, <3>2 DEF OneToOne, ToSet
    <3>5. Cardinality(1..Len(drops)) = Cardinality(ToSet(drops))
      BY <2>7, <3>3, <3>4, SameSize
    <3>6. Cardinality(1..Len(drops)) = Len(drops)
      BY <3>2, IntervalSize
    <3>7. QED
      BY <3>5, <3>6
  <2>10. Cardinality(Leases \cup ToSet(drops))
           = Cardinality(Leases) + Cardinality(ToSet(drops))
    BY <2>2, <2>7, DisjointSum
  <2>11. QED
    BY <2>2, <2>6, <2>8, <2>9, <2>10
<1>2. QED
  BY <1>1, OwnershipHolds, PTL

-----------------------------------------------------------------------------
(* The contract, on its own: callers and sessions of any pool at all. *)

CONSTANTS Callers, SessionNames
VARIABLES openSessions, holding, wasServed, isShut

Promise ==
    INSTANCE PoolContract WITH
        Tasks <- Callers, Sessions <- SessionNames,
        sess <- openSessions, owner <- holding, served <- wasServed, shut <- isShut

\* What every caller may rely on: a held session has one holder and, until the
\* pool is shut, is open.  The three parts carry each other: Lease needs an
\* unowned session, which CloseSessions then may not take away.
THEOREM ContractCorrect ==
    Promise!ContractSpec => [](Promise!Exclusive /\ Promise!HeldIsOpen)
<1>1. Promise!CInit => Promise!ContractInv
  BY DEF Promise!CInit, Promise!ContractInv, Promise!CTypeOK, Promise!Exclusive,
     Promise!HeldIsOpen, Promise!Owned
<1>2. Promise!ContractInv /\ [Promise!CNext]_(Promise!cvars) => Promise!ContractInv'
  <2> SUFFICES ASSUME Promise!ContractInv, [Promise!CNext]_(Promise!cvars)
               PROVE  Promise!ContractInv'
    OBVIOUS
  <2> USE DEF Promise!ContractInv, Promise!CTypeOK, Promise!Exclusive, Promise!HeldIsOpen,
      Promise!Owned
  <2>1. ASSUME NEW s \in SessionNames, Promise!OpenSession(s) PROVE Promise!ContractInv'
    BY <2>1 DEF Promise!OpenSession
  <2>2. ASSUME NEW S \in SUBSET openSessions, Promise!CloseSessions(S)
        PROVE  Promise!ContractInv'
    BY <2>2 DEF Promise!CloseSessions
  <2>3. ASSUME NEW S \in SUBSET openSessions, Promise!Shut(S) PROVE Promise!ContractInv'
    BY <2>3 DEF Promise!Shut
  <2>4. ASSUME NEW t \in Callers, NEW s \in openSessions, Promise!Lease(t, s)
        PROVE  Promise!ContractInv'
    BY <2>4 DEF Promise!Lease
  <2>5. ASSUME NEW t \in Callers, Promise!GiveBack(t) PROVE Promise!ContractInv'
    BY <2>5 DEF Promise!GiveBack
  <2>6. CASE UNCHANGED Promise!cvars
    BY <2>6 DEF Promise!cvars
  <2>7. QED
    BY <2>1, <2>2, <2>3, <2>4, <2>5, <2>6 DEF Promise!CNext
<1>3. Promise!ContractInv => Promise!Exclusive /\ Promise!HeldIsOpen
  BY DEF Promise!ContractInv
<1>4. QED
  BY <1>1, <1>2, <1>3, PTL DEF Promise!ContractSpec
============================================================================
