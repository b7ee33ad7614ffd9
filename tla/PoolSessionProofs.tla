------------------------- MODULE PoolSessionProofs -------------------------
(***************************************************************************)
(* Proofs about the sessions of the pool engine and their number, from the *)
(* places that PoolEngineProofs gives to every connection.                 *)
(*                                                                         *)
(* The first part is that no session is lost: every session open on the    *)
(* database has such a place, and a pool that is closed empties them.      *)
(*                                                                         *)
(* The second part is that the pool stays within its maximum: what is in   *)
(* service, planned or owed to a request always fits in it.                *)
(***************************************************************************)
EXTENDS PoolEngineProofs

-----------------------------------------------------------------------------
(* No session is lost. *)

\* the requests of a pool of one class: a connection waits in a request only
\* until its task takes it, or, in those of C, until the reaper is done; and
\* those of W are the reaper's alone
TameReq(r, C, W) ==
    /\ r.cclass = PoolClass
    /\ r.conn # {} => r.completed \/ r.task \in C
    /\ r.task \in W => r.bg_processing /\ ~r.completed /\ (r.in_progress \/ ~r.waiting)

\* a task has one request
Tame(q, C, W) ==
    /\ \A i, j \in DOMAIN q : q[i].task = q[j].task => i = j
    /\ \A i \in DOMAIN q : TameReq(q[i], C, W)

\* s2 has a place for all that s has and for X, and its requests are tame
Carries(s, s2, X, C, W) ==
    /\ Placed(s) \cup X \subseteq Placed(s2)
    /\ Tame(s2.requests, C, W)
    /\ \A t : HasRequest(s2, t) => HasRequest(s, t)
    /\ s2.open = s.open

\* Two such steps make one.
LEMMA CarriesTwice ==
    ASSUME NEW s, NEW s1, NEW s2, NEW X, NEW Y, NEW C, NEW W,
           Carries(s, s1, X, C, W), Carries(s1, s2, Y, C, W)
    PROVE  Carries(s, s2, X \cup Y, C, W)
  BY DEF Carries

\* A step that leaves the requests alone.
LEMMA RequestsAlone ==
    ASSUME NEW s, NEW s2, NEW X, NEW C, NEW W, Tame(s.requests, C, W),
           s2.requests = s.requests, s2.open = s.open, Placed(s) \cup X \subseteq Placed(s2)
    PROVE  Carries(s, s2, X, C, W)
  BY DEF Carries, HasRequest

\* A step that only signals.
LEMMA ListsAlone ==
    ASSUME NEW s, NEW s2, NEW C, NEW W, Tame(s.requests, C, W),
           s2.requests = s.requests, s2.open = s.open, s2.free_new = s.free_new,
           s2.free_used = s.free_used, s2.busy = s.busy, s2.to_drop = s.to_drop
    PROVE  Carries(s, s2, {}, C, W)
  BY RequestsAlone DEF Placed

\* The notifiers, parking and the plans place nothing.
LEMMA SignalsCarry ==
    ASSUME NEW s, PoolType(s), NEW C, NEW W, Tame(s.requests, C, W)
    PROVE  /\ Carries(s, s, {}, C, W)
           /\ Carries(s, NotifyBg(s), {}, C, W)
           /\ Carries(s, WakeWaiters(s), {}, C, W)
           /\ \A t : Carries(s, Park(s, t), {}, C, W)
           /\ \A n : Carries(s, ScheduleOpenEffects(s, n), {}, C, W)
<1>1. Carries(s, s, {}, C, W)
  BY ListsAlone
<1>2. Carries(s, NotifyBg(s), {}, C, W)
  <2> DEFINE s2 == NotifyBg(s)
  <2>1. /\ s2.requests = s.requests /\ s2.open = s.open /\ s2.free_new = s.free_new
        /\ s2.free_used = s.free_used /\ s2.busy = s.busy /\ s2.to_drop = s.to_drop
    BY DEF NotifyBg, PoolType, PoolStates
  <2> HIDE DEF s2
  <2> QED
    BY <2>1, ListsAlone DEF s2
<1>3. Carries(s, WakeWaiters(s), {}, C, W)
  <2> DEFINE s2 == WakeWaiters(s)
  <2>1. /\ s2.requests = s.requests /\ s2.open = s.open /\ s2.free_new = s.free_new
        /\ s2.free_used = s.free_used /\ s2.busy = s.busy /\ s2.to_drop = s.to_drop
    BY DEF WakeWaiters, PoolType, PoolStates
  <2> HIDE DEF s2
  <2> QED
    BY <2>1, ListsAlone DEF s2
<1>4. ASSUME NEW t PROVE Carries(s, Park(s, t), {}, C, W)
  <2> DEFINE s2 == Park(s, t)
  <2>1. /\ s2.requests = s.requests /\ s2.open = s.open /\ s2.free_new = s.free_new
        /\ s2.free_used = s.free_used /\ s2.busy = s.busy /\ s2.to_drop = s.to_drop
    BY DEF Park, PoolType, PoolStates
  <2> HIDE DEF s2
  <2> QED
    BY <2>1, ListsAlone DEF s2
<1>5. ASSUME NEW n PROVE Carries(s, ScheduleOpenEffects(s, n), {}, C, W)
  <2> DEFINE s2 == ScheduleOpenEffects(s, n)
  <2>1. /\ s2.requests = s.requests /\ s2.open = s.open /\ s2.free_new = s.free_new
        /\ s2.free_used = s.free_used /\ s2.busy = s.busy /\ s2.to_drop = s.to_drop
    BY DEF ScheduleOpenEffects, PoolType, PoolStates
  <2> HIDE DEF s2
  <2> QED
    BY <2>1, ListsAlone DEF s2
<1> QED
  BY <1>1, <1>2, <1>3, <1>4, <1>5

\* ensure_min_connections only plans.
LEMMA EnsureMinCarries ==
    ASSUME NEW s, PoolType(s), NEW C, NEW W, Tame(s.requests, C, W)
    PROVE  Carries(s, EnsureMinConnections(s), {}, C, W)
<1>1. CASE s.open
  <2> DEFINE n == Monus(PoolMin, ReservedOpenCount(s))
             s1 == ScheduleOpenEffects(s, n)
  <2>1. n \in Nat
    BY CountsAreNat, SizeAssumption DEF Monus
  <2> HIDE DEF n
  <2>2. PoolType(s1) /\ Carries(s, s1, {}, C, W)
    BY <2>1, ScheduleOpenEffectsType, SignalsCarry
  <2> HIDE DEF s1
  <2>3. Tame(s1.requests, C, W)
    BY <2>2 DEF Carries
  <2>4. Carries(s1, NotifyBg(s1), {}, C, W)
    BY <2>2, <2>3, SignalsCarry
  <2>5. Carries(s, NotifyBg(s1), {} \cup {}, C, W)
    BY <2>2, <2>4, CarriesTwice
  <2> QED
    BY <1>1, <2>5 DEF EnsureMinConnections, s1, n
<1>2. CASE ~s.open
  BY <1>2, SignalsCarry DEF EnsureMinConnections
<1> QED
  BY <1>1, <1>2

\* A connection is put into a list.
LEMMA PutCarries ==
    ASSUME NEW s, PoolType(s), NEW C, NEW W, Tame(s.requests, C, W), NEW c \in PooledConn
    PROVE  /\ Carries(s, [s EXCEPT !.to_drop = @ \cup {c}], {c.id}, C, W)
           /\ Carries(s, [s EXCEPT !.free_new = Append(@, c)], {c.id}, C, W)
           /\ Carries(s, [s EXCEPT !.free_used = Append(@, c)], {c.id}, C, W)
<1>0. \A q \in Seq(PooledConn) : SeqIds(q) \cup {c.id} \subseteq SeqIds(Append(q, c))
  <2> SUFFICES ASSUME NEW q \in Seq(PooledConn)
               PROVE  SeqIds(q) \cup {c.id} \subseteq SeqIds(Append(q, c))
    OBVIOUS
  <2>1. /\ DOMAIN q \subseteq DOMAIN Append(q, c) /\ Len(q) + 1 \in DOMAIN Append(q, c)
        /\ \A i \in DOMAIN q : Append(q, c)[i] = q[i]
        /\ Append(q, c)[Len(q) + 1] = c
    OBVIOUS
  <2> QED
    BY <2>1 DEF SeqIds
<1>1. s.free_new \in Seq(PooledConn) /\ s.free_used \in Seq(PooledConn)
  BY Fields
<1>2. Carries(s, [s EXCEPT !.to_drop = @ \cup {c}], {c.id}, C, W)
  <2> DEFINE s2 == [s EXCEPT !.to_drop = @ \cup {c}]
  <2>1. /\ s2.requests = s.requests /\ s2.open = s.open /\ s2.free_new = s.free_new
        /\ s2.free_used = s.free_used /\ s2.busy = s.busy /\ s2.to_drop = s.to_drop \cup {c}
    BY DEF PoolType, PoolStates
  <2> HIDE DEF s2
  <2>2. Placed(s) \cup {c.id} \subseteq Placed(s2)
    BY <2>1 DEF Placed, Ids
  <2>3. Carries(s, s2, {c.id}, C, W)
    BY <2>1, <2>2, RequestsAlone
  <2> QED
    BY <2>3 DEF s2
<1>3. Carries(s, [s EXCEPT !.free_new = Append(@, c)], {c.id}, C, W)
  <2> DEFINE s2 == [s EXCEPT !.free_new = Append(@, c)]
  <2>1. /\ s2.requests = s.requests /\ s2.open = s.open /\ s2.free_new = Append(s.free_new, c)
        /\ s2.free_used = s.free_used /\ s2.busy = s.busy /\ s2.to_drop = s.to_drop
    BY DEF PoolType, PoolStates
  <2> HIDE DEF s2
  <2>2. SeqIds(s.free_new) \cup {c.id} \subseteq SeqIds(s2.free_new)
    BY <1>0, <1>1, <2>1
  <2>3. Placed(s) \cup {c.id} \subseteq Placed(s2)
    BY <2>1, <2>2 DEF Placed
  <2>4. Carries(s, s2, {c.id}, C, W)
    BY <2>1, <2>3, RequestsAlone
  <2> QED
    BY <2>4 DEF s2
<1>4. Carries(s, [s EXCEPT !.free_used = Append(@, c)], {c.id}, C, W)
  <2> DEFINE s2 == [s EXCEPT !.free_used = Append(@, c)]
  <2>1. /\ s2.requests = s.requests /\ s2.open = s.open /\ s2.free_new = s.free_new
        /\ s2.free_used = Append(s.free_used, c) /\ s2.busy = s.busy /\ s2.to_drop = s.to_drop
    BY DEF PoolType, PoolStates
  <2> HIDE DEF s2
  <2>2. SeqIds(s.free_used) \cup {c.id} \subseteq SeqIds(s2.free_used)
    BY <1>0, <1>1, <2>1
  <2>3. Placed(s) \cup {c.id} \subseteq Placed(s2)
    BY <2>1, <2>2 DEF Placed
  <2>4. Carries(s, s2, {c.id}, C, W)
    BY <2>1, <2>3, RequestsAlone
  <2> QED
    BY <2>4 DEF s2
<1> QED
  BY <1>2, <1>3, <1>4

\* drop_conn queues the connection for its close.
LEMMA DropConnCarries ==
    ASSUME NEW s, PoolType(s), NEW C, NEW W, Tame(s.requests, C, W), NEW c \in PooledConn
    PROVE  Carries(s, DropConn(s, c), {c.id}, C, W)
<1> DEFINE s1 == [s EXCEPT !.to_drop = @ \cup {c}]
           s2 == EnsureMinConnections(s1)
<1>1. PoolType(s1) /\ Carries(s, s1, {c.id}, C, W)
  BY Fields, ToDropType, PutCarries
<1> HIDE DEF s1
<1>2. PoolType(s2) /\ Carries(s1, s2, {}, C, W)
  BY <1>1, EnsureMinConnectionsType, EnsureMinCarries DEF Carries
<1> HIDE DEF s2
<1>3. Carries(s2, NotifyBg(s2), {}, C, W)
  BY <1>2, SignalsCarry DEF Carries
<1>4. Carries(s, NotifyBg(s2), {c.id} \cup {} \cup {}, C, W)
  BY <1>1, <1>2, <1>3, CarriesTwice
<1> QED
  BY <1>4 DEF DropConn, s1, s2

\* RemoveAt closes the gap.
LEMMA RemoveAtElements ==
    ASSUME NEW S, NEW q \in Seq(S), NEW k \in DOMAIN q
    PROVE  LET q2 == RemoveAt(q, k)
           IN  /\ q2 \in Seq(S) /\ Len(q2) = Len(q) - 1
               /\ \A i \in 1..(Len(q) - 1) : q2[i] = IF i < k THEN q[i] ELSE q[i + 1]
<1> DEFINE q2 == RemoveAt(q, k)
<1> DEFINE a == SubSeq(q, 1, k - 1)
           b == SubSeq(q, k + 1, Len(q))
<1>1. k \in 1..Len(q) /\ Len(q) \in Nat
  OBVIOUS
<1>2. /\ a \in Seq(S) /\ Len(a) = k - 1
      /\ \A i \in 1..(k - 1) : a[i] = q[i]
  BY <1>1
<1>3. b \in Seq(S) /\ Len(b) = Len(q) - k
  BY <1>1
<1>4. \A i \in 1..(Len(q) - k) : b[i] = q[k + i]
  BY <1>1
<1> HIDE DEF a, b
<1>5. /\ a \o b \in Seq(S) /\ Len(a \o b) = Len(a) + Len(b)
      /\ \A i \in 1..(Len(a) + Len(b)) :
           (a \o b)[i] = IF i <= Len(a) THEN a[i] ELSE b[i - Len(a)]
  BY <1>2, <1>3, ConcatProperties
<1>6. q2 = a \o b
  BY DEF RemoveAt, a, b
<1> HIDE DEF q2
<1>7. ASSUME NEW i \in 1..(Len(q) - 1)
      PROVE  q2[i] = IF i < k THEN q[i] ELSE q[i + 1]
  <2>0. i \in Nat /\ k \in Nat /\ i \in 1..(Len(a) + Len(b))
    BY <1>1, <1>2, <1>3, <1>7
  <2>1. q2[i] = IF i <= k - 1 THEN a[i] ELSE b[i - (k - 1)]
    BY <1>2, <1>5, <1>6, <2>0
  <2>2. i < k => a[i] = q[i]
    BY <1>1, <1>2, <1>7
  <2>3. ~(i < k) => b[i - (k - 1)] = q[i + 1]
    <3>1. ~(i < k) => i - (k - 1) \in 1..(Len(q) - k) /\ k + (i - (k - 1)) = i + 1
      BY <1>1, <1>7
    <3>2. QED
      BY <1>4, <3>1
  <2>4. QED
    BY <2>0, <2>1, <2>2, <2>3
<1>8. q2 \in Seq(S) /\ Len(q2) = Len(q) - 1
  <2>1. Len(a) + Len(b) = Len(q) - 1
    BY <1>1, <1>2, <1>3
  <2>2. QED
    BY <1>5, <1>6, <2>1
<1>9. QED
  BY <1>7, <1>8 DEF q2
\* q2 has what q has at the positions other than k
Leaves(q2, q, k) ==
    \A i \in DOMAIN q \ {k} : \E j \in DOMAIN q2 : q2[j] = q[i]

\* What is not taken out of a list stays in it.
LEMMA TakingLeaves ==
    ASSUME NEW S, NEW q \in Seq(S)
    PROVE  /\ \A k \in DOMAIN q : Leaves(RemoveAt(q, k), q, k)
           /\ q # <<>> => Leaves(Front(q), q, Len(q)) /\ Leaves(Tail(q), q, 1)
<1>0. Len(q) \in Nat /\ DOMAIN q = 1..Len(q)
  OBVIOUS
<1>1. ASSUME NEW k \in DOMAIN q PROVE Leaves(RemoveAt(q, k), q, k)
  <2> DEFINE q2 == RemoveAt(q, k)
  <2>1. /\ q2 \in Seq(S) /\ Len(q2) = Len(q) - 1
        /\ \A i \in 1..(Len(q) - 1) : q2[i] = IF i < k THEN q[i] ELSE q[i + 1]
    BY RemoveAtElements
  <2> HIDE DEF q2
  <2>2. DOMAIN q2 = 1..(Len(q) - 1) /\ k \in 1..Len(q)
    BY <1>0, <2>1
  <2>3. ASSUME NEW i \in DOMAIN q \ {k} PROVE \E j \in DOMAIN q2 : q2[j] = q[i]
    <3>0. i \in 1..Len(q) /\ i # k
      BY <1>0
    <3>1. CASE i < k
      <4>1. i \in 1..(Len(q) - 1)
        BY <1>0, <2>2, <3>0, <3>1
      <4> QED
        BY <2>1, <2>2, <3>1, <4>1
    <3>2. CASE ~(i < k)
      <4>1. i - 1 \in 1..(Len(q) - 1) /\ ~(i - 1 < k) /\ (i - 1) + 1 = i
        BY <1>0, <2>2, <3>0, <3>2
      <4> QED
        BY <2>1, <2>2, <4>1
    <3> QED
      BY <3>1, <3>2
  <2> QED
    BY <2>3 DEF Leaves, q2
<1>2. ASSUME q # <<>> PROVE Leaves(Front(q), q, Len(q)) /\ Leaves(Tail(q), q, 1)
  <2>1. Len(q) >= 1
    BY <1>2
  <2>2. Leaves(Front(q), q, Len(q))
    <3>1. DOMAIN Front(q) = 1..Len(q) - 1 /\ \A i \in 1..Len(q) - 1 : Front(q)[i] = q[i]
      BY <1>0, <2>1 DEF Front
    <3> QED
      BY <1>0, <3>1 DEF Leaves
  <2>3. Leaves(Tail(q), q, 1)
    <3>1. /\ DOMAIN Tail(q) = 1..Len(q) - 1
          /\ \A i \in 1..Len(q) - 1 : Tail(q)[i] = q[i + 1]
      BY <1>0, <2>1, <1>2
    <3>2. ASSUME NEW i \in DOMAIN q \ {1} PROVE \E j \in DOMAIN Tail(q) : Tail(q)[j] = q[i]
      <4>1. i - 1 \in 1..Len(q) - 1 /\ (i - 1) + 1 = i
        BY <1>0
      <4> QED
        BY <3>1, <4>1
    <3> QED
      BY <3>2 DEF Leaves
  <2> QED
    BY <2>2, <2>3
<1> QED
  BY <1>1, <1>2

\* The ids of what stays.
LEMMA LeftIds ==
    ASSUME NEW q, NEW q2, NEW k \in DOMAIN q, Leaves(q2, q, k)
    PROVE  /\ SeqIds(q) \subseteq SeqIds(q2) \cup {q[k].id}
           /\ ReqIds(q) \subseteq ReqIds(q2) \cup Ids(q[k].conn)
<1>1. SeqIds(q) \subseteq SeqIds(q2) \cup {q[k].id}
  BY DEF Leaves, SeqIds
<1>2. ASSUME NEW i \in DOMAIN q, NEW c \in q[i].conn
      PROVE  c.id \in ReqIds(q2) \cup Ids(q[k].conn)
  <2>1. CASE i = k
    BY <2>1 DEF Ids
  <2>2. CASE i # k
    <3>1. PICK j \in DOMAIN q2 : q2[j] = q[i]
      BY <2>2 DEF Leaves
    <3> QED
      BY <3>1 DEF ReqIds
  <2> QED
    BY <2>1, <2>2
<1>3. ReqIds(q) \subseteq ReqIds(q2) \cup Ids(q[k].conn)
  BY <1>2 DEF ReqIds
<1> QED
  BY <1>1, <1>3

\* A list of requests drawn from a tame one is tame.
LEMMA DrawnTame ==
    ASSUME NEW q, NEW q2, NEW k, DrawnWithout(q2, q, k), NEW C, NEW W, Tame(q, C, W)
    PROVE  /\ Tame(q2, C, W)
           /\ \A i \in DOMAIN q2 : \E j \in DOMAIN q \ {k} : q2[i] = q[j]
<1>1. PICK f \in [DOMAIN q2 -> DOMAIN q \ {k}] :
          /\ \A i, j \in DOMAIN q2 : f[i] = f[j] => i = j
          /\ \A i \in DOMAIN q2 : q2[i] = q[f[i]]
  BY DEF DrawnWithout
<1>2. \A i \in DOMAIN q2 : f[i] \in DOMAIN q \ {k} /\ q2[i] = q[f[i]]
  BY <1>1
<1>3. ASSUME NEW i \in DOMAIN q2, NEW j \in DOMAIN q2, q2[i].task = q2[j].task PROVE i = j
  <2>1. f[i] = f[j]
    BY <1>2, <1>3 DEF Tame
  <2> QED
    BY <1>1, <2>1
<1>4. \A i \in DOMAIN q2 : TameReq(q2[i], C, W)
  BY <1>2 DEF Tame
<1> QED
  BY <1>2, <1>3, <1>4 DEF Tame

\* The request at the position of a task is that task's.
LEMMA PositionTask ==
    ASSUME NEW s, NEW t, HasRequest(s, t)
    PROVE  /\ RequestPosition(s, t) \in DOMAIN s.requests
           /\ s.requests[RequestPosition(s, t)].task = t
  BY DEF HasRequest, RequestPosition

\* A request is removed.
LEMMA RemoveLeaves ==
    ASSUME NEW s, PoolType(s), NEW C, NEW W, Tame(s.requests, C, W), NEW i \in DOMAIN s.requests
    PROVE  LET s2 == [s EXCEPT !.requests = RemoveAt(@, i)]
           IN  /\ PoolType(s2) /\ Tame(s2.requests, C, W) /\ s2.open = s.open
               /\ Placed(s) \subseteq Placed(s2) \cup Ids(s.requests[i].conn)
               /\ \A t : HasRequest(s2, t) => HasRequest(s, t) /\ t # s.requests[i].task
<1> DEFINE s2 == [s EXCEPT !.requests = RemoveAt(@, i)]
           q == RemoveAt(s.requests, i)
<1>1. s.requests \in Seq(Request)
  BY Fields
<1>2. DrawnWithout(q, s.requests, i) /\ Leaves(q, s.requests, i)
  BY <1>1, RemoveAtDraws, TakingLeaves
<1>3. PoolType(s2)
  BY WithoutRequestType
<1> HIDE DEF q
<1>4. /\ s2.requests = q /\ s2.open = s.open /\ s2.free_new = s.free_new
      /\ s2.free_used = s.free_used /\ s2.busy = s.busy /\ s2.to_drop = s.to_drop
  BY DEF PoolType, PoolStates, q
<1> HIDE DEF s2
<1>5. Tame(q, C, W) /\ \A k \in DOMAIN q : \E j \in DOMAIN s.requests \ {i} : q[k] = s.requests[j]
  BY <1>2, DrawnTame
<1>6. ReqIds(s.requests) \subseteq ReqIds(q) \cup Ids(s.requests[i].conn)
  BY <1>2, LeftIds
<1>7. Placed(s) \subseteq Placed(s2) \cup Ids(s.requests[i].conn)
  BY <1>4, <1>6 DEF Placed
<1>8. \A t : HasRequest(s2, t) => HasRequest(s, t) /\ t # s.requests[i].task
  BY <1>4, <1>5 DEF HasRequest, Tame
<1>9. /\ PoolType(s2) /\ Tame(s2.requests, C, W) /\ s2.open = s.open
      /\ Placed(s) \subseteq Placed(s2) \cup Ids(s.requests[i].conn)
      /\ \A t : HasRequest(s2, t) => HasRequest(s, t) /\ t # s.requests[i].task
  BY <1>3, <1>4, <1>5, <1>7, <1>8
<1> QED
  BY <1>9 DEF s2

\* A request is changed and keeps its connection.
LEMMA SetCarries ==
    ASSUME NEW s, PoolType(s), NEW C, NEW W, Tame(s.requests, C, W), NEW i \in DOMAIN s.requests,
           NEW r \in Request, NEW D, NEW V,
           \A j \in DOMAIN s.requests \ {i} : TameReq(s.requests[j], D, V),
           TameReq(r, D, V), r.task = s.requests[i].task, s.requests[i].conn \subseteq r.conn
    PROVE  PoolType(SetRequest(s, i, r)) /\ Carries(s, SetRequest(s, i, r), Ids(r.conn), D, V)
<1> DEFINE s2 == SetRequest(s, i, r)
           q == s.requests
           p == s2.requests
<1>1. q \in Seq(Request)
  BY Fields
<1>2. PoolType(s2)
  BY SetRequestType
<1>3. /\ p = [q EXCEPT ![i] = r] /\ s2.open = s.open /\ s2.free_new = s.free_new
      /\ s2.free_used = s.free_used /\ s2.busy = s.busy /\ s2.to_drop = s.to_drop
  BY DEF SetRequest, PoolType, PoolStates
<1>4. DOMAIN p = DOMAIN q /\ p[i] = r /\ \A j \in DOMAIN q \ {i} : p[j] = q[j]
  BY <1>1, <1>3
<1> HIDE DEF s2, p
<1>5. Tame(p, D, V)
  <2>1. \A j \in DOMAIN q : p[j].task = q[j].task
    BY <1>4
  <2>2. \A j, k \in DOMAIN p : p[j].task = p[k].task => j = k
    BY <1>4, <2>1 DEF Tame
  <2>3. \A j \in DOMAIN p : TameReq(p[j], D, V)
    BY <1>4
  <2> QED
    BY <2>2, <2>3 DEF Tame
<1>6. ReqIds(q) \cup Ids(r.conn) \subseteq ReqIds(p)
  <2>1. \A j \in DOMAIN q : j \in DOMAIN p /\ q[j].conn \subseteq p[j].conn
    BY <1>4
  <2>2. ReqIds(q) \subseteq ReqIds(p)
    BY <2>1 DEF ReqIds
  <2>3. Ids(r.conn) \subseteq ReqIds(p)
    BY <1>4 DEF ReqIds, Ids
  <2> QED
    BY <2>2, <2>3
<1>7. Placed(s) \cup Ids(r.conn) \subseteq Placed(s2)
  BY <1>3, <1>6 DEF Placed, p
<1>8. \A t : HasRequest(s2, t) => HasRequest(s, t)
  <2>1. \A j \in DOMAIN q : p[j].task = q[j].task
    BY <1>4
  <2> QED
    BY <1>4, <2>1 DEF HasRequest, p
<1>9. PoolType(s2) /\ Carries(s, s2, Ids(r.conn), D, V)
  BY <1>2, <1>3, <1>5, <1>7, <1>8 DEF Carries, p
<1> QED
  BY <1>9 DEF s2

\* More requests may be in the reaper's hands, and fewer must be.
LEMMA TameWeaker ==
    ASSUME NEW q, NEW C, NEW W, Tame(q, C, W), NEW D, NEW V, C \subseteq D, V \subseteq W
    PROVE  Tame(q, D, V)
  BY DEF Tame, TameReq

\* A step and the signal after it.
LEMMA CarriesOn ==
    ASSUME NEW s, NEW s1, PoolType(s1), NEW X, NEW C, NEW W, Carries(s, s1, X, C, W)
    PROVE  /\ Carries(s, NotifyBg(s1), X, C, W) /\ Carries(s, WakeWaiters(s1), X, C, W)
           /\ \A t : Carries(s, Park(s1, t), X, C, W)
<1>1. Tame(s1.requests, C, W)
  BY DEF Carries
<1>2. /\ Carries(s1, NotifyBg(s1), {}, C, W) /\ Carries(s1, WakeWaiters(s1), {}, C, W)
      /\ \A t : Carries(s1, Park(s1, t), {}, C, W)
  BY <1>1, SignalsCarry
<1> QED
  BY <1>2 DEF Carries

\* reject_request files the connection of a request that left the queue.
LEMMA RejectCarries ==
    ASSUME NEW s, PoolType(s), NEW C, NEW W, Tame(s.requests, C, W), NEW r \in Request
    PROVE  Carries(s, Reject(s, r), Ids(r.conn), C, W)
<1>1. CASE r.conn = {}
  <2>1. Ids(r.conn) = {}
    BY <1>1 DEF Ids
  <2> QED
    BY <1>1, <2>1, SignalsCarry DEF Reject
<1>2. CASE r.conn # {}
  <2> DEFINE conn == CHOOSE c \in r.conn : TRUE
             d == [s EXCEPT !.to_drop = s.to_drop \cup {NotExtra(conn)}]
             n == [s EXCEPT !.free_new = Append(s.free_new, conn)]
             u == [s EXCEPT !.free_used = Append(s.free_used, conn)]
  <2>1. conn \in r.conn /\ conn \in PooledConn /\ r.conn = {conn}
    BY <1>2, RequestFields, OptionIsFinite
  <2> HIDE DEF conn
  <2>2. Ids(r.conn) = {conn.id}
    BY <2>1 DEF Ids
  <2>3. PoolType(d) /\ Carries(s, d, {conn.id}, C, W)
    <3>1. NotExtra(conn) \in PooledConn /\ NotExtra(conn).id = conn.id
      BY <2>1, NotExtraId
    <3>2. Carries(s, d, {NotExtra(conn).id}, C, W)
      BY <3>1, PutCarries
    <3> QED
      BY <3>1, <3>2, Fields, ToDropType
  <2>4. PoolType(n) /\ Carries(s, n, {conn.id}, C, W)
    BY <2>1, Fields, AppendProperties, FreeListsType, PutCarries
  <2>5. PoolType(u) /\ Carries(s, u, {conn.id}, C, W)
    BY <2>1, Fields, AppendProperties, FreeListsType, PutCarries
  <2>6. Reject(s, r) = WakeWaiters(
            CASE ~s.open \/ conn.is_pool_extra -> NotifyBg(d)
              [] s.open /\ ~conn.is_pool_extra /\ ~conn.ever_acquired -> n
              [] OTHER -> u)
    BY <1>2 DEF Reject, conn
  <2> HIDE DEF d, n, u
  <2>7. PoolType(NotifyBg(d)) /\ Carries(s, NotifyBg(d), {conn.id}, C, W)
    BY <2>3, NotifyBgType, CarriesOn
  <2>8. ASSUME NEW v, PoolType(v), Carries(s, v, {conn.id}, C, W)
        PROVE  Carries(s, WakeWaiters(v), Ids(r.conn), C, W)
    BY <2>2, <2>8, CarriesOn
  <2> QED
    BY <2>4, <2>5, <2>6, <2>7, <2>8
<1> QED
  BY <1>1, <1>2

\* A request leaves the queue and its connection is filed.
LEMMA RemoveAndRejectCarries ==
    ASSUME NEW s, PoolType(s), NEW C, NEW W, Tame(s.requests, C, W),
           NEW i \in DOMAIN s.requests, NEW r \in Request, r.conn = s.requests[i].conn
    PROVE  Carries(s, Reject([s EXCEPT !.requests = RemoveAt(@, i)], r), {}, C, W)
<1> DEFINE s1 == [s EXCEPT !.requests = RemoveAt(@, i)]
<1>1. /\ PoolType(s1) /\ Tame(s1.requests, C, W) /\ s1.open = s.open
      /\ Placed(s) \subseteq Placed(s1) \cup Ids(r.conn)
      /\ \A t : HasRequest(s1, t) => HasRequest(s, t)
  BY RemoveLeaves
<1> HIDE DEF s1
<1>2. Carries(s1, Reject(s1, r), Ids(r.conn), C, W)
  BY <1>1, RejectCarries
<1>3. Carries(s, Reject(s1, r), {}, C, W)
  BY <1>1, <1>2 DEF Carries
<1> QED
  BY <1>3 DEF s1

\* abandon_request files the connection of a request unless the reaper has it.
LEMMA AbandonCarries ==
    ASSUME NEW s, PoolType(s), NEW C, NEW W, Tame(s.requests, C, W), NEW t
    PROVE  Carries(s, AbandonRequest(s, t), {}, C, W)
<1> DEFINE i == RequestPosition(s, t)
           r == [s.requests[i] EXCEPT !.waiting = FALSE]
<1>1. CASE ~HasRequest(s, t)
  BY <1>1, SignalsCarry DEF AbandonRequest
<1>2. CASE HasRequest(s, t)
  <2>1. i \in DOMAIN s.requests /\ s.requests[i] \in Request
    BY <1>2, PositionIn, RequestIn
  <2> HIDE DEF i
  <2>2. /\ r \in Request /\ r.conn = s.requests[i].conn /\ r.task = s.requests[i].task
        /\ r.cclass = s.requests[i].cclass /\ r.completed = s.requests[i].completed
        /\ r.bg_processing = s.requests[i].bg_processing /\ ~r.waiting
    BY <2>1 DEF Request
  <2> HIDE DEF r
  <2>3. TameReq(r, C, W) /\ \A j \in DOMAIN s.requests : TameReq(s.requests[j], C, W)
    BY <2>1, <2>2 DEF Tame, TameReq
  <2>4. Carries(s, SetRequest(s, i, r), Ids(r.conn), C, W)
    BY <2>1, <2>2, <2>3, SetCarries
  <2>5. Carries(s, SetRequest(s, i, r), {}, C, W)
    BY <2>4 DEF Carries
  <2>6. Carries(s, Reject([s EXCEPT !.requests = RemoveAt(@, i)], s.requests[i]), {}, C, W)
    BY <2>1, RemoveAndRejectCarries
  <2> QED
    BY <1>2, <2>5, <2>6 DEF AbandonRequest, i, r
<1> QED
  BY <1>1, <1>2

\* enqueue_request adds a request without a connection, the first of its task.
LEMMA EnqueueCarries ==
    ASSUME NEW s, PoolType(s), NEW C, NEW W, Tame(s.requests, C, W), NEW t,
           NEW wantsNew, ~HasRequest(s, t), t \notin W
    PROVE  LET s2 == EnqueueRequest(s, t, PoolClass, wantsNew)
           IN  /\ Placed(s) \subseteq Placed(s2) /\ Tame(s2.requests, C, W)
               /\ \A u : HasRequest(s2, u) => HasRequest(s, u) \/ u = t
               /\ s2.open = s.open
<1> DEFINE r == [task |-> t, cclass |-> PoolClass, wants_new |-> wantsNew,
                 requires_ping |-> FALSE, bg_processing |-> FALSE,
                 is_extra |-> FALSE, is_replacing |-> FALSE,
                 in_progress |-> FALSE, completed |-> FALSE, waiting |-> TRUE,
                 conn |-> {}, error |-> FALSE]
           q == Append(s.requests, r)
           n == Len(s.requests)
           s2 == EnqueueRequest(s, t, PoolClass, wantsNew)
<1>1. r.conn = {} /\ r.task = t /\ r.cclass = PoolClass
  OBVIOUS
<1>2. /\ s2.free_new = s.free_new /\ s2.free_used = s.free_used
      /\ s2.busy = s.busy /\ s2.to_drop = s.to_drop /\ s2.requests = q
      /\ s2.open = s.open
  BY DEF EnqueueRequest, PoolType, PoolStates
<1> HIDE DEF r, s2
<1>3. /\ DOMAIN q = 1..(n + 1) /\ q[n + 1] = r
      /\ DOMAIN s.requests = 1..n /\ n \in Nat
      /\ \A i \in 1..n : q[i] = s.requests[i]
  BY Fields
<1> HIDE DEF q, n
<1>4. \A i \in DOMAIN q : \/ i \in DOMAIN s.requests /\ q[i] = s.requests[i]
                          \/ i = n + 1 /\ q[i] = r
  BY <1>3
<1>5. \A i \in DOMAIN s.requests : i \in DOMAIN q /\ q[i] = s.requests[i] /\ q[i].task # t
  BY <1>3 DEF HasRequest
<1>6. ReqIds(s.requests) \subseteq ReqIds(q)
  BY <1>5 DEF ReqIds
<1>7. Tame(q, C, W)
  <2>1. \A i, j \in DOMAIN q : q[i].task = q[j].task => i = j
    BY <1>1, <1>4, <1>5 DEF Tame
  <2>2. TameReq(r, C, W)
    BY <1>1 DEF TameReq
  <2>3. \A i \in DOMAIN q : TameReq(q[i], C, W)
    BY <1>4, <2>2 DEF Tame
  <2> QED
    BY <2>1, <2>3 DEF Tame
<1>8. Placed(s) \subseteq Placed(s2)
  BY <1>2, <1>6 DEF Placed
<1>9. \A u : HasRequest(s2, u) => HasRequest(s, u) \/ u = t
  BY <1>1, <1>2, <1>4 DEF HasRequest
<1> QED
  BY <1>2, <1>7, <1>8, <1>9 DEF s2

\* A connection taken off a free list is the only one that leaves its place.
LEMMA FreeListLeft ==
    ASSUME NEW s, PoolType(s), NEW q \in Seq(PooledConn), NEW k
    PROVE  /\ k \in DOMAIN s.free_new /\ Leaves(q, s.free_new, k) =>
                Placed(s) \subseteq Placed([s EXCEPT !.free_new = q]) \cup {s.free_new[k].id}
           /\ k \in DOMAIN s.free_used /\ Leaves(q, s.free_used, k) =>
                Placed(s) \subseteq Placed([s EXCEPT !.free_used = q]) \cup {s.free_used[k].id}
<1>1. ASSUME k \in DOMAIN s.free_new, Leaves(q, s.free_new, k)
      PROVE  Placed(s) \subseteq Placed([s EXCEPT !.free_new = q]) \cup {s.free_new[k].id}
  <2> DEFINE s2 == [s EXCEPT !.free_new = q]
  <2>1. /\ s2.requests = s.requests /\ s2.free_new = q
        /\ s2.free_used = s.free_used /\ s2.busy = s.busy /\ s2.to_drop = s.to_drop
    BY DEF PoolType, PoolStates
  <2> HIDE DEF s2
  <2>2. SeqIds(s.free_new) \subseteq SeqIds(q) \cup {s.free_new[k].id}
    BY <1>1, LeftIds
  <2>3. Placed(s) \subseteq Placed(s2) \cup {s.free_new[k].id}
    BY <2>1, <2>2 DEF Placed
  <2> QED
    BY <2>3 DEF s2
<1>2. ASSUME k \in DOMAIN s.free_used, Leaves(q, s.free_used, k)
      PROVE  Placed(s) \subseteq Placed([s EXCEPT !.free_used = q]) \cup {s.free_used[k].id}
  <2> DEFINE s2 == [s EXCEPT !.free_used = q]
  <2>1. /\ s2.requests = s.requests /\ s2.free_used = q
        /\ s2.free_new = s.free_new /\ s2.busy = s.busy /\ s2.to_drop = s.to_drop
    BY DEF PoolType, PoolStates
  <2> HIDE DEF s2
  <2>2. SeqIds(s.free_used) \subseteq SeqIds(q) \cup {s.free_used[k].id}
    BY <1>2, LeftIds
  <2>3. Placed(s) \subseteq Placed(s2) \cup {s.free_used[k].id}
    BY <2>1, <2>2 DEF Placed
  <2> QED
    BY <2>3 DEF s2
<1> QED
  BY <1>1, <1>2

\* Only the candidate leaves its place.
LEMMA WithoutCandidateLeaves ==
    ASSUME NEW s, PoolType(s), NEW i \in DOMAIN s.requests, HasCandidate(s, i)
    PROVE  /\ Placed(s) \subseteq Placed(WithoutCandidate(s, i)) \cup {Candidate(s, i).id}
           /\ WithoutCandidate(s, i).open = s.open
<1>1. s.free_used \in Seq(PooledConn) /\ s.free_new \in Seq(PooledConn)
  BY Fields
<1>2. CASE UsedCandidates(s, i) # {}
  <2> DEFINE k == Max(UsedCandidates(s, i))
             q == RemoveAt(s.free_used, k)
  <2>1. UsedCandidates(s, i) \in SUBSET (1..Len(s.free_used))
    BY <1>1 DEF UsedCandidates
  <2>2. k \in DOMAIN s.free_used
    BY <1>1, <1>2, <2>1, MaxIn, LenProperties
  <2> HIDE DEF k
  <2>3. q \in Seq(PooledConn) /\ Leaves(q, s.free_used, k)
    BY <1>1, <2>2, RemoveAtIn, TakingLeaves
  <2> HIDE DEF q
  <2>4. Placed(s) \subseteq Placed([s EXCEPT !.free_used = q]) \cup {s.free_used[k].id}
    BY <2>2, <2>3, FreeListLeft
  <2>5. [s EXCEPT !.free_used = q].open = s.open
    BY DEF PoolType, PoolStates
  <2>6. Candidate(s, i) = s.free_used[k] /\ WithoutCandidate(s, i) = [s EXCEPT !.free_used = q]
    BY <1>2 DEF Candidate, WithoutCandidate, k, q
  <2> QED
    BY <2>4, <2>5, <2>6
<1>3. CASE UsedCandidates(s, i) = {}
  <2> DEFINE q == Front(s.free_new)
             k == Len(s.free_new)
  <2>1. s.free_new # <<>>
    BY <1>3 DEF HasCandidate, NewCandidates
  <2>2. k \in DOMAIN s.free_new /\ Last(s.free_new) = s.free_new[k]
    BY <1>1, <2>1, FrontDraws
  <2>3. q \in Seq(PooledConn) /\ Leaves(q, s.free_new, k)
    BY <1>1, <2>1, FrontLastIn, TakingLeaves
  <2> HIDE DEF q, k
  <2>4. Placed(s) \subseteq Placed([s EXCEPT !.free_new = q]) \cup {s.free_new[k].id}
    BY <2>2, <2>3, FreeListLeft
  <2>5. [s EXCEPT !.free_new = q].open = s.open
    BY DEF PoolType, PoolStates
  <2>6. Candidate(s, i) = s.free_new[k] /\ WithoutCandidate(s, i) = [s EXCEPT !.free_new = q]
    BY <1>3, <2>2 DEF Candidate, WithoutCandidate, q
  <2> QED
    BY <2>4, <2>5, <2>6
<1> QED
  BY <1>2, <1>3

\* An unfit candidate goes to the close queue.
LEMMA CheckUnfitCarries ==
    ASSUME NEW s, PoolType(s), NEW C, NEW W, Tame(s.requests, C, W),
           NEW i \in DOMAIN s.requests, HasCandidate(s, i)
    PROVE  Carries(s, CheckUnfit(s, i), {}, C, W)
<1> DEFINE w == WithoutCandidate(s, i)
           conn == Candidate(s, i)
<1>1. conn \in PooledConn /\ PoolType(w) /\ w.requests = s.requests
  BY CandidateType
<1>2. Placed(s) \subseteq Placed(w) \cup {conn.id} /\ w.open = s.open
  BY WithoutCandidateLeaves
<1>3. CheckUnfit(s, i) = DropConn(w, conn)
  BY DEF CheckUnfit
<1> HIDE DEF w, conn
<1>4. Carries(w, DropConn(w, conn), {conn.id}, C, W)
  BY <1>1, DropConnCarries
<1>5. \A t : HasRequest(w, t) => HasRequest(s, t)
  BY <1>1 DEF HasRequest
<1> QED
  BY <1>2, <1>3, <1>4, <1>5 DEF Carries

\* finish_completed_request moves the connection of a request to busy.
LEMMA FinishCarries ==
    ASSUME NEW s, PoolType(s), NEW C, NEW W, Tame(s.requests, C, W), NEW i \in DOMAIN s.requests
    PROVE  Carries(s, FinishCompletedRequest(s, i), {}, C, W)
<1> DEFINE w == [s EXCEPT !.requests = RemoveAt(@, i)]
           conn == s.requests[i].conn
           taken == {[c EXCEPT !.ever_acquired = TRUE] : c \in conn}
           s2 == FinishCompletedRequest(s, i)
<1>1. /\ PoolType(w) /\ Tame(w.requests, C, W) /\ w.open = s.open
      /\ Placed(s) \subseteq Placed(w) \cup Ids(conn)
      /\ \A t : HasRequest(w, t) => HasRequest(s, t)
  BY RemoveLeaves
<1>2. /\ s2.free_new = w.free_new /\ s2.free_used = w.free_used
      /\ s2.busy = w.busy \cup taken /\ s2.to_drop = w.to_drop
      /\ s2.requests = w.requests /\ s2.open = w.open
  BY DEF FinishCompletedRequest, PoolType, PoolStates
<1>3. conn \subseteq PooledConn
  BY RequestIn, RequestFields, OptionIsFinite
<1>4. Ids(conn) \subseteq Ids(taken)
  <2>1. \A c \in conn : [c EXCEPT !.ever_acquired = TRUE].id = c.id
    BY <1>3 DEF PooledConn
  <2>2. \A c \in conn : \E d \in taken : d.id = c.id
    BY <2>1
  <2> HIDE DEF taken, conn
  <2> QED
    BY <2>2 DEF Ids
<1> HIDE DEF w, conn, taken, s2
<1>5. Placed(w) \cup Ids(conn) \subseteq Placed(s2)
  <2>1. Ids(s2.busy) = Ids(w.busy) \cup Ids(taken)
    BY <1>2, UnionIds
  <2> QED
    BY <1>2, <1>4, <2>1 DEF Placed
<1>6. \A t : HasRequest(s2, t) => HasRequest(s, t)
  BY <1>1, <1>2 DEF HasRequest
<1>7. Carries(s, s2, {}, C, W)
  BY <1>1, <1>2, <1>5, <1>6 DEF Carries
<1> QED
  BY <1>7 DEF s2

\* A fit candidate goes to a request that has none and is not the reaper's.
LEMMA CheckFitCarries ==
    ASSUME NEW s, PoolType(s), NEW C, NEW W, Tame(s.requests, C, W),
           NEW i \in DOMAIN s.requests, HasCandidate(s, i),
           s.requests[i].conn = {}, s.requests[i].task \notin W
    PROVE  Carries(s, CheckFit(s, i), {}, C, W)
<1> DEFINE w == WithoutCandidate(s, i)
           conn == Candidate(s, i)
           p == s.requests[i]
           fit == [p EXCEPT !.conn = {conn}, !.completed = TRUE]
<1>0. p \in Request /\ p = s.requests[i]
  BY RequestIn
<1>1. conn \in PooledConn /\ PoolType(w) /\ w.requests = s.requests
  BY CandidateType
<1>2. Placed(s) \subseteq Placed(w) \cup {conn.id} /\ w.open = s.open
  BY WithoutCandidateLeaves
<1>3. CheckFit(s, i) = SetRequest(w, i, fit)
  BY DEF CheckFit
<1> HIDE DEF w, conn, p
<1>4. {conn} \in Option(PooledConn)
  BY <1>1, OptionSome
<1>5. /\ fit \in Request /\ fit.conn = {conn} /\ fit.completed
      /\ fit.task = p.task /\ fit.cclass = p.cclass
  BY <1>0, <1>4 DEF Request
<1> HIDE DEF fit
<1>6. TameReq(fit, C, W) /\ \A j \in DOMAIN w.requests : TameReq(w.requests[j], C, W)
  BY <1>0, <1>1, <1>5 DEF Tame, TameReq
<1>7. Carries(w, SetRequest(w, i, fit), Ids(fit.conn), C, W)
  <2>1. Tame(w.requests, C, W) /\ i \in DOMAIN w.requests /\ w.requests[i] = s.requests[i]
    BY <1>1
  <2>2. w.requests[i].conn \subseteq fit.conn /\ fit.task = w.requests[i].task
    BY <1>0, <1>5, <2>1
  <2> QED
    BY <1>1, <1>5, <1>6, <2>1, <2>2, SetCarries
<1>8. Ids(fit.conn) = {conn.id}
  BY <1>5 DEF Ids
<1>9. \A t : HasRequest(w, t) => HasRequest(s, t)
  BY <1>1 DEF HasRequest
<1> QED
  BY <1>2, <1>3, <1>7, <1>8, <1>9 DEF Carries

\* A request without a connection is queued for the reaper.
LEMMA AddForBgCarries ==
    ASSUME NEW s, PoolType(s), NEW C, NEW W, Tame(s.requests, C, W),
           NEW i \in DOMAIN s.requests, s.requests[i].conn = {}, s.requests[i].task \notin W
    PROVE  Carries(s, AddRequestForBg(s, i), {}, C, W)
<1> DEFINE p == s.requests[i]
           r == [p EXCEPT !.bg_processing = TRUE, !.completed = FALSE]
           s1 == SetRequest(s, i, r)
<1>0. p \in Request /\ p = s.requests[i]
  BY RequestIn
<1> HIDE DEF p
<1>1. r \in Request /\ r.conn = p.conn /\ r.task = p.task /\ r.cclass = p.cclass
  BY <1>0 DEF Request
<1> HIDE DEF r
<1>2. TameReq(r, C, W) /\ \A j \in DOMAIN s.requests : TameReq(s.requests[j], C, W)
  BY <1>0, <1>1 DEF Tame, TameReq
<1>3. PoolType(s1) /\ Carries(s, s1, Ids(r.conn), C, W)
  BY <1>0, <1>1, <1>2, SetCarries
<1> HIDE DEF s1
<1>4. Carries(s, s1, {}, C, W)
  BY <1>3 DEF Carries
<1>5. Carries(s, NotifyBg(s1), {}, C, W)
  BY <1>3, <1>4, CarriesOn
<1> QED
  BY <1>5 DEF AddRequestForBg, r, s1, p

\* An idle connection gives way: from the end of a free list to the close queue.
LEMMA GiveWayCarries ==
    ASSUME NEW s, PoolType(s), NEW C, NEW W, Tame(s.requests, C, W)
    PROVE  /\ s.free_new # <<>> =>
                LET v == [s EXCEPT !.to_drop = @ \cup {Last(s.free_new)}, !.free_new = Front(@)]
                IN  PoolType(v) /\ Carries(s, v, {}, C, W) /\ v.requests = s.requests
           /\ s.free_used # <<>> =>
                LET v == [s EXCEPT !.to_drop = @ \cup {Last(s.free_used)}, !.free_used = Front(@)]
                IN  PoolType(v) /\ Carries(s, v, {}, C, W) /\ v.requests = s.requests
<1>1. ASSUME s.free_new # <<>>
      PROVE  LET v == [s EXCEPT !.to_drop = @ \cup {Last(s.free_new)}, !.free_new = Front(@)]
             IN  PoolType(v) /\ Carries(s, v, {}, C, W) /\ v.requests = s.requests
  <2> DEFINE q == s.free_new
             c == Last(q)
             f == Front(q)
             w == [s EXCEPT !.free_new = f]
             v == [w EXCEPT !.to_drop = w.to_drop \cup {c}]
  <2>1. q \in Seq(PooledConn)
    BY Fields
  <2>2. /\ Len(q) \in DOMAIN q /\ c = q[Len(q)] /\ Leaves(f, q, Len(q))
        /\ f \in Seq(PooledConn) /\ c \in PooledConn
    BY <1>1, <2>1, FrontDraws, FrontLastIn, TakingLeaves
  <2>3. PoolType(w)
    BY <2>2, FreeListsType, Fields
  <2>4. Placed(s) \subseteq Placed(w) \cup {c.id}
    <3> HIDE DEF f, c
    <3>1. Placed(s) \subseteq Placed(w) \cup {q[Len(q)].id}
      BY <2>2, FreeListLeft
    <3> QED
      BY <2>2, <3>1
  <2>5. w.requests = s.requests /\ w.open = s.open
    BY DEF PoolType, PoolStates
  <2>6. v = [s EXCEPT !.to_drop = @ \cup {Last(s.free_new)}, !.free_new = Front(@)]
    BY DEF PoolType, PoolStates
  <2>7. v.requests = s.requests
    BY DEF PoolType, PoolStates
  <2> HIDE DEF w, c, q, f
  <2>8. PoolType(v) /\ Carries(w, v, {c.id}, C, W)
    BY <2>2, <2>3, <2>5, Fields, ToDropType, PutCarries
  <2> HIDE DEF v
  <2>9. Carries(s, v, {}, C, W)
    BY <2>4, <2>5, <2>8 DEF Carries, HasRequest
  <2> QED
    BY <2>6, <2>7, <2>8, <2>9
<1>2. ASSUME s.free_used # <<>>
      PROVE  LET v == [s EXCEPT !.to_drop = @ \cup {Last(s.free_used)}, !.free_used = Front(@)]
             IN  PoolType(v) /\ Carries(s, v, {}, C, W) /\ v.requests = s.requests
  <2> DEFINE q == s.free_used
             c == Last(q)
             f == Front(q)
             w == [s EXCEPT !.free_used = f]
             v == [w EXCEPT !.to_drop = w.to_drop \cup {c}]
  <2>1. q \in Seq(PooledConn)
    BY Fields
  <2>2. /\ Len(q) \in DOMAIN q /\ c = q[Len(q)] /\ Leaves(f, q, Len(q))
        /\ f \in Seq(PooledConn) /\ c \in PooledConn
    BY <1>2, <2>1, FrontDraws, FrontLastIn, TakingLeaves
  <2>3. PoolType(w)
    BY <2>2, FreeListsType, Fields
  <2>4. Placed(s) \subseteq Placed(w) \cup {c.id}
    <3> HIDE DEF f, c
    <3>1. Placed(s) \subseteq Placed(w) \cup {q[Len(q)].id}
      BY <2>2, FreeListLeft
    <3> QED
      BY <2>2, <3>1
  <2>5. w.requests = s.requests /\ w.open = s.open
    BY DEF PoolType, PoolStates
  <2>6. v = [s EXCEPT !.to_drop = @ \cup {Last(s.free_used)}, !.free_used = Front(@)]
    BY DEF PoolType, PoolStates
  <2>7. v.requests = s.requests
    BY DEF PoolType, PoolStates
  <2> HIDE DEF w, c, q, f
  <2>8. PoolType(v) /\ Carries(w, v, {c.id}, C, W)
    BY <2>2, <2>3, <2>5, Fields, ToDropType, PutCarries
  <2> HIDE DEF v
  <2>9. Carries(s, v, {}, C, W)
    BY <2>4, <2>5, <2>8 DEF Carries, HasRequest
  <2> QED
    BY <2>6, <2>7, <2>8, <2>9
<1> QED
  BY <1>1, <1>2

\* fulfill without a candidate: at capacity an idle connection gives way.
LEMMA QueueForBgCarries ==
    ASSUME NEW s, PoolType(s), NEW C, NEW W, Tame(s.requests, C, W),
           NEW i \in DOMAIN s.requests, s.requests[i].conn = {}, s.requests[i].task \notin W
    PROVE  Carries(s, QueueForBg(s, i), {}, C, W)
<1> DEFINE o == s.requests[i]
           r == [o EXCEPT !.requires_ping = FALSE]
           s0 == SetRequest(s, i, r)
           rep == SetRequest(s, i, [r EXCEPT !.is_replacing = TRUE])
           ext == SetRequest(s, i, [r EXCEPT !.is_extra = TRUE])
           vnew == [rep EXCEPT !.to_drop = @ \cup {Last(s0.free_new)},
                               !.free_new = Front(@)]
           vused == [rep EXCEPT !.to_drop = @ \cup {Last(s0.free_used)},
                                !.free_used = Front(@)]
           grow == ScheduleOpenEffects(s0, GrowthFor(s0, i))
           Good(v) == /\ PoolType(v) /\ i \in DOMAIN v.requests /\ Carries(s, v, {}, C, W)
                      /\ v.requests[i].conn = {} /\ v.requests[i].task \notin W
           Alike(p) == p \in Request /\ p.conn = o.conn /\ p.task = o.task /\ p.cclass = o.cclass
<1>0. o \in Request /\ o = s.requests[i]
  BY RequestIn
<1> HIDE DEF o
<1>1. Alike(r) /\ Alike([r EXCEPT !.is_replacing = TRUE]) /\ Alike([r EXCEPT !.is_extra = TRUE])
  BY <1>0 DEF Request
<1> HIDE DEF r
<1>2. Good(s0) /\ Good(rep) /\ Good(ext)
  <2>1. ASSUME NEW p, Alike(p) PROVE Good(SetRequest(s, i, p))
    <3>1. /\ p \in Request /\ TameReq(p, C, W)
          /\ p.task = s.requests[i].task /\ s.requests[i].conn \subseteq p.conn
      BY <1>0, <2>1 DEF TameReq, Tame
    <3>2. \A j \in DOMAIN s.requests : TameReq(s.requests[j], C, W)
      BY DEF Tame
    <3>3. PoolType(SetRequest(s, i, p)) /\ Carries(s, SetRequest(s, i, p), Ids(p.conn), C, W)
      BY <3>1, <3>2, SetCarries
    <3>4. i \in DOMAIN SetRequest(s, i, p).requests /\ SetRequest(s, i, p).requests[i] = p
      BY <3>1, SetRequestType
    <3> QED
      BY <1>0, <2>1, <3>3, <3>4 DEF Carries
  <2> HIDE DEF Good, Alike
  <2> QED
    BY <1>1, <2>1
<1>3. rep.free_new = s0.free_new /\ rep.free_used = s0.free_used
  BY DEF SetRequest, PoolType, PoolStates
<1> HIDE DEF s0, rep, ext
<1>4. Tame(rep.requests, C, W) /\ Tame(s0.requests, C, W)
  BY <1>2 DEF Carries
<1>5. ASSUME NEW u, Good(u), NEW v, PoolType(v), Carries(u, v, {}, C, W), v.requests = u.requests
      PROVE  Good(v)
  <2>1. Carries(s, v, {}, C, W)
    BY <1>5 DEF Carries
  <2> QED
    BY <1>5, <2>1
<1>6. s0.free_new # <<>> => Good(vnew)
  <2>1. rep.free_new # <<>> => /\ PoolType(vnew) /\ Carries(rep, vnew, {}, C, W)
                               /\ vnew.requests = rep.requests
    BY <1>2, <1>3, <1>4, GiveWayCarries
  <2> HIDE DEF vnew, Good
  <2> QED
    BY <1>2, <1>3, <1>5, <2>1
<1>7. s0.free_used # <<>> => Good(vused)
  <2>1. rep.free_used # <<>> => /\ PoolType(vused) /\ Carries(rep, vused, {}, C, W)
                                /\ vused.requests = rep.requests
    BY <1>2, <1>3, <1>4, GiveWayCarries
  <2> HIDE DEF vused, Good
  <2> QED
    BY <1>2, <1>3, <1>5, <2>1
<1>8. Good(grow)
  <2> DEFINE n == GrowthFor(s0, i)
  <2>1. n \in Nat
    BY <1>2, GrowthIsNat
  <2> HIDE DEF n
  <2>2. PoolType(ScheduleOpenEffects(s0, n)) /\ Carries(s0, ScheduleOpenEffects(s0, n), {}, C, W)
    BY <1>2, <1>4, <2>1, ScheduleOpenEffectsType, SignalsCarry
  <2>3. ScheduleOpenEffects(s0, n).requests = s0.requests
    BY <1>2 DEF ScheduleOpenEffects, PoolType, PoolStates
  <2> HIDE DEF Good
  <2> QED
    BY <1>2, <1>5, <2>2, <2>3 DEF n
<1> HIDE DEF vnew, vused, grow
<1>9. QueueForBg(s, i) = AddRequestForBg(
         CASE AtCapacity(s0) /\ s0.free_new # <<>> -> vnew
           [] AtCapacity(s0) /\ s0.free_new = <<>> /\ s0.free_used # <<>> -> vused
           [] AtCapacity(s0) /\ NothingFree(s0) /\ s0.mode = "FORCEGET" -> ext
           [] ~AtCapacity(s0) /\ CclassMatches(s0.requests[i]) -> grow
           [] OTHER -> s0, i)
  BY DEF QueueForBg, o, r, s0, rep, ext, vnew, vused, grow
<1>10. ASSUME NEW v, Good(v) PROVE Carries(s, AddRequestForBg(v, i), {}, C, W)
  <2>1. Tame(v.requests, C, W)
    BY <1>10 DEF Carries
  <2>2. Carries(v, AddRequestForBg(v, i), {}, C, W)
    BY <1>10, <2>1, AddForBgCarries
  <2> QED
    BY <1>10, <2>2 DEF Carries
<1> HIDE DEF Good
<1> QED
  BY <1>2, <1>6, <1>7, <1>8, <1>9, <1>10

\* The request that is picked is queued for the reaper.
LEMMA PickedIsQueued ==
    ASSUME NEW s, PoolType(s), NEW t \in PeekNextRequest(s)
    PROVE  \E i \in DOMAIN s.requests : s.requests[i].task = t /\ QueuedForBg(s.requests[i])
<1> DEFINE queued == {i \in DOMAIN s.requests : QueuedForBg(s.requests[i])}
<1>1. queued # {} /\ t = s.requests[Min(queued)].task
  BY DEF PeekNextRequest
<1>2. queued \in SUBSET DOMAIN s.requests
  OBVIOUS
<1>3. Min(queued) \in queued
  <2>1. queued \in SUBSET (1..Len(s.requests)) /\ Len(s.requests) \in Nat
    BY Fields
  <2> HIDE DEF queued
  <2> QED
    BY <1>1, <2>1, MinIn
<1> QED
  BY <1>1, <1>3

\* get_next_request marks the request it picks.
LEMMA GetNextCarries ==
    ASSUME NEW s, PoolType(s), NEW C, Tame(s.requests, C, {})
    PROVE  Carries(s, GetNextRequest(s), {}, C, PeekNextRequest(s))
<1>1. CASE PeekNextRequest(s) = {}
  BY <1>1, SignalsCarry DEF GetNextRequest
<1>2. CASE PeekNextRequest(s) # {}
  <2> DEFINE P == PeekNextRequest(s)
             t == CHOOSE x \in P : TRUE
             i == RequestPosition(s, t)
             r == [s.requests[i] EXCEPT !.in_progress = s.requests[i].waiting]
  <2>1. t \in P /\ HasRequest(s, t) /\ P = {t}
    BY <1>2, PeekType, OptionIsFinite
  <2>2. PICK j \in DOMAIN s.requests : s.requests[j].task = t /\ QueuedForBg(s.requests[j])
    BY <2>1, PickedIsQueued
  <2>3. GetNextRequest(s) = SetRequest(s, i, r)
    BY <1>2 DEF GetNextRequest
  <2> HIDE DEF t, P
  <2>4. i \in DOMAIN s.requests /\ s.requests[i] \in Request /\ s.requests[i].task = t
    BY <2>1, PositionTask, RequestIn
  <2> HIDE DEF i
  <2>5. i = j
    BY <2>2, <2>4 DEF Tame
  <2>6. /\ r \in Request /\ r.conn = s.requests[i].conn /\ r.task = s.requests[i].task
        /\ r.cclass = s.requests[i].cclass /\ r.completed = s.requests[i].completed
        /\ r.bg_processing = s.requests[i].bg_processing
        /\ r.in_progress = r.waiting /\ r.waiting \in BOOLEAN
    BY <2>4 DEF Request
  <2> HIDE DEF r
  <2>7. TameReq(r, C, P)
    BY <2>2, <2>4, <2>5, <2>6 DEF Tame, TameReq, QueuedForBg
  <2>8. \A k \in DOMAIN s.requests \ {i} : TameReq(s.requests[k], C, P)
    <3>1. \A k \in DOMAIN s.requests \ {i} : s.requests[k].task # t
      BY <2>4 DEF Tame
    <3> QED
      BY <2>1, <3>1 DEF Tame, TameReq
  <2>9. Carries(s, SetRequest(s, i, r), Ids(r.conn), C, P)
    BY <2>4, <2>6, <2>7, <2>8, SetCarries
  <2> QED
    BY <2>3, <2>9 DEF Carries, P
<1> QED
  BY <1>1, <1>2

\* post_process_request: the reaper is done with the request of t.
LEMMA PostProcessCarries ==
    ASSUME NEW s, PoolType(s), NEW t, Tame(s.requests, {t}, {t})
    PROVE  Carries(s, PostProcessRequest(s, t), {}, {}, {})
<1> DEFINE i == RequestPosition(s, t)
           r == s.requests[i]
           r0 == [r EXCEPT !.in_progress = FALSE, !.bg_processing = FALSE,
                           !.completed = @ \/ r.conn # {}]
           s0 == SetRequest(s, i, r0)
           s1 == IF r.conn = {} /\ r.requires_ping
                 THEN EnsureMinConnections(s0) ELSE s0
           gone == Reject([s1 EXCEPT !.requests = RemoveAt(@, i)], r)
<1>1. CASE ~HasRequest(s, t)
  <2>1. Tame(s.requests, {}, {})
    BY <1>1 DEF Tame, TameReq, HasRequest
  <2> QED
    BY <1>1, <2>1, SignalsCarry DEF PostProcessRequest
<1>2. CASE HasRequest(s, t)
  <2>1. i \in DOMAIN s.requests /\ r \in Request /\ r.task = t
    BY <1>2, PositionTask, RequestIn
  <2>2. r = s.requests[i]
    OBVIOUS
  <2> HIDE DEF i, r
  <2>3. /\ r0 \in Request /\ r0.conn = r.conn /\ r0.task = r.task /\ r0.cclass = r.cclass
        /\ r.conn # {} => r0.completed
    BY <2>1 DEF Request
  <2> HIDE DEF r0
  <2>4. /\ TameReq(r0, {}, {})
        /\ \A j \in DOMAIN s.requests \ {i} : TameReq(s.requests[j], {}, {})
    <3>1. \A j \in DOMAIN s.requests \ {i} : s.requests[j].task # t
      BY <2>1, <2>2 DEF Tame
    <3>2. r.cclass = PoolClass
      BY <2>1, <2>2 DEF Tame, TameReq
    <3> QED
      BY <2>3, <3>1, <3>2 DEF Tame, TameReq
  <2>5. PoolType(s0) /\ Carries(s, s0, Ids(r0.conn), {}, {})
    BY <2>1, <2>2, <2>3, <2>4, SetCarries
  <2>6. i \in DOMAIN s0.requests /\ s0.requests[i] = r0
    BY <2>1, <2>3, SetRequestType
  <2> HIDE DEF s0
  <2>7. Carries(s, s0, {}, {}, {}) /\ Tame(s0.requests, {}, {})
    BY <2>5 DEF Carries
  <2> DEFINE e == EnsureMinConnections(s0)
  <2>8. PoolType(e) /\ Carries(s, e, {}, {}, {}) /\ e.requests = s0.requests
    <3>1. PoolType(e) /\ Carries(s0, e, {}, {}, {})
      BY <2>5, <2>7, EnsureMinConnectionsType, EnsureMinCarries
    <3>2. e.requests = s0.requests
      BY <2>5 DEF EnsureMinConnections, NotifyBg, ScheduleOpenEffects, PoolType, PoolStates
    <3> HIDE DEF e
    <3> QED
      BY <2>7, <3>1, <3>2 DEF Carries
  <2>9. /\ PoolType(s1) /\ i \in DOMAIN s1.requests /\ Carries(s, s1, {}, {}, {})
        /\ s1.requests[i].conn = r.conn
    BY <2>3, <2>5, <2>6, <2>7, <2>8
  <2> HIDE DEF s1
  <2>10. PoolType(gone) /\ Carries(s, gone, {}, {}, {})
    <3>1. PoolType(gone)
      BY <2>1, <2>9, WithoutRequestType, RejectType
    <3>2. Tame(s1.requests, {}, {})
      BY <2>9 DEF Carries
    <3>3. Carries(s1, gone, {}, {}, {})
      BY <2>1, <2>9, <3>2, RemoveAndRejectCarries
    <3> HIDE DEF gone
    <3> QED
      BY <2>9, <3>1, <3>3 DEF Carries
  <2>11. PostProcessRequest(s, t) = WakeWaiters(IF r.waiting THEN s1 ELSE gone)
    BY <1>2 DEF PostProcessRequest, i, r, r0, s0, s1
  <2> HIDE DEF gone
  <2> QED
    BY <2>9, <2>10, <2>11, CarriesOn
<1> QED
  BY <1>1, <1>2

\* A connection is handed to a request that awaits one.
LEMMA HandOverCarries ==
    ASSUME NEW s, PoolType(s), NEW C, NEW W, Tame(s.requests, C, W),
           NEW i \in DOMAIN s.requests, AwaitsConn(s.requests[i]), NEW c \in PooledConn
    PROVE  Carries(s, HandOver(s, i, c), {c.id}, C, W)
<1> DEFINE p == s.requests[i]
           r == [p EXCEPT !.conn = {c}, !.completed = TRUE, !.bg_processing = FALSE]
           s1 == SetRequest(s, i, r)
<1>0. p \in Request /\ p = s.requests[i]
  BY RequestIn
<1> HIDE DEF p
<1>1. {c} \in Option(PooledConn)
  BY OptionSome
<1>2. r \in Request /\ r.conn = {c} /\ r.task = p.task /\ r.cclass = p.cclass /\ r.completed
  BY <1>0, <1>1 DEF Request
<1> HIDE DEF r
<1>3. p.conn = {} /\ p.task \notin W /\ p.cclass = PoolClass
  BY <1>0 DEF AwaitsConn, Tame, TameReq
<1>4. TameReq(r, C, W) /\ \A j \in DOMAIN s.requests : TameReq(s.requests[j], C, W)
  BY <1>2, <1>3 DEF Tame, TameReq
<1>5. PoolType(s1) /\ Carries(s, s1, Ids(r.conn), C, W)
  BY <1>0, <1>2, <1>3, <1>4, SetCarries
<1> HIDE DEF s1
<1>6. Ids(r.conn) = {c.id}
  BY <1>2 DEF Ids
<1>7. Carries(s, WakeWaiters(s1), {c.id}, C, W)
  BY <1>5, <1>6, CarriesOn
<1> QED
  BY <1>7 DEF HandOver, r, s1, p

\* The first of some positions is one of them.
LEMMA FirstOf ==
    ASSUME NEW s, PoolType(s), NEW D \in SUBSET DOMAIN s.requests, D # {}
    PROVE  Min(D) \in D
<1>1. D \in SUBSET (1..Len(s.requests)) /\ Len(s.requests) \in Nat
  BY Fields
<1> QED
  BY <1>1, MinIn

\* complete_open_effect touches no list.
LEMMA CompleteCarries ==
    ASSUME NEW s, PoolType(s), NEW C, NEW W, Tame(s.requests, C, W), NEW id
    PROVE  LET s0 == CompleteOpenEffect(s, id)
           IN  /\ PoolType(s0) /\ Carries(s, s0, {}, C, W) /\ s0.requests = s.requests
               /\ s0.free_new = s.free_new /\ s0.free_used = s.free_used
               /\ s0.busy = s.busy /\ s0.to_drop = s.to_drop /\ s0.open = s.open
<1> DEFINE s0 == CompleteOpenEffect(s, id)
<1>1. PoolType(s0)
  BY CompleteOpenEffectType
<1>2. /\ s0.requests = s.requests /\ s0.open = s.open /\ s0.free_new = s.free_new
      /\ s0.free_used = s.free_used /\ s0.busy = s.busy /\ s0.to_drop = s.to_drop
  BY DEF CompleteOpenEffect, PoolType, PoolStates
<1> HIDE DEF s0
<1>3. Carries(s, s0, {}, C, W)
  BY <1>2, ListsAlone
<1> QED
  BY <1>1, <1>2, <1>3 DEF s0

\* A refused open marks a request.
LEMMA PostCreateFailedCarries ==
    ASSUME NEW s, PoolType(s), NEW C, Tame(s.requests, C, {}), NEW id
    PROVE  Carries(s, PostCreateFailed(s, id), {}, C, {})
<1> DEFINE s0 == CompleteOpenEffect(s, id)
           told == {i \in DOMAIN s0.requests :
                      LET r == s0.requests[i]
                      IN /\ r.bg_processing /\ r.waiting /\ ~r.requires_ping
                         /\ ~r.is_extra /\ ~r.is_replacing
                         /\ CclassMatches(r) /\ r.conn = {}}
           p == s0.requests[Min(told)]
           r0 == [p EXCEPT !.bg_processing = FALSE, !.error = TRUE]
           s1 == SetRequest(s0, Min(told), r0)
<1>1. PoolType(s0) /\ Carries(s, s0, {}, C, {}) /\ Tame(s0.requests, C, {})
  BY CompleteCarries DEF Carries
<1> HIDE DEF s0
<1>2. told \in SUBSET DOMAIN s0.requests
  OBVIOUS
<1> HIDE DEF told
<1>3. CASE told # {}
  <2>1. Min(told) \in DOMAIN s0.requests
    BY <1>1, <1>2, <1>3, FirstIn
  <2>2. p \in Request /\ p = s0.requests[Min(told)]
    BY <1>1, <2>1, RequestIn
  <2> HIDE DEF p
  <2>3. /\ r0 \in Request /\ r0.conn = p.conn /\ r0.task = p.task
        /\ r0.cclass = p.cclass /\ r0.completed = p.completed
    BY <2>2 DEF Request
  <2> HIDE DEF r0
  <2>4. TameReq(r0, C, {}) /\ \A j \in DOMAIN s0.requests : TameReq(s0.requests[j], C, {})
    BY <1>1, <2>1, <2>2, <2>3 DEF Tame, TameReq
  <2>5. PoolType(s1) /\ Carries(s0, s1, Ids(r0.conn), C, {})
    BY <1>1, <2>1, <2>2, <2>3, <2>4, SetCarries
  <2> HIDE DEF s1
  <2>6. Carries(s, s1, {}, C, {})
    BY <1>1, <2>5 DEF Carries
  <2>7. Carries(s, WakeWaiters(s1), {}, C, {})
    BY <2>5, <2>6, CarriesOn
  <2> QED
    BY <1>1, <2>7 DEF PostCreateFailed, s0, told, p, r0, s1
<1>4. CASE told = {}
  BY <1>1, <1>4 DEF PostCreateFailed, s0, told
<1> QED
  BY <1>3, <1>4

\* post_create_conn gives a connection of the pool's class its first place.
LEMMA PostCreateConnCarries ==
    ASSUME NEW s, PoolType(s), NEW C, NEW W, Tame(s.requests, C, W),
           NEW c \in PooledConn, c.cclass = PoolClass
    PROVE  Carries(s, PostCreateConn(s, c), {c.id}, C, W)
<1> DEFINE s0 == CompleteOpenEffect(s, c.id)
           full == ActiveOpenCount(s0) + 1 >= PoolMax
           takers == {i \in DOMAIN s0.requests :
                        /\ AwaitsConn(s0.requests[i])
                        /\ \/ Accepts(s0.requests[i], c)
                           \/ ~CclassMatches(s0.requests[i]) /\ full}
           d == [s0 EXCEPT !.to_drop = s0.to_drop \cup {c}]
           n == [s0 EXCEPT !.free_new = Append(s0.free_new, c)]
           r0 == [s0.requests[Min(takers)] EXCEPT !.conn = {c}, !.is_replacing = TRUE]
           over == HandOver(s0, Min(takers), c)
           rep == SetRequest(s0, Min(takers), r0)
<1>1. PoolType(s0) /\ Carries(s, s0, {}, C, W) /\ Tame(s0.requests, C, W)
  BY CompleteCarries DEF Carries
<1>2. ASSUME NEW v, Carries(s0, v, {c.id}, C, W) PROVE Carries(s, v, {c.id}, C, W)
  <2> HIDE DEF s0
  <2> QED
    BY <1>1, <1>2 DEF Carries
<1> HIDE DEF s0
<1>3. takers \in SUBSET DOMAIN s0.requests /\ \A i \in takers : AwaitsConn(s0.requests[i])
  OBVIOUS
<1>4. \A i \in DOMAIN s0.requests : Accepts(s0.requests[i], c)
  BY <1>1 DEF Tame, TameReq, Accepts
<1> HIDE DEF takers
<1>5. Carries(s, NotifyBg(d), {c.id}, C, W)
  <2>1. PoolType(d) /\ Carries(s0, d, {c.id}, C, W)
    BY <1>1, Fields, ToDropType, PutCarries
  <2> HIDE DEF d
  <2> QED
    BY <1>2, <2>1, CarriesOn
<1>6. Carries(s, WakeWaiters(n), {c.id}, C, W)
  <2>1. PoolType(n) /\ Carries(s0, n, {c.id}, C, W)
    BY <1>1, Fields, AppendProperties, FreeListsType, PutCarries
  <2> HIDE DEF n
  <2> QED
    BY <1>2, <2>1, CarriesOn
<1>7. takers # {} => Carries(s, over, {c.id}, C, W) /\ Accepts(s0.requests[Min(takers)], c)
  <2>1. SUFFICES ASSUME takers # {}
                 PROVE Carries(s, over, {c.id}, C, W) /\ Accepts(s0.requests[Min(takers)], c)
    OBVIOUS
  <2>2. Min(takers) \in DOMAIN s0.requests /\ AwaitsConn(s0.requests[Min(takers)])
    BY <1>1, <1>3, <2>1, FirstOf
  <2>3. Carries(s0, over, {c.id}, C, W)
    BY <1>1, <2>2, HandOverCarries
  <2> HIDE DEF over
  <2> QED
    BY <1>2, <1>4, <2>2, <2>3
<1> HIDE DEF d, n, r0, rep, over
<1>8. PostCreateConn(s, c) =
        CASE ~s0.open -> NotifyBg(d)
          [] s0.open /\ takers = {} -> WakeWaiters(n)
          [] s0.open /\ takers # {} /\ Accepts(s0.requests[Min(takers)], c) -> over
          [] OTHER -> rep
  BY DEF PostCreateConn, s0, takers, d, n, r0, rep, over
<1>9. CASE takers = {}
  BY <1>5, <1>6, <1>8, <1>9
<1>10. CASE takers # {}
  BY <1>5, <1>7, <1>8, <1>10
<1> QED
  BY <1>9, <1>10

\* return_connection_helper gives a returned connection a place.
LEMMA ReturnCarries ==
    ASSUME NEW s, PoolType(s), NEW C, NEW W, Tame(s.requests, C, W), NEW c \in PooledConn,
           NEW fit \in BOOLEAN
    PROVE  Carries(s, ReturnConnectionHelper(s, c, fit), {c.id}, C, W)
<1> DEFINE takers == Takers(s, c)
           n == NotExtra(c)
           free == [s EXCEPT !.free_used = Append(s.free_used, n)]
<1>1. n \in PooledConn /\ n.id = c.id
  BY NotExtraId
<1>2. takers \in SUBSET DOMAIN s.requests /\ \A i \in takers : AwaitsConn(s.requests[i])
  BY DEF Takers
<1> HIDE DEF takers, n
<1>3. Carries(s, DropConn(s, n), {c.id}, C, W)
  BY <1>1, DropConnCarries
<1>4. Carries(s, free, {c.id}, C, W)
  BY <1>1, PutCarries
<1>5. takers # {} => Carries(s, HandOver(s, Min(takers), n), {c.id}, C, W)
  BY <1>1, <1>2, FirstOf, HandOverCarries
<1> HIDE DEF free
<1>6. PICK surplus \in BOOLEAN : ReturnConnectionHelper(s, c, fit) =
        CASE ~fit \/ surplus -> DropConn(s, n)
          [] fit /\ ~surplus /\ takers # {} -> HandOver(s, Min(takers), n)
          [] OTHER -> free
  BY DEF ReturnConnectionHelper, takers, free, n
<1> QED
  BY <1>3, <1>4, <1>5, <1>6

\* A connection that leaves busy is filed elsewhere.
LEMMA BusyCarries ==
    ASSUME NEW s, PoolType(s), NEW C, NEW W, Tame(s.requests, C, W), NEW c \in s.busy
    PROVE  /\ \A fit \in BOOLEAN :
                Carries(s, ReturnConnectionHelper(TakeBusy(s, c), c, fit), {}, C, W)
           /\ Carries(s, DropConn(TakeBusy(s, c), c), {}, C, W)
<1> DEFINE w == TakeBusy(s, c)
<1>1. PoolType(w) /\ c \in PooledConn
  BY TakeBusyType, Fields
<1>2. /\ w.requests = s.requests /\ w.open = s.open /\ w.free_new = s.free_new
      /\ w.free_used = s.free_used /\ w.busy = s.busy \ {c} /\ w.to_drop = s.to_drop
  BY DEF TakeBusy, PoolType, PoolStates
<1> HIDE DEF w
<1>3. Ids(s.busy) \subseteq Ids(w.busy) \cup {c.id}
  BY <1>2 DEF Ids
<1>4. Placed(s) \subseteq Placed(w) \cup {c.id}
  BY <1>2, <1>3 DEF Placed
<1>5. ASSUME NEW v, Carries(w, v, {c.id}, C, W) PROVE Carries(s, v, {}, C, W)
  BY <1>2, <1>4, <1>5 DEF Carries, HasRequest
<1>6. \A fit \in BOOLEAN : Carries(w, ReturnConnectionHelper(w, c, fit), {c.id}, C, W)
  BY <1>1, <1>2, ReturnCarries
<1>7. Carries(w, DropConn(w, c), {c.id}, C, W)
  BY <1>1, <1>2, DropConnCarries
<1> QED
  BY <1>5, <1>6, <1>7 DEF w

\* drain_drop_returns files the connection of a dropped guard.
LEMMA DrainedCarries ==
    ASSUME NEW s, PoolType(s), NEW C, NEW W, Tame(s.requests, C, W), NEW id,
           NEW fit \in BOOLEAN
    PROVE  Carries(s, Drained(s, id, fit), {}, C, W)
<1> DEFINE found == {c \in s.busy : c.id = id}
           conn == CHOOSE c \in found : TRUE
<1>1. CASE ~s.open \/ found = {}
  BY <1>1, SignalsCarry DEF Drained
<1>2. CASE s.open /\ found # {}
  <2>1. conn \in s.busy
    BY <1>2
  <2>2. Drained(s, id, fit) = ReturnConnectionHelper(TakeBusy(s, conn), conn, fit)
    BY <1>2 DEF Drained
  <2> HIDE DEF found, conn
  <2> QED
    BY <2>1, <2>2, BusyCarries
<1> QED
  BY <1>1, <1>2

\* sweep_idle_timeout moves the head of a free list to the close queue.
LEMMA SweepCarries ==
    ASSUME NEW s, PoolType(s), NEW C, NEW W, Tame(s.requests, C, W),
           NEW list \in {"free_new", "free_used"}, s[list] # <<>>
    PROVE  Carries(s, DropConn([s EXCEPT ![list] = Tail(@)], Head(s[list])), {}, C, W)
<1> DEFINE q == s[list]
           f == Tail(q)
           c == Head(q)
           w == [s EXCEPT ![list] = f]
<1>1. q \in Seq(PooledConn) /\ q # <<>>
  BY Fields
<1>2. f \in Seq(PooledConn) /\ c \in PooledConn /\ 1 \in DOMAIN q /\ c = q[1]
  BY <1>1
<1>3. Leaves(f, q, 1)
  BY <1>1, TakingLeaves
<1> HIDE DEF f, c
<1>4. PoolType(w) /\ Placed(s) \subseteq Placed(w) \cup {c.id}
  <2>1. CASE list = "free_new"
    BY <1>2, <1>3, <2>1, FreeListLeft, FreeListsType, Fields
  <2>2. CASE list = "free_used"
    BY <1>2, <1>3, <2>2, FreeListLeft, FreeListsType, Fields
  <2> QED
    BY <2>1, <2>2
<1>5. w.requests = s.requests /\ w.open = s.open
  BY DEF PoolType, PoolStates
<1>6. w = [s EXCEPT ![list] = Tail(@)]
  BY DEF PoolType, PoolStates, f
<1> HIDE DEF w
<1>7. Carries(w, DropConn(w, c), {c.id}, C, W)
  BY <1>2, <1>4, <1>5, DropConnCarries
<1>8. Carries(s, DropConn(w, c), {}, C, W)
  BY <1>4, <1>5, <1>7 DEF Carries, HasRequest
<1> QED
  BY <1>6, <1>8 DEF c

\* The shutdown section moves all connections to the close queue, and keeps the
\* requests the reaper works on.
LEMMA ShutDownKeeps ==
    ASSUME NEW s, PoolType(s), NEW C, NEW W, Tame(s.requests, C, W)
    PROVE  LET s2 == ShutDown(s)
           IN  /\ Placed(s2) = Placed(s) /\ Tame(s2.requests, {}, W) /\ ~s2.open
               /\ \A t : HasRequest(s2, t) => HasRequest(s, t)
               /\ s2.free_new = <<>> /\ s2.free_used = <<>> /\ s2.busy = {}
               /\ \A i \in DOMAIN s2.requests :
                    s2.requests[i].conn = {} /\ ~s2.requests[i].waiting
<1> DEFINE kept == InProgress(s.requests)
           Lay(r) == [r EXCEPT !.waiting = FALSE, !.conn = {}]
           left == [i \in DOMAIN kept |-> Lay(kept[i])]
           s2 == ShutDown(s)
<1>0. s.requests \in Seq(Request)
  BY Fields
<1>1. /\ kept \in Seq(Request)
      /\ \A k \in DOMAIN kept : \E j \in DOMAIN s.requests :
            kept[k] = s.requests[j] /\ s.requests[j].in_progress
      /\ \A k, l \in DOMAIN kept : kept[k].task = kept[l].task => k = l
  BY <1>0, InProgressKeeps DEF Tame
<1>2. /\ s2.free_new = <<>> /\ s2.free_used = <<>> /\ s2.busy = {}
      /\ s2.to_drop = OwnedConns(s) /\ s2.requests = left /\ s2.open = FALSE
  BY DEF ShutDown, NotifyBg, WakeWaiters, PoolType, PoolStates
<1> HIDE DEF kept, s2
<1>3. ASSUME NEW r \in Request
      PROVE  /\ Lay(r).conn = {} /\ ~Lay(r).waiting /\ Lay(r).task = r.task
             /\ Lay(r).cclass = r.cclass /\ Lay(r).bg_processing = r.bg_processing
             /\ Lay(r).completed = r.completed /\ Lay(r).in_progress = r.in_progress
  BY DEF Request
<1>4. \A i \in DOMAIN kept : kept[i] \in Request
  BY <1>1
<1>5. DOMAIN left = DOMAIN kept /\ \A i \in DOMAIN kept : left[i] = Lay(kept[i])
  OBVIOUS
<1> HIDE DEF left, Lay
<1>6. \A i \in DOMAIN left : left[i].conn = {} /\ ~left[i].waiting /\ left[i].task = kept[i].task
  BY <1>3, <1>4, <1>5
<1>7. ReqIds(left) = {}
  BY <1>6, NoConnsNoIds
<1>8. Placed(s2) = Placed(s)
  BY <1>2, <1>7, EmptyIds, OwnedIds DEF Placed
<1>9. Tame(left, {}, W)
  <2>1. \A i, j \in DOMAIN left : left[i].task = left[j].task => i = j
    BY <1>1, <1>5, <1>6
  <2>2. ASSUME NEW i \in DOMAIN left PROVE TameReq(left[i], {}, W)
    <3>1. TameReq(kept[i], C, W)
      BY <1>1, <1>5 DEF Tame
    <3> QED
      BY <1>3, <1>4, <1>5, <3>1 DEF TameReq
  <2> QED
    BY <2>1, <2>2 DEF Tame
<1>10. \A t : HasRequest(s2, t) => HasRequest(s, t)
  BY <1>1, <1>2, <1>5, <1>6 DEF HasRequest
<1>11. /\ Placed(s2) = Placed(s) /\ Tame(s2.requests, {}, W) /\ ~s2.open
       /\ \A t : HasRequest(s2, t) => HasRequest(s, t)
       /\ s2.free_new = <<>> /\ s2.free_used = <<>> /\ s2.busy = {}
       /\ \A i \in DOMAIN s2.requests :
            s2.requests[i].conn = {} /\ ~s2.requests[i].waiting
  BY <1>2, <1>6, <1>8, <1>9, <1>10
<1> QED
  BY <1>11 DEF s2

\* close_all_connections takes the connection out of every request.
LEMMA CloseAllKeeps ==
    ASSUME NEW s, PoolType(s), NEW C, NEW W, Tame(s.requests, C, W)
    PROVE  LET s2 == CloseAll(s)
           IN  /\ Tame(s2.requests, {}, W) /\ ~s2.open /\ Placed(s2) = {}
               /\ \A t : HasRequest(s2, t) => HasRequest(s, t)
               /\ s2.free_new = <<>> /\ s2.free_used = <<>> /\ s2.busy = {}
               /\ \A i \in DOMAIN s2.requests : s2.requests[i].conn = {}
<1> DEFINE q == s.requests
           Bare(r) == [r EXCEPT !.conn = {}]
           left == [i \in DOMAIN q |-> Bare(q[i])]
           s2 == CloseAll(s)
<1>1. /\ s2.free_new = <<>> /\ s2.free_used = <<>> /\ s2.busy = {}
      /\ s2.to_drop = {} /\ s2.requests = left /\ s2.open = FALSE
  BY DEF CloseAll, PoolType, PoolStates
<1> HIDE DEF s2
<1>2. ASSUME NEW r \in Request
      PROVE  /\ Bare(r).conn = {} /\ Bare(r).waiting = r.waiting /\ Bare(r).task = r.task
             /\ Bare(r).cclass = r.cclass /\ Bare(r).bg_processing = r.bg_processing
             /\ Bare(r).completed = r.completed /\ Bare(r).in_progress = r.in_progress
  BY DEF Request
<1>3. \A i \in DOMAIN q : q[i] \in Request
  BY RequestIn
<1>4. DOMAIN left = DOMAIN q /\ \A i \in DOMAIN q : left[i] = Bare(q[i])
  OBVIOUS
<1> HIDE DEF left, Bare
<1>5. \A i \in DOMAIN left : left[i].conn = {} /\ left[i].task = q[i].task
  BY <1>2, <1>3, <1>4
<1>6. ReqIds(left) = {}
  BY <1>5, NoConnsNoIds
<1>7. Placed(s2) = {}
  BY <1>1, <1>6, EmptyIds DEF Placed
<1>8. Tame(left, {}, W)
  <2>1. \A i, j \in DOMAIN left : left[i].task = left[j].task => i = j
    BY <1>4, <1>5 DEF Tame
  <2>2. ASSUME NEW i \in DOMAIN left PROVE TameReq(left[i], {}, W)
    <3>1. TameReq(q[i], C, W)
      BY <1>4 DEF Tame
    <3> QED
      BY <1>2, <1>3, <1>4, <3>1 DEF TameReq
  <2> QED
    BY <2>1, <2>2 DEF Tame
<1>9. \A t : HasRequest(s2, t) => HasRequest(s, t)
  BY <1>1, <1>4, <1>5 DEF HasRequest
<1>10. /\ Tame(s2.requests, {}, W) /\ ~s2.open /\ Placed(s2) = {}
       /\ \A t : HasRequest(s2, t) => HasRequest(s, t)
       /\ s2.free_new = <<>> /\ s2.free_used = <<>> /\ s2.busy = {}
       /\ \A i \in DOMAIN s2.requests : s2.requests[i].conn = {}
  BY <1>1, <1>5, <1>7, <1>8, <1>9
<1> QED
  BY <1>10 DEF s2

-----------------------------------------------------------------------------
(* The invariant that accounts for every session. *)

\* the request the reaper is about to post-process, and the one it works on
Posting == IF rpc = "post" THEN cur ELSE {}

Working ==
    IF rpc \in {"process", "create", "post"} \/ (rpc = "top" /\ pool.open) THEN cur ELSE {}

AtWork == {"top", "process", "create", "post"}

\* no connection needs a ping and every acquire names the pool's class
Calm == ~Event("ping") /\ ~Event("class")

LeakInv ==
    /\ rpc # "ping" /\ held = {}
    /\ rpc \notin AtWork => cur = {}
    /\ rpc = "open" => \A c \in fresh : c.cclass = PoolClass
    /\ Tame(pool.requests, Posting, Working)
    /\ \A t \in Tasks : pc[t] = "start" => ~HasRequest(pool, t) /\ t \notin cur
    /\ alive \subseteq Placed(pool)

\* What a step must do to keep it.
LEMMA LeakStep ==
    ASSUME LeakInv, NEW C, NEW W,
           rpc' # "ping", held' = {}, rpc' \notin AtWork => cur' = {},
           rpc' = "open" => \A c \in fresh' : c.cclass = PoolClass,
           Tame(pool'.requests, C, W), C \subseteq Posting', Working' \subseteq W,
           \A u \in Tasks : pc'[u] = "start" =>
               /\ pc[u] = "start"
               /\ HasRequest(pool', u) => HasRequest(pool, u)
               /\ u \in cur' => u \in cur \/ HasRequest(pool, u),
           alive' \subseteq Placed(pool')
    PROVE  LeakInv'
<1>1. Tame(pool'.requests, Posting', Working')
  <2> DEFINE D == Posting'
             V == Working'
  <2> HIDE DEF D, V
  <2>1. Tame(pool'.requests, D, V)
    BY TameWeaker DEF D, V
  <2> QED
    BY <2>1 DEF D, V
<1>2. \A u \in Tasks : pc'[u] = "start" => ~HasRequest(pool', u) /\ u \notin cur'
  BY DEF LeakInv
<1>3. (rpc # "ping" /\ held = {} /\ (rpc \notin AtWork => cur = {}))'
  BY DEF AtWork
<1>4. (\A u \in Tasks : pc[u] = "start" => ~HasRequest(pool, u) /\ u \notin cur)'
  BY <1>2 DEF HasRequest
<1>5. Tame(pool.requests, Posting, Working)'
  BY <1>1 DEF Tame, TameReq
<1>6. (alive \subseteq Placed(pool))'
  BY DEF Placed, SeqIds, ReqIds, Ids
<1> QED
  BY <1>3, <1>4, <1>5, <1>6 DEF LeakInv

\* the tasks that have not called acquire stay among those that have not
NoNewStarts == \A u \in Tasks : pc'[u] = "start" => pc[u] = "start"

\* the pool is neither closed nor, were that possible, opened again
OpenKept == pool'.open = pool.open

\* A step that files connections while the reaper stays where it is.
LEMMA QuietLeak ==
    ASSUME LeakInv, NEW s, Carries(pool, s, {}, Posting, Working), pool' = s,
           NoNewStarts, UNCHANGED <<rpc, cur, held, fresh, alive>>
    PROVE  LeakInv' /\ OpenKept
<1>1. Posting' = Posting /\ Working' = Working
  BY DEF Posting, Working, Carries
<1>2. /\ Tame(pool'.requests, Posting, Working) /\ Placed(pool) \subseteq Placed(pool')
      /\ \A u : HasRequest(pool', u) => HasRequest(pool, u)
  BY DEF Carries
<1>3. alive' \subseteq Placed(pool')
  BY <1>2 DEF LeakInv
<1>4. LeakInv'
  BY <1>1, <1>2, <1>3, LeakStep DEF LeakInv, NoNewStarts
<1> QED
  BY <1>4 DEF Carries, OpenKept

\* The pool of a calm engine.
LEMMA CalmPool ==
    ASSUME TypeOK, LeakInv
    PROVE  /\ PoolType(pool) /\ Tame(pool.requests, Posting, Working)
           /\ cur \in Option(Tasks) /\ Posting \subseteq Working /\ Working \subseteq cur
           /\ \A p : /\ PoolType(AfterDrain(p))
                     /\ Carries(pool, AfterDrain(p), {}, Posting, Working)
                     /\ \A u : HasRequest(AfterDrain(p), u) => HasRequest(pool, u)
<1>1. PoolType(pool) /\ Tame(pool.requests, Posting, Working) /\ cur \in Option(Tasks)
  BY EngineTypes DEF LeakInv, TypeOK
<1>2. Posting \subseteq Working /\ Working \subseteq cur
  BY DEF Posting, Working
<1>3. ASSUME NEW p
      PROVE  /\ PoolType(AfterDrain(p)) /\ Carries(pool, AfterDrain(p), {}, Posting, Working)
             /\ \A u : HasRequest(AfterDrain(p), u) => HasRequest(pool, u)
  <2>1. PoolType(AfterDrain(p))
    BY AfterDrainType
  <2>2. Carries(pool, AfterDrain(p), {}, Posting, Working)
    BY <1>1, SignalsCarry DEF AfterDrain
  <2> QED
    BY <2>1, <2>2 DEF Carries
<1> QED
  BY <1>1, <1>2, <1>3

\* A task that moves on.
LEMMA MovedOn ==
    ASSUME TypeOK, NEW t \in Tasks, NEW v, v # "start", pc' = [pc EXCEPT ![t] = v]
    PROVE  NoNewStarts
  BY DEF NoNewStarts, TypeOK

\* DrainOne loses no session.
LEMMA DrainOneLeaks ==
    ASSUME TypeOK, LeakInv, NEW p, DrainOne(p)
    PROVE  LeakInv' /\ OpenKept
<1>1. PICK fit \in BOOLEAN : Continue(p, Drained(pool, Head(drops), fit))
  BY DEF DrainOne, Fitness
<1>2. /\ pool' = Drained(pool, Head(drops), fit)
      /\ UNCHANGED <<pc, rpc, cur, held, fresh, alive>>
  BY <1>1 DEF Continue, DrainOne, taskVars, reaperVars
<1>3. Carries(pool, Drained(pool, Head(drops), fit), {}, Posting, Working)
  BY CalmPool, DrainedCarries
<1> QED
  BY <1>2, <1>3, QuietLeak DEF NoNewStarts

\* Observe loses no session.
LEMMA ObserveLeaks ==
    ASSUME TypeOK, LeakInv, Observe
    PROVE  LeakInv' /\ OpenKept
<1>1. pool' = AfterDrain(Observer) /\ UNCHANGED <<pc, rpc, cur, held, fresh, alive>>
  BY DEF Observe, Commit, taskVars, reaperVars
<1> QED
  BY <1>1, CalmPool, QuietLeak DEF NoNewStarts

\* Acquire adds a request of the pool's class, the only one of its task.
LEMMA AcquireLeaks ==
    ASSUME TypeOK, LeakInv, Calm, NEW t \in Tasks, Acquire(t)
    PROVE  LeakInv' /\ OpenKept
<1>1. UNCHANGED <<rpc, cur, held, fresh, alive>> /\ pc[t] = "start"
  BY DEF Acquire, reaperVars
<1>2. NoNewStarts /\ pc'[t] # "start"
  <2>1. pc' = [pc EXCEPT ![t] = "wait"] \/ pc' = [pc EXCEPT ![t] = "failed"]
    BY DEF Acquire
  <2> QED
    BY <2>1, MovedOn DEF TypeOK
<1> DEFINE d == AfterDrain(t)
<1>3. /\ PoolType(d) /\ Carries(pool, d, {}, Posting, Working)
      /\ \A u : HasRequest(d, u) => HasRequest(pool, u)
  BY CalmPool
<1>4. CASE pool.open
  <2>1. PICK cclass \in AskClasses, wantsNew \in AskNew :
               /\ cclass = PoolClass \/ Event("class")
               /\ Commit(EnqueueRequest(d, t, cclass, wantsNew))
    BY <1>4 DEF Acquire
  <2>2. pool' = EnqueueRequest(d, t, PoolClass, wantsNew)
    BY <2>1 DEF Calm, Commit
  <2>3. ~HasRequest(d, t) /\ t \notin Working
    BY <1>1, <1>3, CalmPool DEF LeakInv
  <2> HIDE DEF d
  <2>4. Tame(d.requests, Posting, Working) /\ Placed(pool) \subseteq Placed(d) /\ d.open = pool.open
    BY <1>3 DEF Carries
  <2>5. /\ Placed(d) \subseteq Placed(pool') /\ Tame(pool'.requests, Posting, Working)
        /\ \A u : HasRequest(pool', u) => HasRequest(d, u) \/ u = t
        /\ pool'.open = d.open
    <3> DEFINE e == EnqueueRequest(d, t, PoolClass, wantsNew)
    <3>1. /\ Placed(d) \subseteq Placed(e) /\ Tame(e.requests, Posting, Working)
          /\ \A u : HasRequest(e, u) => HasRequest(d, u) \/ u = t
          /\ e.open = d.open
      BY <1>3, <2>3, <2>4, EnqueueCarries
    <3> HIDE DEF e
    <3> QED
      BY <2>2, <3>1 DEF e
  <2>6. Posting' = Posting /\ Working' = Working
    BY <1>1, <2>4, <2>5 DEF Posting, Working
  <2>7. alive' \subseteq Placed(pool')
    BY <1>1, <2>4, <2>5 DEF LeakInv
  <2>8. \A u \in Tasks : pc'[u] = "start" =>
            pc[u] = "start" /\ (HasRequest(pool', u) => HasRequest(pool, u))
    BY <1>2, <1>3, <2>5 DEF NoNewStarts
  <2>9. /\ rpc' # "ping" /\ held' = {} /\ (rpc' \notin AtWork => cur' = {})
        /\ rpc' = "open" => \A c \in fresh' : c.cclass = PoolClass
    BY <1>1 DEF LeakInv
  <2>10. LeakInv'
    BY <1>1, <2>5, <2>6, <2>7, <2>8, <2>9, LeakStep
  <2> QED
    BY <2>4, <2>5, <2>10 DEF OpenKept
<1>5. CASE ~pool.open
  <2>1. pool' = d
    BY <1>5 DEF Acquire, Commit
  <2> QED
    BY <1>1, <1>2, <1>3, <2>1, QuietLeak
<1> QED
  BY <1>4, <1>5

\* PollFails files the connection of the request that failed.
LEMMA PollFailsLeaks ==
    ASSUME TypeOK, LeakInv, NEW t \in Tasks, PollFails(t)
    PROVE  LeakInv' /\ OpenKept
<1> DEFINE i == Position(t)
           p == pool.requests[i]
           r == [p EXCEPT !.error = FALSE]
           s == IF pool.open /\ HasRequest(pool, t) THEN SetRequest(pool, i, r) ELSE pool
<1>1. PoolType(pool) /\ Tame(pool.requests, Posting, Working)
  BY CalmPool
<1>2. PoolType(s) /\ Carries(pool, s, {}, Posting, Working)
  <2>1. CASE pool.open /\ HasRequest(pool, t)
    <3>1. i \in DOMAIN pool.requests /\ p \in Request /\ p = pool.requests[i]
      BY <2>1, PositionType DEF Req
    <3> HIDE DEF i, p
    <3>2. /\ r \in Request /\ r.conn = p.conn /\ r.task = p.task /\ r.cclass = p.cclass
          /\ r.completed = p.completed /\ r.bg_processing = p.bg_processing
          /\ r.in_progress = p.in_progress /\ r.waiting = p.waiting
      BY <3>1 DEF Request
    <3> HIDE DEF r
    <3>3. /\ TameReq(r, Posting, Working)
          /\ \A j \in DOMAIN pool.requests : TameReq(pool.requests[j], Posting, Working)
      BY <1>1, <3>1, <3>2 DEF Tame, TameReq
    <3>4. /\ PoolType(SetRequest(pool, i, r))
          /\ Carries(pool, SetRequest(pool, i, r), Ids(r.conn), Posting, Working)
      BY <1>1, <3>1, <3>2, <3>3, SetCarries
    <3> QED
      BY <2>1, <3>4 DEF Carries
  <2>2. CASE ~(pool.open /\ HasRequest(pool, t))
    BY <1>1, <2>2, SignalsCarry
  <2> QED
    BY <2>1, <2>2
<1>3. pool' = AbandonRequest(s, t)
  BY DEF PollFails, Commit
<1> HIDE DEF s
<1>4. Carries(s, AbandonRequest(s, t), {}, Posting, Working)
  BY <1>2, AbandonCarries DEF Carries
<1>5. Carries(pool, pool', {}, Posting, Working)
  BY <1>2, <1>3, <1>4 DEF Carries
<1>6. UNCHANGED <<rpc, cur, held, fresh, alive>> /\ pc' = [pc EXCEPT ![t] = "abort"]
  BY DEF PollFails, reaperVars
<1> QED
  BY <1>5, <1>6, MovedOn, QuietLeak

\* PollCompleted moves the connection to busy.
LEMMA PollCompletedLeaks ==
    ASSUME TypeOK, LeakInv, NEW t \in Tasks, PollCompleted(t)
    PROVE  LeakInv' /\ OpenKept
<1>1. Position(t) \in DOMAIN pool.requests
  BY PositionType DEF PollCompleted, Pollable
<1>2. /\ pool' = FinishCompletedRequest(pool, Position(t))
      /\ UNCHANGED <<rpc, cur, held, fresh, alive>>
      /\ pc' = [pc EXCEPT ![t] = "abort"] \/ pc' = [pc EXCEPT ![t] = "hold"]
  BY DEF PollCompleted, Commit, reaperVars
<1>3. Carries(pool, pool', {}, Posting, Working)
  BY <1>1, <1>2, CalmPool, FinishCarries
<1> QED
  BY <1>2, <1>3, MovedOn, QuietLeak

\* PollPending only parks.
LEMMA PollPendingLeaks ==
    ASSUME TypeOK, LeakInv, NEW t \in Tasks, PollPending(t)
    PROVE  LeakInv' /\ OpenKept
<1>1. pool' = Park(pool, t) /\ UNCHANGED <<pc, rpc, cur, held, fresh, alive>>
  BY DEF PollPending, Commit, taskVars, reaperVars
<1>2. Carries(pool, pool', {}, Posting, Working)
  BY <1>1, CalmPool, SignalsCarry
<1> QED
  BY <1>1, <1>2, QuietLeak DEF NoNewStarts

\* A request its task scans for has no connection and is not the reaper's.
LEMMA ScannedIsBare ==
    ASSUME TypeOK, LeakInv, NEW t \in Tasks, Scans(t)
    PROVE  /\ Position(t) \in DOMAIN pool.requests
           /\ pool.requests[Position(t)].conn = {}
           /\ pool.requests[Position(t)].task \notin Working
<1>1. HasRequest(pool, t) /\ ~Req(t).completed /\ ~Req(t).bg_processing
  BY DEF Scans, Pollable
<1>2. Position(t) \in DOMAIN pool.requests
  BY <1>1, PositionType
<1>3. /\ TameReq(pool.requests[Position(t)], Posting, Working)
      /\ Posting \subseteq Working /\ Req(t) = pool.requests[Position(t)]
  BY <1>2, CalmPool DEF Tame, Req
<1> QED
  BY <1>1, <1>2, <1>3 DEF TameReq

\* The scan of a task files what it takes off the free lists.
LEMMA ScanLeaks ==
    ASSUME TypeOK, LeakInv, NEW t \in Tasks, ScanUnfit(t) \/ ScanFit(t) \/ ScanExhausted(t)
    PROVE  LeakInv' /\ OpenKept
<1> DEFINE i == Position(t)
<1>1. /\ i \in DOMAIN pool.requests
      /\ pool.requests[i].conn = {} /\ pool.requests[i].task \notin Working
  BY ScannedIsBare DEF ScanUnfit, ScanFit, ScanExhausted
<1>2. PoolType(pool) /\ Tame(pool.requests, Posting, Working)
  BY CalmPool
<1>3. UNCHANGED <<rpc, cur, held, fresh, alive>>
  BY DEF ScanUnfit, ScanFit, ScanExhausted, reaperVars
<1>4. CASE ScanUnfit(t)
  <2> DEFINE s == CheckUnfit(pool, i)
  <2>1. HasCandidate(pool, i) /\ pc' = pc /\ (pool' = Park(s, t) \/ pool' = s)
    BY <1>4 DEF ScanUnfit, Commit, Continue, taskVars
  <2> HIDE DEF i
  <2>2. PoolType(s) /\ Carries(pool, s, {}, Posting, Working)
    BY <1>1, <1>2, <2>1, CheckTypes, CheckUnfitCarries
  <2> HIDE DEF s
  <2>3. Carries(pool, pool', {}, Posting, Working)
    BY <2>1, <2>2, CarriesOn
  <2> QED
    BY <1>3, <2>1, <2>3, QuietLeak DEF NoNewStarts
<1>5. CASE ScanFit(t)
  <2> DEFINE s == CheckFit(pool, i)
  <2>1. /\ HasCandidate(pool, i) /\ pc' = [pc EXCEPT ![t] = "hold"]
        /\ pool' = FinishCompletedRequest(s, i)
    BY <1>5 DEF ScanFit, Commit
  <2> HIDE DEF i
  <2>2. PoolType(s) /\ i \in DOMAIN s.requests /\ Carries(pool, s, {}, Posting, Working)
    BY <1>1, <1>2, <2>1, CheckTypes, CheckFitCarries
  <2> HIDE DEF s
  <2>3. Carries(s, FinishCompletedRequest(s, i), {}, Posting, Working)
    BY <2>2, FinishCarries DEF Carries
  <2>4. Carries(pool, pool', {}, Posting, Working)
    BY <2>1, <2>2, <2>3 DEF Carries
  <2> QED
    BY <1>3, <2>1, <2>4, MovedOn, QuietLeak
<1>6. CASE ScanExhausted(t)
  <2> DEFINE s == QueueForBg(pool, i)
  <2>1. \/ pool' = AbandonRequest(pool, t) /\ pc' = [pc EXCEPT ![t] = "abort"]
        \/ pool' = Park(s, t) /\ pc' = pc
    BY <1>6 DEF ScanExhausted, Commit
  <2> HIDE DEF i
  <2>2. PoolType(s) /\ Carries(pool, s, {}, Posting, Working)
    BY <1>1, <1>2, QueueForBgType, QueueForBgCarries
  <2> HIDE DEF s
  <2>3. Carries(pool, pool', {}, Posting, Working)
    BY <1>2, <2>1, <2>2, AbandonCarries, CarriesOn
  <2>4. NoNewStarts
    BY <2>1, MovedOn DEF NoNewStarts
  <2> QED
    BY <1>3, <2>3, <2>4, QuietLeak
<1> QED
  BY <1>4, <1>5, <1>6

\* A wait that is given up files the connection of its request.
LEMMA AbandonLeaks ==
    ASSUME TypeOK, LeakInv, NEW t \in Tasks, Abandon(t)
    PROVE  LeakInv' /\ OpenKept
<1> DEFINE s == AbandonRequest(pool, t)
<1>1. PoolType(s) /\ Carries(pool, s, {}, Posting, Working)
  BY CalmPool, AbandonRequestType, AbandonCarries
<1>2. /\ pool' = WakeWaiters(s) /\ pc' = [pc EXCEPT ![t] = "failed"]
      /\ UNCHANGED <<rpc, cur, held, fresh, alive>>
  BY DEF Abandon, Commit, reaperVars
<1> HIDE DEF s
<1>3. Carries(pool, pool', {}, Posting, Working)
  BY <1>1, <1>2, CarriesOn
<1> QED
  BY <1>2, <1>3, MovedOn, QuietLeak

\* Two signals.
LEMMA SignalledCarries ==
    ASSUME TypeOK, LeakInv
    PROVE  /\ Carries(pool, pool, {}, Posting, Working)
           /\ Carries(pool, WakeWaiters(NotifyBg(pool)), {}, Posting, Working)
<1>1. PoolType(NotifyBg(pool)) /\ Carries(pool, NotifyBg(pool), {}, Posting, Working)
  BY CalmPool, NotifyBgType, SignalsCarry
<1> QED
  BY <1>1, CalmPool, CarriesOn, SignalsCarry

\* A guard that is given up: its connection is filed, or stays busy while its
\* id is in the channel.
LEMMA GivesBackLeaks ==
    ASSUME TypeOK, LeakInv, NEW t \in Tasks, Release(t) \/ DropFromPool(t) \/ DropGuard(t)
    PROVE  LeakInv' /\ OpenKept
<1>1. /\ pc' = [pc EXCEPT ![t] = "done"] /\ UNCHANGED <<rpc, cur, held, fresh, alive>>
  BY DEF Release, DropFromPool, DropGuard, reaperVars
<1>2. \/ pool' = pool \/ pool' = WakeWaiters(NotifyBg(pool))
      \/ \E fit \in BOOLEAN, c \in pool.busy :
           pool' = WakeWaiters(ReturnConnectionHelper(TakeBusy(pool, c), c, fit))
      \/ \E c \in pool.busy : pool' = WakeWaiters(DropConn(TakeBusy(pool, c), c))
  BY DEF Release, DropFromPool, DropGuard, Commit, LeasedConn, Fitness
<1>3. ASSUME NEW c \in pool.busy
      PROVE  /\ Carries(pool, WakeWaiters(DropConn(TakeBusy(pool, c), c)), {}, Posting, Working)
             /\ \A fit \in BOOLEAN :
                  Carries(pool, WakeWaiters(ReturnConnectionHelper(TakeBusy(pool, c), c, fit)),
                          {}, Posting, Working)
  <2>1. PoolType(pool) /\ Tame(pool.requests, Posting, Working)
    BY CalmPool
  <2>2. c \in PooledConn /\ PoolType(TakeBusy(pool, c))
    BY <2>1, Fields, TakeBusyType
  <2>3. /\ PoolType(DropConn(TakeBusy(pool, c), c))
        /\ \A fit \in BOOLEAN : PoolType(ReturnConnectionHelper(TakeBusy(pool, c), c, fit))
    BY <2>2, DropConnType, ReturnConnectionHelperType
  <2>4. /\ Carries(pool, DropConn(TakeBusy(pool, c), c), {}, Posting, Working)
        /\ \A fit \in BOOLEAN :
             Carries(pool, ReturnConnectionHelper(TakeBusy(pool, c), c, fit), {}, Posting, Working)
    BY <2>1, BusyCarries
  <2> QED
    BY <2>3, <2>4, CarriesOn
<1>4. Carries(pool, pool', {}, Posting, Working)
  BY <1>2, <1>3, SignalledCarries
<1> QED
  BY <1>1, <1>4, MovedOn, QuietLeak

\* No step of a task loses a session.
LEMMA TaskStepLeaks ==
    ASSUME TypeOK, LeakInv, Calm, NEW t \in Tasks, TaskStep(t)
    PROVE  LeakInv' /\ OpenKept
<1>1. ~ScanNeedsPing(t)
  BY DEF Calm, ScanNeedsPing
<1>2. CASE AbortWait(t) \/ CancelWait(t) \/ Timeout(t)
  BY <1>2, AbandonLeaks DEF AbortWait, CancelWait, Timeout
<1>3. CASE ~(AbortWait(t) \/ CancelWait(t) \/ Timeout(t))
  BY <1>1, <1>3, DrainOneLeaks, AcquireLeaks, PollFailsLeaks, PollCompletedLeaks,
     PollPendingLeaks, ScanLeaks, GivesBackLeaks DEF TaskStep
<1> QED
  BY <1>2, <1>3

\* A step of the reaper that files what it has: cf. LeakStep.
LEMMA ReaperLeak ==
    ASSUME LeakInv, NEW X, NEW C, NEW W, Carries(pool, pool', X, C, W), pc' = pc,
           rpc' # "ping", held' = {}, rpc' \notin AtWork => cur' = {},
           rpc' = "open" => \A c \in fresh' : c.cclass = PoolClass,
           C \subseteq Posting', Working' \subseteq W,
           \A u \in cur' : u \in cur \/ HasRequest(pool, u), alive' \subseteq alive \cup X
    PROVE  LeakInv' /\ OpenKept
<1>1. /\ Tame(pool'.requests, C, W) /\ Placed(pool) \cup X \subseteq Placed(pool')
      /\ \A u : HasRequest(pool', u) => HasRequest(pool, u)
  BY DEF Carries
<1>2. alive' \subseteq Placed(pool')
  BY <1>1 DEF LeakInv
<1>3. LeakInv'
  BY <1>1, <1>2, LeakStep
<1> QED
  BY <1>3 DEF Carries, OpenKept

\* ReaperTop picks a request that is then the reaper's.
LEMMA ReaperTopLeaks ==
    ASSUME TypeOK, LeakInv, ReaperTop
    PROVE  LeakInv' /\ OpenKept
<1> DEFINE picks == pool.open /\ cur = {}
           next == IF picks THEN PeekNextRequest(pool) ELSE cur
<1>1. /\ rpc = "top" /\ pool' = IF picks THEN GetNextRequest(pool) ELSE pool
      /\ \/ pool.open /\ next # {} /\ rpc' = "process" /\ cur' = next
         \/ ~(pool.open /\ next # {}) /\ rpc' = "effect" /\ cur' = {}
      /\ UNCHANGED <<pc, held, fresh, alive>>
  BY DEF ReaperTop, Commit, taskVars
<1>2. PoolType(pool) /\ Tame(pool.requests, Posting, Working) /\ held = {}
  BY CalmPool DEF LeakInv
<1>3. Posting = {} /\ Posting' = {} /\ Working' = cur'
  BY <1>1 DEF Posting, Working
<1>4. CASE picks
  <2>1. Working = {}
    BY <1>4 DEF Working
  <2>2. Carries(pool, pool', {}, {}, PeekNextRequest(pool))
    BY <1>1, <1>2, <1>3, <1>4, <2>1, GetNextCarries
  <2>3. \A u \in PeekNextRequest(pool) : HasRequest(pool, u)
    BY <1>2, PickedIsQueued DEF HasRequest
  <2>4. cur' \subseteq PeekNextRequest(pool)
    BY <1>1, <1>4
  <2>5. rpc' # "ping" /\ rpc' # "open" /\ (rpc' \notin AtWork => cur' = {})
    BY <1>1 DEF AtWork
  <2> HIDE DEF next, picks
  <2> QED
    BY <1>1, <1>2, <1>3, <2>2, <2>3, <2>4, <2>5, ReaperLeak
<1>5. CASE ~picks
  <2>1. Carries(pool, pool', {}, Posting, Working)
    BY <1>1, <1>2, <1>5, SignalsCarry
  <2>2. cur' \subseteq Working /\ cur' \subseteq cur
    BY <1>1, <1>5 DEF Working
  <2>3. rpc' # "ping" /\ rpc' # "open" /\ (rpc' \notin AtWork => cur' = {})
    BY <1>1 DEF AtWork
  <2> HIDE DEF next, picks
  <2> QED
    BY <1>1, <1>2, <1>3, <2>1, <2>2, <2>3, ReaperLeak
<1> QED
  BY <1>4, <1>5

\* The request the reaper works on has no connection.
LEMMA WorkedOnIsBare ==
    ASSUME TypeOK, LeakInv, rpc \in {"process", "create"}, NEW t \in cur, HasRequest(pool, t)
    PROVE  /\ Position(t) \in DOMAIN pool.requests /\ Req(t) \in Request
           /\ Req(t) = pool.requests[Position(t)] /\ Req(t).task = t /\ Req(t).conn = {}
<1>1. Position(t) \in DOMAIN pool.requests /\ Req(t) \in Request
  BY PositionType
<1>2. Req(t) = pool.requests[Position(t)] /\ Req(t).task = t
  BY PositionTask DEF Req, Position
<1>3. TameReq(Req(t), Posting, Working)
  BY <1>1, <1>2, CalmPool DEF Tame
<1>4. Posting = {} /\ t \in Working
  BY DEF Posting, Working
<1> QED
  BY <1>1, <1>2, <1>3, <1>4 DEF TameReq

\* ReaperProcess takes nothing out of a request.
LEMMA ReaperProcessLeaks ==
    ASSUME TypeOK, LeakInv, NEW t \in Tasks, ReaperProcess(t)
    PROVE  LeakInv' /\ OpenKept
<1> DEFINE i == Position(t)
           r == Req(t)
           e == [r EXCEPT !.conn = {}]
           s == SetRequest(pool, i, e)
           n == [s EXCEPT !.next_conn_id = @ + 1]
<1>1. PoolType(pool) /\ Tame(pool.requests, Posting, Working) /\ held = {}
  BY CalmPool DEF LeakInv
<1>2. /\ rpc = "process" /\ t \in cur /\ UNCHANGED <<pc, cur, alive>>
      /\ \/ HasRequest(pool, t) /\ r.conn # {}
         \/ /\ HasRequest(pool, t) /\ pool' = n /\ rpc' = "create" /\ held' = r.conn
         \/ pool' = pool /\ rpc' = "post" /\ held' = held
  BY DEF ReaperProcess, Commit, taskVars
<1>3. Posting = {} /\ Working = cur
  BY <1>2 DEF Posting, Working
<1>4. HasRequest(pool, t) =>
        i \in DOMAIN pool.requests /\ r \in Request /\ r = pool.requests[i] /\ r.conn = {}
  BY <1>2, WorkedOnIsBare
<1> HIDE DEF i, r
<1>5. CASE HasRequest(pool, t) /\ pool' = n /\ rpc' = "create" /\ held' = r.conn
  <2>1. e = r
    BY <1>4, <1>5 DEF Request
  <2>2. s.requests = pool.requests
    BY <1>1, <1>4, <1>5, <2>1, Fields DEF SetRequest, PoolType, PoolStates
  <2>3. /\ n.requests = s.requests /\ n.open = pool.open /\ n.free_new = pool.free_new
        /\ n.free_used = pool.free_used /\ n.busy = pool.busy /\ n.to_drop = pool.to_drop
    BY <1>1 DEF SetRequest, PoolType, PoolStates
  <2> HIDE DEF n, s, e
  <2>4. Carries(pool, n, {}, Posting, Working)
    BY <1>1, <2>2, <2>3, ListsAlone
  <2>5. Posting' = {} /\ Working' = cur /\ rpc' \in AtWork
    BY <1>2, <1>5 DEF Posting, Working, AtWork
  <2> QED
    BY <1>2, <1>3, <1>4, <1>5, <2>4, <2>5, ReaperLeak
<1>6. CASE pool' = pool /\ rpc' = "post" /\ held' = held
  <2>1. Carries(pool, pool, {}, Posting, Working)
    BY SignalledCarries
  <2>2. Posting' = cur /\ Working' = cur /\ rpc' \in AtWork
    BY <1>2, <1>6 DEF Posting, Working, AtWork
  <2> QED
    BY <1>1, <1>2, <1>3, <1>6, <2>1, <2>2, ReaperLeak
<1> QED
  BY <1>2, <1>4, <1>5, <1>6

\* ReaperCreate gives the new session a place: its request, or the close queue.
LEMMA ReaperCreateLeaks ==
    ASSUME TypeOK, LeakInv, NEW t \in Tasks, NEW ok \in BOOLEAN, ReaperCreate(t, ok)
    PROVE  LeakInv' /\ OpenKept
<1> DEFINE i == Position(t)
           p == Req(t)
           e == [p EXCEPT !.conn = fresh]
           f == [p EXCEPT !.error = TRUE]
           loose == {NotExtra(c) : c \in fresh}
           q == [pool EXCEPT !.to_drop = @ \cup loose]
           F == Ids(fresh)
<1>1. /\ PoolType(pool) /\ Tame(pool.requests, Posting, Working) /\ held = {}
      /\ fresh \in Option(PooledConn) /\ fresh \subseteq PooledConn
  BY CalmPool, EngineTypes DEF LeakInv
<1>2. /\ rpc = "create" /\ t \in cur /\ UNCHANGED <<pc, cur>> /\ rpc' = "post"
      /\ held' = {} /\ alive' = IF ok THEN alive \cup F ELSE alive
      /\ pool' = CASE HasRequest(pool, t) /\ ok -> SetRequest(pool, i, e)
                   [] HasRequest(pool, t) /\ ~ok -> SetRequest(pool, i, f)
                   [] ~HasRequest(pool, t) /\ ok -> NotifyBg(q)
                   [] OTHER -> pool
  BY <1>1 DEF ReaperCreate, Commit, Retired, taskVars, Position, Req
<1>3. Posting = {} /\ Working = cur /\ Posting' = cur /\ Working' = cur /\ rpc' \in AtWork
  BY <1>2 DEF Posting, Working, AtWork
<1>4. \A j \in DOMAIN pool.requests : TameReq(pool.requests[j], cur, cur)
  BY <1>1, <1>3 DEF Tame, TameReq
<1>5. Tame(pool.requests, cur, cur)
  BY <1>1, <1>3, TameWeaker
<1>6. ASSUME NEW X, Carries(pool, pool', X, cur, cur), alive' \subseteq alive \cup X
      PROVE  LeakInv' /\ OpenKept
  BY <1>2, <1>3, <1>6, ReaperLeak
<1>7. CASE HasRequest(pool, t)
  <2>1. /\ i \in DOMAIN pool.requests /\ p \in Request /\ p = pool.requests[i]
        /\ p.task = t /\ p.conn = {}
    BY <1>2, <1>7, WorkedOnIsBare
  <2> HIDE DEF i, p
  <2>2. /\ e \in Request /\ e.conn = fresh /\ e.task = p.task /\ e.cclass = p.cclass
        /\ e.completed = p.completed /\ e.bg_processing = p.bg_processing
        /\ e.in_progress = p.in_progress /\ e.waiting = p.waiting
    BY <1>1, <2>1 DEF Request
  <2>3. /\ f \in Request /\ f.conn = p.conn /\ f.task = p.task /\ f.cclass = p.cclass
        /\ f.completed = p.completed /\ f.bg_processing = p.bg_processing
        /\ f.in_progress = p.in_progress /\ f.waiting = p.waiting
    BY <1>1, <2>1 DEF Request
  <2> HIDE DEF e, f
  <2>4. TameReq(e, cur, cur) /\ TameReq(f, cur, cur)
    BY <1>2, <1>4, <2>1, <2>2, <2>3 DEF TameReq
  <2>5. Carries(pool, SetRequest(pool, i, e), F, cur, cur)
    <3>1. Carries(pool, SetRequest(pool, i, e), Ids(e.conn), cur, cur)
      BY <1>1, <1>4, <1>5, <2>1, <2>2, <2>4, SetCarries
    <3> QED
      BY <2>2, <3>1
  <2>6. Carries(pool, SetRequest(pool, i, f), {}, cur, cur)
    <3>1. Carries(pool, SetRequest(pool, i, f), Ids(f.conn), cur, cur)
      BY <1>1, <1>4, <1>5, <2>1, <2>3, <2>4, SetCarries
    <3> QED
      BY <3>1 DEF Carries
  <2>7. CASE ok
    BY <1>2, <1>6, <1>7, <2>5, <2>7
  <2>8. CASE ~ok
    <3>1. pool' = SetRequest(pool, i, f) /\ alive' \subseteq alive \cup {}
      BY <1>2, <1>7, <2>8
    <3> QED
      BY <1>6, <2>6, <3>1
  <2> QED
    BY <2>7, <2>8
<1>8. CASE ~HasRequest(pool, t) /\ ok
  <2>1. loose \subseteq PooledConn /\ F \subseteq Ids(loose)
    <3>1. \A c \in fresh : NotExtra(c) \in PooledConn /\ NotExtra(c).id = c.id
      BY <1>1, NotExtraId
    <3>2. \A c \in fresh : \E d \in loose : d.id = c.id
      BY <3>1
    <3>3. loose \subseteq PooledConn
      BY <3>1
    <3> HIDE DEF loose
    <3> QED
      BY <3>2, <3>3 DEF Ids
  <2> HIDE DEF loose
  <2>2. PoolType(q)
    <3>1. pool.to_drop \cup loose \in SUBSET PooledConn
      BY <1>1, <2>1, Fields
    <3> QED
      BY <1>1, <3>1, ToDropType
  <2>3. /\ q.requests = pool.requests /\ q.open = pool.open /\ q.free_new = pool.free_new
        /\ q.free_used = pool.free_used /\ q.busy = pool.busy
        /\ q.to_drop = pool.to_drop \cup loose
    BY <1>1 DEF PoolType, PoolStates
  <2> HIDE DEF q
  <2>4. Placed(pool) \cup F \subseteq Placed(q)
    <3>1. Ids(q.to_drop) = Ids(pool.to_drop) \cup Ids(loose)
      BY <2>3, UnionIds
    <3> QED
      BY <2>1, <2>3, <3>1 DEF Placed
  <2>5. Carries(pool, q, F, cur, cur)
    BY <1>5, <2>3, <2>4, RequestsAlone
  <2>6. Carries(pool, NotifyBg(q), F, cur, cur)
    BY <2>2, <2>5, CarriesOn
  <2> QED
    BY <1>2, <1>6, <1>8, <2>6
<1>9. CASE ~HasRequest(pool, t) /\ ~ok
  <2>1. pool' = pool /\ alive' \subseteq alive \cup {}
    BY <1>2, <1>9
  <2>2. Carries(pool, pool, {}, cur, cur)
    BY <1>1, <1>5, SignalsCarry
  <2> QED
    BY <1>6, <2>1, <2>2
<1> QED
  BY <1>7, <1>8, <1>9

\* ReaperPost files the connection of a request nobody waits for.
LEMMA ReaperPostLeaks ==
    ASSUME TypeOK, LeakInv, NEW t \in Tasks, ReaperPost(t)
    PROVE  LeakInv' /\ OpenKept
<1> DEFINE s == PostProcessRequest(pool, t)
<1>1. PoolType(pool) /\ Tame(pool.requests, Posting, Working) /\ held = {}
  BY CalmPool DEF LeakInv
<1>2. /\ rpc = "post" /\ t \in cur /\ rpc' = "top"
      /\ pool' = GetNextRequest(s) /\ cur' = PeekNextRequest(s)
      /\ UNCHANGED <<pc, held, fresh, alive>>
  BY DEF ReaperPost, Commit, taskVars
<1>3. Posting = {t} /\ Working = {t}
  <2>1. cur = {t}
    BY <1>2, CalmPool DEF Option
  <2> QED
    BY <1>2, <2>1 DEF Posting, Working
<1>4. PoolType(s) /\ Carries(pool, s, {}, {}, {})
  BY <1>1, <1>3, PostProcessRequestType, PostProcessCarries
<1> HIDE DEF s
<1>5. Carries(s, GetNextRequest(s), {}, {}, PeekNextRequest(s))
  BY <1>4, GetNextCarries DEF Carries
<1>6. Carries(pool, pool', {}, {}, PeekNextRequest(s))
  BY <1>2, <1>4, <1>5 DEF Carries
<1>7. \A u \in cur' : HasRequest(pool, u)
  <2>1. \A u \in PeekNextRequest(s) : HasRequest(s, u)
    BY <1>4, PickedIsQueued DEF HasRequest
  <2> QED
    BY <1>2, <1>4, <2>1 DEF Carries
<1>8. Posting' = {} /\ Working' \subseteq PeekNextRequest(s) /\ rpc' \in AtWork
  BY <1>2 DEF Posting, Working, AtWork
<1> QED
  BY <1>1, <1>2, <1>6, <1>7, <1>8, ReaperLeak

\* Away from the requests the reaper holds none.
LEMMA ReaperAway ==
    ASSUME TypeOK, LeakInv, rpc \notin AtWork
    PROVE  cur = {} /\ Posting = {} /\ Working = {} /\ Tame(pool.requests, {}, {})
<1>1. cur = {}
  BY DEF LeakInv
<1>2. Posting = {} /\ Working = {}
  BY <1>1 DEF Posting, Working
<1> QED
  BY <1>1, <1>2, CalmPool

\* The rest of the reaper's loop files what it opens and forgets what it closes.
LEMMA ReaperAwayLeaks ==
    ASSUME TypeOK, OwnershipInv, LeakInv,
           \/ ReaperEffect \/ ReaperDrop \/ ReaperRest \/ ReaperWake \/ ReaperTick
           \/ \E ok \in BOOLEAN : ReaperOpen(ok)
           \/ \E list \in {"free_new", "free_used"} : ReaperSweep(list)
    PROVE  LeakInv' /\ OpenKept
<1>1. PoolType(pool) /\ held = {}
  BY CalmPool DEF LeakInv
<1>2. cur = {} /\ Tame(pool.requests, {}, {})
  <2>1. rpc \notin AtWork
    BY DEF ReaperEffect, ReaperDrop, ReaperRest, ReaperWake, ReaperTick, ReaperOpen,
           ReaperSweep, AtWork
  <2> QED
    BY <2>1, ReaperAway
<1>3. UNCHANGED <<pc, cur, held>>
  BY DEF ReaperEffect, ReaperDrop, ReaperRest, ReaperWake, ReaperTick, ReaperOpen,
         ReaperSweep, taskVars, reaperVars
<1>4. Posting' = {} /\ Working' = {}
  BY <1>2, <1>3 DEF Posting, Working
<1>5. ASSUME NEW X, Carries(pool, pool', X, {}, {}), alive' \subseteq alive \cup X, rpc' # "ping",
             rpc' = "open" => \A c \in fresh' : c.cclass = PoolClass
      PROVE  LeakInv' /\ OpenKept
  BY <1>1, <1>2, <1>3, <1>4, <1>5, ReaperLeak
<1>6. Carries(pool, pool, {}, {}, {})
  BY <1>1, <1>2, SignalsCarry
<1>7. CASE ReaperEffect
  <2>1. CASE pool.open /\ pool.open_effects # <<>>
    <3> DEFINE id == Head(pool.open_effects)
               s == [pool EXCEPT !.open_effects = Tail(@), !.in_flight = @ \cup {id}]
    <3>1. /\ pool' = s /\ alive' = alive /\ rpc' = "open"
          /\ fresh' = {NewConn(id, PoolClass, FALSE)}
      BY <1>7, <2>1 DEF ReaperEffect, Commit
    <3>2. /\ s.requests = pool.requests /\ s.open = pool.open /\ s.free_new = pool.free_new
          /\ s.free_used = pool.free_used /\ s.busy = pool.busy /\ s.to_drop = pool.to_drop
      BY <1>1 DEF PoolType, PoolStates
    <3>3. \A c \in fresh' : c.cclass = PoolClass
      BY <3>1 DEF NewConn
    <3> HIDE DEF s, id
    <3>4. Carries(pool, s, {}, {}, {})
      BY <1>2, <3>2, ListsAlone
    <3> QED
      BY <1>5, <3>1, <3>3, <3>4
  <2>2. CASE ~(pool.open /\ pool.open_effects # <<>>)
    <3>1. pool' = pool /\ alive' = alive /\ rpc' = "drop"
      BY <1>7, <2>2 DEF ReaperEffect, Commit
    <3> QED
      BY <1>5, <1>6, <3>1
  <2> QED
    BY <2>1, <2>2
<1>8. CASE ReaperDrop
  <2>1. CASE pool' = pool /\ alive' = alive /\ rpc' = "sweep"
    BY <1>5, <1>6, <2>1
  <2>2. ASSUME NEW c \in pool.to_drop, pool' = [pool EXCEPT !.to_drop = @ \ {c}],
               alive' = alive \ {c.id}, rpc' = "top"
        PROVE  LeakInv' /\ OpenKept
    <3> DEFINE s == [pool EXCEPT !.to_drop = @ \ {c}]
    <3>1. Placed(s) = Placed(pool) \ {c.id}
      BY <1>1, TakeDropped DEF OwnershipInv
    <3>2. s.requests = pool.requests /\ s.open = pool.open
      BY <1>1 DEF PoolType, PoolStates
    <3>3. pool' = s
      BY <2>2
    <3> HIDE DEF s
    <3>4. alive' \subseteq Placed(pool') /\ Tame(pool'.requests, {}, {})
      BY <1>2, <2>2, <3>1, <3>2, <3>3 DEF LeakInv
    <3>5. \A u : HasRequest(pool', u) => HasRequest(pool, u)
      BY <3>2, <3>3 DEF HasRequest
    <3>6. LeakInv'
      BY <1>1, <1>2, <1>3, <1>4, <2>2, <3>4, <3>5, LeakStep
    <3> QED
      BY <3>2, <3>3, <3>6 DEF OpenKept
  <2> QED
    BY <1>8, <2>1, <2>2 DEF ReaperDrop, Commit
<1>9. CASE ReaperRest \/ ReaperTick
  <2>1. pool' = pool /\ alive' = alive /\ rpc' # "ping" /\ rpc' # "open"
    BY <1>9 DEF ReaperRest, ReaperTick, Commit
  <2> QED
    BY <1>5, <1>6, <2>1
<1>10. CASE ReaperWake
  <2> DEFINE s == [pool EXCEPT !.bg = FALSE]
  <2>1. pool' = s /\ alive' = alive /\ rpc' = "top"
    BY <1>10 DEF ReaperWake
  <2>2. /\ s.requests = pool.requests /\ s.open = pool.open /\ s.free_new = pool.free_new
        /\ s.free_used = pool.free_used /\ s.busy = pool.busy /\ s.to_drop = pool.to_drop
    BY <1>1 DEF PoolType, PoolStates
  <2> HIDE DEF s
  <2>3. Carries(pool, s, {}, {}, {})
    BY <1>2, <2>2, ListsAlone
  <2> QED
    BY <1>5, <2>1, <2>3
<1>11. ASSUME NEW ok \in BOOLEAN, ReaperOpen(ok) PROVE LeakInv' /\ OpenKept
  <2>1. PICK c \in fresh : pool' = IF ok THEN PostCreateConn(pool, c)
                                   ELSE PostCreateFailed(pool, c.id)
    BY <1>11 DEF ReaperOpen, Commit
  <2>2. /\ rpc = "open" /\ rpc' = "top"
        /\ alive' = IF ok THEN alive \cup Ids(fresh) ELSE alive
    BY <1>11 DEF ReaperOpen
  <2>3. c \in PooledConn /\ c.cclass = PoolClass /\ Ids(fresh) = {c.id}
    BY <2>1, <2>2, EngineTypes DEF LeakInv, Option, Ids
  <2>4. /\ Carries(pool, PostCreateConn(pool, c), {c.id}, {}, {})
        /\ Carries(pool, PostCreateFailed(pool, c.id), {}, {}, {})
    BY <1>1, <1>2, <2>3, PostCreateConnCarries, PostCreateFailedCarries
  <2>5. CASE ok
    BY <1>5, <2>1, <2>2, <2>3, <2>4, <2>5
  <2>6. CASE ~ok
    <3>1. pool' = PostCreateFailed(pool, c.id) /\ alive' \subseteq alive \cup {}
      BY <2>1, <2>2, <2>6
    <3> QED
      BY <1>5, <2>2, <2>4, <3>1
  <2> QED
    BY <2>5, <2>6
<1>12. ASSUME NEW list \in {"free_new", "free_used"}, ReaperSweep(list) PROVE LeakInv' /\ OpenKept
  <2>1. /\ pool[list] # <<>>
        /\ pool' = DropConn([pool EXCEPT ![list] = Tail(@)], Head(pool[list]))
        /\ UNCHANGED <<rpc, alive>> /\ rpc = "sweep"
    BY <1>12 DEF ReaperSweep, Continue, reaperVars
  <2>2. Carries(pool, pool', {}, {}, {})
    BY <1>1, <1>2, <2>1, SweepCarries
  <2> QED
    BY <1>5, <2>1, <2>2
<1> QED
  BY <1>7, <1>8, <1>9, <1>10, <1>11, <1>12

\* The last handle, and the reaper that no longer finds the pool, close all.
LEMMA ReleasedLeaks ==
    ASSUME TypeOK, LeakInv, ReaperGone \/ LastHandle
    PROVE  LeakInv'
<1> DEFINE s == CloseAll(pool)
<1>1. PoolType(pool) /\ Tame(pool.requests, Posting, Working) /\ held = {}
  BY CalmPool DEF LeakInv
<1>2. /\ pool' = s \/ pool' = NotifyBg(s)
      /\ alive' = alive \ Ids(OwnedConns(pool))
      /\ UNCHANGED <<pc, held, fresh>>
      /\ (rpc' = "exited" /\ cur' = {}) \/ UNCHANGED <<rpc, cur>>
  BY DEF ReaperGone, LastHandle, Commit, taskVars, reaperVars
<1>3. alive' = {}
  <2>1. alive' = alive \ Placed(pool)
    BY <1>2, OwnedIds
  <2> QED
    BY <2>1 DEF LeakInv
<1>4. /\ Tame(s.requests, {}, Working) /\ ~s.open
      /\ \A u : HasRequest(s, u) => HasRequest(pool, u)
  BY <1>1, CloseAllKeeps
<1>5. PoolType(s)
  BY <1>1, CloseAllType
<1> HIDE DEF s
<1>6. pool'.requests = s.requests /\ pool'.open = s.open
  BY <1>2, <1>5 DEF NotifyBg, PoolType, PoolStates
<1>7. \A u : HasRequest(pool', u) => HasRequest(pool, u)
  BY <1>4, <1>6 DEF HasRequest
<1>8. Working' \subseteq Working
  BY <1>2, <1>4, <1>6 DEF Working
<1>9. /\ rpc' # "ping" /\ held' = {} /\ (rpc' \notin AtWork => cur' = {})
      /\ rpc' = "open" => \A c \in fresh' : c.cclass = PoolClass
      /\ cur' \subseteq cur /\ alive' \subseteq Placed(pool')
  BY <1>2, <1>3 DEF LeakInv
<1> QED
  BY <1>2, <1>4, <1>6, <1>7, <1>8, <1>9, LeakStep

\* Close moves sessions to the close queue, and the settings touch none.
LEMMA CloseLeaks ==
    ASSUME TypeOK, LeakInv,
           \/ \E c \in Closers : \/ \E force \in BOOLEAN : CloseRequest(c, force)
                                 \/ CloseTake(c) \/ CloseJoined(c) \/ CloseCancelled(c)
           \/ \E m \in SetModes : SetGetmode(m)
           \/ SetTimeoutSecs
    PROVE  LeakInv'
<1>1. PoolType(pool) /\ Tame(pool.requests, Posting, Working)
  BY CalmPool
<1>2. UNCHANGED <<pc, rpc, cur, held, fresh, alive>>
  BY DEF CloseRequest, CloseTake, CloseJoined, CloseCancelled, SetGetmode, SetTimeoutSecs,
         taskVars, reaperVars
<1>3. \/ pool' = WakeWaiters(NotifyBg(pool)) \/ (\E c : pool' = AfterDrain(c))
      \/ pool' = ShutDown(pool) \/ pool' = NotifyBg(pool) \/ pool' = pool
      \/ \E m : pool' = [pool EXCEPT !.mode = m]
      \/ pool' = NotifyBg([pool EXCEPT !.timeout = ~@])
  BY DEF CloseRequest, CloseTake, CloseJoined, CloseCancelled, SetGetmode, SetTimeoutSecs, Commit
<1>4. CASE Carries(pool, pool', {}, Posting, Working)
  BY <1>2, <1>4, QuietLeak DEF NoNewStarts
<1>5. CASE \/ pool' = WakeWaiters(NotifyBg(pool)) \/ (\E c : pool' = AfterDrain(c))
           \/ pool' = NotifyBg(pool) \/ pool' = pool
  BY <1>1, <1>4, <1>5, SignalledCarries, SignalsCarry, CalmPool
<1>6. CASE \/ \E m : pool' = [pool EXCEPT !.mode = m]
           \/ pool' = NotifyBg([pool EXCEPT !.timeout = ~@])
  <2>1. /\ pool'.requests = pool.requests /\ pool'.open = pool.open
        /\ pool'.free_new = pool.free_new /\ pool'.free_used = pool.free_used
        /\ pool'.busy = pool.busy /\ pool'.to_drop = pool.to_drop
    BY <1>1, <1>6 DEF NotifyBg, PoolType, PoolStates
  <2>2. Carries(pool, pool', {}, Posting, Working)
    BY <1>1, <2>1, ListsAlone
  <2> QED
    BY <1>4, <2>2
<1>7. CASE pool' = ShutDown(pool)
  <2> DEFINE s == ShutDown(pool)
  <2>1. /\ Placed(s) = Placed(pool) /\ Tame(s.requests, {}, Working) /\ ~s.open
        /\ \A u : HasRequest(s, u) => HasRequest(pool, u)
    BY <1>1, ShutDownKeeps
  <2>2. pool' = s
    BY <1>7
  <2> HIDE DEF s
  <2>3. Working' \subseteq Working
    BY <1>2, <2>1, <2>2 DEF Working
  <2>4. /\ rpc' # "ping" /\ held' = {} /\ (rpc' \notin AtWork => cur' = {})
        /\ rpc' = "open" => \A c \in fresh' : c.cclass = PoolClass
        /\ alive' \subseteq Placed(pool')
    BY <1>2, <2>1, <2>2 DEF LeakInv
  <2> QED
    BY <1>2, <2>1, <2>2, <2>3, <2>4, LeakStep
<1> QED
  BY <1>3, <1>5, <1>6, <1>7

\* Every step of a calm engine accounts for every session.
LEMMA NextLeaks ==
    ASSUME TypeOK, OwnershipInv, LeakInv, Calm, [Next]_vars
    PROVE  LeakInv'
<1>1. CASE \E t \in Tasks : TaskStep(t)
  BY <1>1, TaskStepLeaks
<1>2. CASE ReaperStep
  <2>1. ASSUME NEW t \in Tasks, NEW b \in BOOLEAN PROVE ~ReaperPing(t, b)
    BY DEF LeakInv, ReaperPing
  <2> QED
    BY <1>2, <2>1, DrainOneLeaks, ReaperTopLeaks, ReaperProcessLeaks, ReaperCreateLeaks,
       ReaperPostLeaks, ReaperAwayLeaks, ReleasedLeaks DEF ReaperStep
<1>3. CASE \E c \in Closers : CloserStep(c)
  BY <1>3, DrainOneLeaks, CloseLeaks DEF CloserStep
<1>4. CASE DrainOne(Observer) \/ Observe
  BY <1>4, DrainOneLeaks, ObserveLeaks
<1>5. CASE LastHandle
  BY <1>5, ReleasedLeaks
<1>6. CASE (\E m \in SetModes : SetGetmode(m)) \/ SetTimeoutSecs
  BY <1>6, CloseLeaks
<1>7. CASE UNCHANGED vars
  <2>1. pool' = pool /\ UNCHANGED <<pc, rpc, cur, held, fresh, alive>>
    BY <1>7 DEF vars, taskVars, reaperVars
  <2> QED
    BY <2>1, SignalledCarries, QuietLeak DEF NoNewStarts
<1> QED
  BY <1>1, <1>2, <1>3, <1>4, <1>5, <1>6, <1>7 DEF Next

\* A pool that has just been started has lost nothing.
LEMMA InitLeaks ==
    ASSUME Init
    PROVE  LeakInv
<1>1. pool.requests = <<>>
  BY DEF Init, StartState, ScheduleOpenEffects
<1>2. rpc = "top" /\ cur = {} /\ held = {} /\ alive = {}
  BY DEF Init
<1>3. DOMAIN pool.requests = {}
  BY <1>1
<1>4. Tame(pool.requests, Posting, Working) /\ \A t : ~HasRequest(pool, t)
  BY <1>3 DEF Tame, HasRequest
<1> QED
  BY <1>2, <1>4 DEF LeakInv, AtWork

\* No step changes the environment.
LEMMA CalmKept ==
    ASSUME [Next]_vars
    PROVE  env' = env
  BY DEF Next, TaskStep, ReaperStep, CloserStep, vars, closeVars, DrainOne, Acquire, PollFails,
     PollCompleted, PollPending, ScanUnfit, ScanNeedsPing, ScanFit, ScanExhausted, AbortWait,
     CancelWait, Timeout, Abandon, Release, DropFromPool, DropGuard, ReaperTop, ReaperProcess,
     ReaperPing, ReaperCreate, ReaperPost, ReaperEffect, ReaperOpen, ReaperDrop, ReaperSweep,
     ReaperRest, ReaperWake, ReaperTick, ReaperGone, CloseRequest, CloseTake, CloseJoined,
     CloseCancelled, LastHandle, SetGetmode, SetTimeoutSecs, Observe

\* The invariant holds throughout.
LEMMA LeakInvHolds == Spec => [](TypeOK /\ OwnershipInv /\ (Calm => LeakInv))
<1>1. Init => (Calm => LeakInv)
  BY InitLeaks
<1>2. TypeOK /\ OwnershipInv /\ (Calm => LeakInv) /\ [Next]_vars => (Calm => LeakInv)'
  <2>1. SUFFICES ASSUME TypeOK, OwnershipInv, Calm => LeakInv, [Next]_vars, Calm'
                 PROVE  LeakInv'
    OBVIOUS
  <2>2. Calm
    BY <2>1, CalmKept DEF Calm, Event
  <2> QED
    BY <2>1, <2>2, NextLeaks
<1> QED
  BY <1>1, <1>2, OwnershipHolds, PTL DEF Spec

-----------------------------------------------------------------------------
(* What the accounting says. *)

\* The sessions open on the database are those the pool can reach.
LEMMA ReachedIsOpen ==
    ASSUME TypeOK, OwnershipInv, LeakInv
    PROVE  alive = Ids(Tracked) /\ alive = Placed(pool)
<1>1. alive = Placed(pool)
  BY DEF LeakInv, OwnershipInv, SessionsKnown
<1>2. Ids(Tracked) = Ids(OwnedConns(pool)) \cup Ids(held)
  BY UnionIds DEF Tracked
<1>3. Ids(held) = {}
  BY EmptyIds DEF LeakInv
<1>4. Ids(OwnedConns(pool)) = Placed(pool)
  BY CalmPool, OwnedIds
<1> QED
  BY <1>1, <1>2, <1>3, <1>4

-----------------------------------------------------------------------------
(* A pool that is closed, and what its last requests still have. *)

ShutReq(r, C, w) == (r.conn # {} => r.task \in C) /\ (r.waiting => w)

\* only the requests of C may have a connection, and only if w do they wait
Shut(s, C, w) ==
    /\ ~s.open /\ s.free_new = <<>> /\ s.free_used = <<>> /\ s.busy = {}
    /\ \A i \in DOMAIN s.requests : ShutReq(s.requests[i], C, w)

\* A step of a closed pool; a connection joins the close queue only from C.
StaysShut(s, s2, C, w) == Shut(s2, C, w) /\ (C = {} => s2.to_drop = s.to_drop)

\* Signals, plans and settings leave the pool shut.
LEMMA SignalsShut ==
    ASSUME NEW s, PoolType(s), NEW C, NEW w, Shut(s, C, w)
    PROVE  /\ StaysShut(s, s, C, w)
           /\ StaysShut(s, NotifyBg(s), C, w) /\ StaysShut(s, WakeWaiters(s), C, w)
           /\ StaysShut(s, WakeWaiters(NotifyBg(s)), C, w)
           /\ \A b : Shut([s EXCEPT !.to_drop = b], C, w)
           /\ \A b : Shut([s EXCEPT !.in_flight = b], C, w)
           /\ \A b : StaysShut(s, [s EXCEPT !.bg = b], C, w)
           /\ \A b : StaysShut(s, [s EXCEPT !.mode = b], C, w)
           /\ \A b : StaysShut(s, NotifyBg([s EXCEPT !.timeout = b]), C, w)
           /\ \A b : StaysShut(s, [s EXCEPT !.next_conn_id = b], C, w)
  BY DEF StaysShut, Shut, NotifyBg, WakeWaiters, PoolType, PoolStates

\* A closed pool plans no connection.
LEMMA EnsureMinShut ==
    ASSUME NEW s, ~s.open
    PROVE  EnsureMinConnections(s) = s
  BY DEF EnsureMinConnections

\* A request of a closed pool is changed.
LEMMA SetShut ==
    ASSUME NEW s, PoolType(s), NEW C, NEW w, NEW i \in DOMAIN s.requests, NEW r \in Request,
           ~s.open, s.free_new = <<>>, s.free_used = <<>>, s.busy = {},
           \A j \in DOMAIN s.requests \ {i} : ShutReq(s.requests[j], C, w), ShutReq(r, C, w)
    PROVE  StaysShut(s, SetRequest(s, i, r), C, w)
<1> DEFINE s2 == SetRequest(s, i, r)
<1>1. /\ s2.free_new = s.free_new /\ s2.free_used = s.free_used /\ s2.busy = s.busy
      /\ s2.open = s.open /\ s2.to_drop = s.to_drop
  BY DEF SetRequest, PoolType, PoolStates
<1>2. /\ DOMAIN s2.requests = DOMAIN s.requests
      /\ \A j \in DOMAIN s.requests : s2.requests[j] = IF j = i THEN r ELSE s.requests[j]
  <2>1. s.requests \in Seq(Request) /\ s2.requests = [s.requests EXCEPT ![i] = r]
    BY Fields DEF SetRequest, PoolType, PoolStates
  <2> QED
    BY <2>1
<1> HIDE DEF s2
<1>3. \A j \in DOMAIN s2.requests : ShutReq(s2.requests[j], C, w)
  BY <1>2
<1> QED
  BY <1>1, <1>3 DEF StaysShut, Shut, s2

\* A request leaves a closed pool, and its connection joins the close queue.
LEMMA RemoveAndRejectShut ==
    ASSUME NEW s, PoolType(s), NEW C, NEW w, NEW i \in DOMAIN s.requests, NEW r \in Request,
           ~s.open, s.free_new = <<>>, s.free_used = <<>>, s.busy = {},
           \A j \in DOMAIN s.requests \ {i} : ShutReq(s.requests[j], C, w)
    PROVE  LET s2 == Reject([s EXCEPT !.requests = RemoveAt(@, i)], r)
           IN  Shut(s2, C, w) /\ (r.conn = {} => s2.to_drop = s.to_drop)
<1> DEFINE q == RemoveAt(s.requests, i)
           s1 == [s EXCEPT !.requests = RemoveAt(@, i)]
           s2 == Reject(s1, r)
<1>1. PoolType(s1)
  BY WithoutRequestType
<1>2. DrawnWithout(q, s.requests, i)
  BY Fields, RemoveAtDraws
<1> HIDE DEF q
<1>3. /\ s1.requests = q /\ s1.open = s.open /\ s1.free_new = s.free_new
      /\ s1.free_used = s.free_used /\ s1.busy = s.busy /\ s1.to_drop = s.to_drop
  BY DEF PoolType, PoolStates, q
<1> HIDE DEF s1
<1>4. \A k \in DOMAIN q : \E j \in DOMAIN s.requests \ {i} : q[k] = s.requests[j]
  BY <1>2 DEF DrawnWithout
<1>5. Shut(s1, C, w)
  BY <1>3, <1>4 DEF Shut
<1>6. /\ s2.requests = s1.requests /\ s2.open = s1.open /\ s2.free_new = s1.free_new
      /\ s2.free_used = s1.free_used /\ s2.busy = s1.busy
      /\ r.conn = {} => s2.to_drop = s1.to_drop
  BY <1>1, <1>3 DEF Reject, NotifyBg, WakeWaiters, PoolType, PoolStates
<1> HIDE DEF s2
<1>7. Shut(s2, C, w) /\ (r.conn = {} => s2.to_drop = s.to_drop)
  BY <1>3, <1>5, <1>6 DEF Shut
<1> QED
  BY <1>7 DEF s2, s1

\* abandon_request in a closed pool.
LEMMA AbandonShut ==
    ASSUME NEW s, PoolType(s), NEW C, NEW w, Shut(s, C, w), NEW t
    PROVE  StaysShut(s, AbandonRequest(s, t), C, w)
<1> DEFINE i == RequestPosition(s, t)
           p == s.requests[i]
           r == [p EXCEPT !.waiting = FALSE]
<1>1. CASE ~HasRequest(s, t)
  BY <1>1, SignalsShut DEF AbandonRequest
<1>2. CASE HasRequest(s, t)
  <2>1. i \in DOMAIN s.requests /\ p \in Request /\ p = s.requests[i]
    BY <1>2, PositionTask, RequestIn
  <2>2. AbandonRequest(s, t) =
            IF p.bg_processing THEN SetRequest(s, i, r)
            ELSE Reject([s EXCEPT !.requests = RemoveAt(@, i)], p)
    BY <1>2 DEF AbandonRequest
  <2> HIDE DEF i, p
  <2>3. r \in Request /\ r.conn = p.conn /\ r.task = p.task /\ ~r.waiting
    BY <2>1 DEF Request
  <2> HIDE DEF r
  <2>4. /\ ~s.open /\ s.free_new = <<>> /\ s.free_used = <<>> /\ s.busy = {}
        /\ \A j \in DOMAIN s.requests : ShutReq(s.requests[j], C, w)
    BY DEF Shut
  <2>5. ShutReq(p, C, w)
    BY <2>1, <2>4
  <2>6. ShutReq(r, C, w) /\ (C = {} => p.conn = {})
    BY <2>3, <2>5 DEF ShutReq
  <2>7. StaysShut(s, SetRequest(s, i, r), C, w)
    BY <2>1, <2>3, <2>4, <2>6, SetShut
  <2>8. StaysShut(s, Reject([s EXCEPT !.requests = RemoveAt(@, i)], p), C, w)
    <3> DEFINE s2 == Reject([s EXCEPT !.requests = RemoveAt(@, i)], p)
    <3>1. Shut(s2, C, w) /\ (p.conn = {} => s2.to_drop = s.to_drop)
      BY <2>1, <2>4, RemoveAndRejectShut
    <3> HIDE DEF s2
    <3> QED
      BY <2>6, <3>1 DEF StaysShut, s2
  <2> QED
    BY <2>2, <2>7, <2>8
<1> QED
  BY <1>1, <1>2

\* get_next_request in a closed pool.
LEMMA GetNextShut ==
    ASSUME NEW s, PoolType(s), NEW C, NEW w, Shut(s, C, w)
    PROVE  Shut(GetNextRequest(s), C, w)
<1>1. CASE PeekNextRequest(s) = {}
  BY <1>1 DEF GetNextRequest
<1>2. CASE PeekNextRequest(s) # {}
  <2> DEFINE t == CHOOSE x \in PeekNextRequest(s) : TRUE
             i == RequestPosition(s, t)
             p == s.requests[i]
             r == [p EXCEPT !.in_progress = s.requests[i].waiting]
  <2>1. HasRequest(s, t)
    BY <1>2, PeekType, OptionIsFinite
  <2>2. GetNextRequest(s) = SetRequest(s, i, r)
    BY <1>2 DEF GetNextRequest
  <2> HIDE DEF t
  <2>3. i \in DOMAIN s.requests /\ p \in Request /\ p = s.requests[i]
    BY <2>1, PositionTask, RequestIn
  <2> HIDE DEF i, p
  <2>4. r \in Request /\ r.conn = p.conn /\ r.task = p.task /\ r.waiting = p.waiting
    BY <2>3 DEF Request
  <2> HIDE DEF r
  <2>5. ShutReq(r, C, w)
    BY <2>3, <2>4 DEF Shut, ShutReq
  <2>6. StaysShut(s, SetRequest(s, i, r), C, w)
    BY <2>3, <2>4, <2>5, SetShut DEF Shut
  <2> QED
    BY <2>2, <2>6 DEF StaysShut
<1> QED
  BY <1>1, <1>2

\* post_process_request in a closed pool: a connection nobody waits for joins
\* the close queue, another stays with its request.
LEMMA PostProcessShut ==
    ASSUME NEW s, PoolType(s), NEW t, Tame(s.requests, {t}, {t}),
           NEW w \in BOOLEAN, Shut(s, {t}, w)
    PROVE  Shut(PostProcessRequest(s, t), IF w THEN {t} ELSE {}, w)
<1> DEFINE D == IF w THEN {t} ELSE {}
           i == RequestPosition(s, t)
           r == s.requests[i]
           r0 == [r EXCEPT !.in_progress = FALSE, !.bg_processing = FALSE,
                           !.completed = @ \/ r.conn # {}]
           s0 == SetRequest(s, i, r0)
           gone == Reject([s0 EXCEPT !.requests = RemoveAt(@, i)], r)
<1>0. /\ ~s.open /\ s.free_new = <<>> /\ s.free_used = <<>> /\ s.busy = {}
      /\ \A j \in DOMAIN s.requests : ShutReq(s.requests[j], {t}, w)
  BY DEF Shut
<1>1. CASE ~HasRequest(s, t)
  <2>1. \A j \in DOMAIN s.requests : ShutReq(s.requests[j], D, w)
    BY <1>0, <1>1 DEF ShutReq, HasRequest
  <2>2. Shut(s, D, w)
    BY <1>0, <2>1 DEF Shut
  <2> QED
    BY <1>1, <2>2 DEF PostProcessRequest
<1>2. CASE HasRequest(s, t)
  <2>1. i \in DOMAIN s.requests /\ r \in Request /\ r.task = t /\ r = s.requests[i]
    BY <1>2, PositionTask, RequestIn
  <2>2. PostProcessRequest(s, t) =
          LET s1 == IF r.conn = {} /\ r.requires_ping THEN EnsureMinConnections(s0) ELSE s0
          IN  WakeWaiters(IF r.waiting THEN s1
                          ELSE Reject([s1 EXCEPT !.requests = RemoveAt(@, i)], r))
    BY <1>2 DEF PostProcessRequest
  <2> HIDE DEF i, r
  <2>3. r0 \in Request /\ r0.conn = r.conn /\ r0.task = r.task /\ r0.waiting = r.waiting
    BY <2>1 DEF Request
  <2> HIDE DEF r0
  <2>4. \A j \in DOMAIN s.requests \ {i} : s.requests[j].task # t
    BY <2>1 DEF Tame
  <2>5. \A j \in DOMAIN s.requests \ {i} : ShutReq(s.requests[j], D, w)
    BY <1>0, <2>4 DEF ShutReq
  <2>6. PoolType(s0) /\ i \in DOMAIN s0.requests /\ ~s0.open
    <3>1. s0.open = s.open
      BY DEF SetRequest, PoolType, PoolStates
    <3> QED
      BY <1>0, <2>1, <2>3, <3>1, SetRequestType
  <2>7. PostProcessRequest(s, t) = WakeWaiters(IF r.waiting THEN s0 ELSE gone)
    <3>1. EnsureMinConnections(s0) = s0
      BY <2>6, EnsureMinShut
    <3> HIDE DEF s0
    <3> QED
      BY <2>2, <3>1
  <2>8. CASE r.waiting
    <3>1. w
      BY <1>0, <2>1, <2>8 DEF ShutReq
    <3>2. ShutReq(r0, D, w)
      BY <2>1, <2>3, <2>8, <3>1 DEF ShutReq
    <3>3. Shut(s0, D, w)
      BY <1>0, <2>1, <2>3, <2>5, <3>2, SetShut DEF StaysShut
    <3> HIDE DEF s0, D
    <3> QED
      BY <2>6, <2>7, <2>8, <3>3, SignalsShut DEF StaysShut, D
  <2>9. CASE ~r.waiting
    <3>1. /\ s0.free_new = <<>> /\ s0.free_used = <<>> /\ s0.busy = {}
          /\ \A j \in DOMAIN s0.requests \ {i} : ShutReq(s0.requests[j], D, w)
      <4>1. s0.free_new = <<>> /\ s0.free_used = <<>> /\ s0.busy = {}
        BY <1>0 DEF SetRequest, PoolType, PoolStates
      <4>2. s.requests \in Seq(Request) /\ s0.requests = [s.requests EXCEPT ![i] = r0]
        BY Fields DEF SetRequest, PoolType, PoolStates
      <4>3. \A j \in DOMAIN s0.requests \ {i} :
               j \in DOMAIN s.requests \ {i} /\ s0.requests[j] = s.requests[j]
        BY <4>2
      <4> HIDE DEF s0, D
      <4> QED
        BY <2>5, <4>1, <4>3
    <3> HIDE DEF s0, D
    <3>2. Shut(gone, D, w)
      BY <2>1, <2>6, <3>1, RemoveAndRejectShut
    <3>3. PoolType(gone)
      BY <2>1, <2>6, WithoutRequestType, RejectType
    <3> HIDE DEF gone
    <3> QED
      BY <2>7, <2>9, <3>2, <3>3, SignalsShut DEF StaysShut, D
  <2> QED
    BY <2>8, <2>9
<1> QED
  BY <1>1, <1>2

\* An open that ends after the close.
LEMMA PostCreateShut ==
    ASSUME NEW s, PoolType(s), NEW C, NEW w, Shut(s, C, w), NEW c
    PROVE  Shut(PostCreateConn(s, c), C, w) /\ Shut(PostCreateFailed(s, c.id), C, w)
<1> DEFINE s0 == CompleteOpenEffect(s, c.id)
           d == [s0 EXCEPT !.to_drop = @ \cup {c}]
<1>1. s0.open = s.open /\ Shut(s0, C, w)
  BY SignalsShut DEF CompleteOpenEffect, PoolType, PoolStates
<1>2. PostCreateFailed(s, c.id) = s0
  BY <1>1 DEF PostCreateFailed, Shut
<1>3. PostCreateConn(s, c) = NotifyBg(d)
  BY <1>1 DEF PostCreateConn, Shut
<1>4. /\ NotifyBg(d).requests = s.requests /\ NotifyBg(d).open = s.open
      /\ NotifyBg(d).free_new = s.free_new /\ NotifyBg(d).free_used = s.free_used
      /\ NotifyBg(d).busy = s.busy
  BY DEF CompleteOpenEffect, NotifyBg, PoolType, PoolStates
<1> HIDE DEF d, s0
<1> QED
  BY <1>1, <1>2, <1>3, <1>4 DEF Shut

-----------------------------------------------------------------------------
(* The invariant of the close. *)

\* the requests that may still have a connection: the one about to be
\* post-processed, or any when only ReaperGone is left to run
Keepers ==
    IF rpc = "post" THEN cur ELSE IF rpc = "top" /\ ~handles THEN Tasks ELSE {}

ShutInv ==
    /\ pool.open => handles
    /\ ~pool.open => Shut(pool, Keepers, ~handles)
    /\ rpc = "exited" => ~pool.open /\ pool.to_drop = {}

\* with one call of close, it is the one that takes the join handle
CloserInv ==
    \A c \in Closers :
        /\ cpc[c] \in {"idle", "take"} => joinable
        /\ cpc[c] \in {"take", "join", "closed"} => ~pool.open
        /\ cpc[c] = "closed" => rpc = "exited"

\* More requests may have one.
LEMMA ShutWeaker ==
    ASSUME NEW s, NEW C, NEW w, Shut(s, C, w), NEW D, C \subseteq D
    PROVE  Shut(s, D, w)
  BY DEF Shut, ShutReq

\* A step that leaves reaper and handles where they are.
LEMMA QuietShut ==
    ASSUME ShutInv, UNCHANGED <<rpc, cur, handles>>, OpenKept,
           ~pool.open => StaysShut(pool, pool', Keepers, ~handles)
    PROVE  ShutInv'
<1>1. Keepers' = Keepers
  BY DEF Keepers
<1>2. rpc = "exited" => Keepers = {}
  BY DEF Keepers
<1>3. ~pool.open => Shut(pool', Keepers', ~handles')
  BY <1>1 DEF StaysShut
<1>4. rpc = "exited" => pool'.to_drop = {}
  BY <1>2 DEF ShutInv, StaysShut
<1>5. (~pool.open => Shut(pool, Keepers, ~handles))'
  BY <1>3 DEF OpenKept, Shut, ShutReq
<1> QED
  BY <1>4, <1>5 DEF ShutInv, OpenKept

\* A step of the reaper that does not end it.
LEMMA ReaperShut ==
    ASSUME ShutInv, handles' = handles, rpc' # "exited", OpenKept, NEW C, C \subseteq Keepers',
           ~pool.open => Shut(pool', C, ~handles)
    PROVE  ShutInv'
<1>1. ~pool.open => Shut(pool', Keepers', ~handles')
  BY ShutWeaker
<1>2. (~pool.open => Shut(pool, Keepers, ~handles))'
  BY <1>1 DEF OpenKept, Shut, ShutReq
<1> QED
  BY <1>2 DEF ShutInv, OpenKept

\* A task's step in a closed pool only gives up its request.
LEMMA ClosedTaskStep ==
    ASSUME ~pool.open, NEW t \in Tasks, TaskStep(t)
    PROVE  \/ pool' = pool \/ pool' = WakeWaiters(pool) \/ pool' = WakeWaiters(NotifyBg(pool))
           \/ pool' = AbandonRequest(pool, t) \/ pool' = WakeWaiters(AbandonRequest(pool, t))
<1>1. ~Pollable(t)
  BY DEF Pollable
<1>2. CASE DrainOne(t)
  BY <1>2 DEF DrainOne, Continue, Drained
<1>3. CASE Acquire(t) \/ PollFails(t)
  BY <1>3 DEF Acquire, PollFails, Commit, AfterDrain
<1>4. CASE AbortWait(t) \/ CancelWait(t) \/ Timeout(t)
  BY <1>4 DEF AbortWait, CancelWait, Timeout, Abandon, Commit
<1>5. CASE Release(t)
  BY <1>5 DEF Release, Commit
<1>6. CASE DropFromPool(t) \/ DropGuard(t)
  BY <1>6 DEF DropFromPool, DropGuard, Commit
<1> QED
  BY <1>1, <1>2, <1>3, <1>4, <1>5, <1>6 DEF TaskStep, PollCompleted, PollPending, ScanUnfit,
     ScanNeedsPing, ScanFit, ScanExhausted, Scans

\* A closed pool stays shut when a task takes a step, whatever its requests have.
LEMMA TaskStaysShut ==
    ASSUME PoolType(pool), NEW C, NEW w, Shut(pool, C, w), NEW t \in Tasks, TaskStep(t)
    PROVE  StaysShut(pool, pool', C, w)
<1> DEFINE s == AbandonRequest(pool, t)
<1>1. \/ pool' = pool \/ pool' = WakeWaiters(pool) \/ pool' = WakeWaiters(NotifyBg(pool))
      \/ pool' = s \/ pool' = WakeWaiters(s)
  BY ClosedTaskStep DEF Shut
<1>2. PoolType(s) /\ StaysShut(pool, s, C, w)
  BY AbandonRequestType, AbandonShut
<1> HIDE DEF s
<1>3. StaysShut(pool, WakeWaiters(s), C, w)
  BY <1>2, SignalsShut DEF StaysShut
<1> QED
  BY <1>1, <1>2, <1>3, SignalsShut

\* Hence a task's step keeps the invariant.
LEMMA TaskStepShut ==
    ASSUME TypeOK, LeakInv, Calm, ShutInv, NEW t \in Tasks, TaskStep(t)
    PROVE  ShutInv'
<1>1. OpenKept
  BY TaskStepLeaks
<1>2. UNCHANGED <<rpc, cur, handles>>
  BY DEF TaskStep, DrainOne, Acquire, PollFails, PollCompleted, PollPending, ScanUnfit,
     ScanNeedsPing, ScanFit, ScanExhausted, AbortWait, CancelWait, Timeout, Abandon, Release,
     DropFromPool, DropGuard, reaperVars, closeVars
<1>3. ~pool.open => StaysShut(pool, pool', Keepers, ~handles)
  BY CalmPool, TaskStaysShut DEF ShutInv
<1> QED
  BY <1>1, <1>2, <1>3, QuietShut

\* Observers and drains leave a closed pool as it is.
LEMMA ObserveShut ==
    ASSUME TypeOK, LeakInv, ShutInv, Observe \/ \E p : DrainOne(p)
    PROVE  ShutInv'
<1>1. OpenKept
  BY ObserveLeaks, DrainOneLeaks
<1>2. UNCHANGED <<rpc, cur, handles>>
  BY DEF Observe, DrainOne, reaperVars, closeVars
<1>3. ASSUME ~pool.open PROVE StaysShut(pool, pool', Keepers, ~handles)
  <2>1. PoolType(pool) /\ Shut(pool, Keepers, ~handles)
    BY <1>3, CalmPool DEF ShutInv
  <2>2. pool' = pool \/ pool' = WakeWaiters(pool)
    BY <1>3 DEF Observe, AfterDrain, Commit, DrainOne, Continue, Drained
  <2> QED
    BY <2>1, <2>2, SignalsShut
<1> QED
  BY <1>1, <1>2, <1>3, QuietShut

\* The reaper at work: what it opens for a request of a closed pool joins the
\* close queue when the request is post-processed.
LEMMA ReaperWorkShut ==
    ASSUME TypeOK, LeakInv, ShutInv,
           \/ ReaperTop
           \/ \E t \in Tasks : \/ ReaperProcess(t) \/ ReaperPost(t)
                               \/ \E ok \in BOOLEAN : ReaperCreate(t, ok)
    PROVE  ShutInv'
<1>0. PoolType(pool) /\ held = {} /\ Tame(pool.requests, Posting, Working)
      /\ cur \in Option(Tasks) /\ fresh \in Option(PooledConn) /\ handles \in BOOLEAN
  BY CalmPool, EngineTypes DEF LeakInv, TypeOK
<1>1. OpenKept
  BY ReaperTopLeaks, ReaperProcessLeaks, ReaperPostLeaks, ReaperCreateLeaks
<1>2. handles' = handles /\ rpc' # "exited"
  BY DEF ReaperTop, ReaperProcess, ReaperPost, ReaperCreate, closeVars
<1>3. CASE ReaperTop
  <2>1. ~pool.open => pool' = pool /\ Keepers = {}
    BY <1>3 DEF ReaperTop, Commit, Keepers
  <2>2. ~pool.open => Shut(pool', {}, ~handles)
    BY <2>1 DEF ShutInv
  <2> QED
    BY <1>1, <1>2, <2>2, ReaperShut
<1>4. ASSUME NEW t \in Tasks, ReaperProcess(t) PROVE ShutInv'
  <2> DEFINE p == Req(t)
             e == [p EXCEPT !.conn = {}]
             s == SetRequest(pool, Position(t), e)
             n == [s EXCEPT !.next_conn_id = @ + 1]
  <2>1. /\ rpc = "process"
        /\ \/ HasRequest(pool, t) /\ (pool' = s \/ pool' = n)
           \/ pool' = pool
    BY <1>4 DEF ReaperProcess, Commit
  <2>2. Keepers = {}
    BY <2>1 DEF Keepers
  <2>3. CASE pool' = pool
    <3>1. ~pool.open => Shut(pool', {}, ~handles)
      BY <2>2, <2>3 DEF ShutInv
    <3> QED
      BY <1>1, <1>2, <3>1, ReaperShut
  <2>4. CASE HasRequest(pool, t) /\ (pool' = s \/ pool' = n)
    <3>1. ASSUME ~pool.open PROVE Shut(pool', {}, ~handles)
      <4>1. /\ ~pool.open /\ pool.free_new = <<>> /\ pool.free_used = <<>> /\ pool.busy = {}
            /\ \A j \in DOMAIN pool.requests : ShutReq(pool.requests[j], {}, ~handles)
        BY <2>2, <3>1 DEF ShutInv, Shut
      <4>2. /\ Position(t) \in DOMAIN pool.requests /\ p \in Request
            /\ p = pool.requests[Position(t)]
        BY <2>4, PositionType DEF Req
      <4> HIDE DEF p
      <4>3. e \in Request /\ e.conn = {} /\ e.waiting = p.waiting
        BY <4>2 DEF Request, Option
      <4> HIDE DEF e
      <4>4. ShutReq(e, {}, ~handles)
        BY <4>1, <4>2, <4>3 DEF ShutReq
      <4>5. PoolType(s) /\ Shut(s, {}, ~handles)
        BY <1>0, <4>1, <4>2, <4>3, <4>4, SetShut, SetRequestType DEF StaysShut
      <4> HIDE DEF s
      <4> QED
        BY <2>4, <4>5, SignalsShut DEF StaysShut
    <3> QED
      BY <1>1, <1>2, <3>1, ReaperShut
  <2> QED
    BY <2>1, <2>3, <2>4
<1>5. ASSUME NEW t \in Tasks, NEW ok \in BOOLEAN, ReaperCreate(t, ok) PROVE ShutInv'
  <2> DEFINE i == Position(t)
             p == Req(t)
             e == [p EXCEPT !.conn = fresh]
             f == [p EXCEPT !.error = TRUE]
             q == [pool EXCEPT !.to_drop = @ \cup {NotExtra(c) : c \in fresh}]
  <2>1. /\ rpc = "create" /\ t \in cur /\ rpc' = "post" /\ cur' = cur
        /\ \/ HasRequest(pool, t) /\ pool' = SetRequest(pool, i, e)
           \/ HasRequest(pool, t) /\ pool' = SetRequest(pool, i, f)
           \/ pool' = NotifyBg(q) \/ pool' = pool
    BY <1>0, <1>5 DEF ReaperCreate, Commit, Retired, Position, Req
  <2>2. Keepers = {} /\ Keepers' = cur
    BY <2>1 DEF Keepers
  <2>3. ASSUME ~pool.open PROVE Shut(pool', cur, ~handles)
    <3>1. Shut(pool, {}, ~handles)
      BY <2>2, <2>3 DEF ShutInv
    <3>2. Shut(pool, cur, ~handles)
      BY <3>1, ShutWeaker
    <3>3. CASE pool' = pool
      BY <3>2, <3>3
    <3>4. CASE pool' = NotifyBg(q)
      <4>1. /\ NotifyBg(q).requests = pool.requests /\ NotifyBg(q).open = pool.open
            /\ NotifyBg(q).free_new = pool.free_new /\ NotifyBg(q).free_used = pool.free_used
            /\ NotifyBg(q).busy = pool.busy
        BY <1>0 DEF NotifyBg, PoolType, PoolStates
      <4> HIDE DEF q
      <4> QED
        BY <3>2, <3>4, <4>1 DEF Shut
    <3>5. CASE HasRequest(pool, t) /\ (pool' = SetRequest(pool, i, e)
                                       \/ pool' = SetRequest(pool, i, f))
      <4>1. /\ i \in DOMAIN pool.requests /\ p \in Request
            /\ p = pool.requests[i] /\ p.task = t
        BY <2>1, <3>5, WorkedOnIsBare
      <4> HIDE DEF i, p
      <4>2. /\ e \in Request /\ e.task = t /\ e.waiting = p.waiting
            /\ f \in Request /\ f.task = t /\ f.waiting = p.waiting
        BY <1>0, <4>1 DEF Request
      <4> HIDE DEF e, f
      <4>3. ShutReq(e, cur, ~handles) /\ ShutReq(f, cur, ~handles)
        BY <2>1, <3>2, <4>1, <4>2 DEF Shut, ShutReq
      <4>4. /\ ~pool.open /\ pool.free_new = <<>> /\ pool.free_used = <<>> /\ pool.busy = {}
            /\ \A j \in DOMAIN pool.requests \ {i} : ShutReq(pool.requests[j], cur, ~handles)
        BY <3>2 DEF Shut
      <4>5. /\ StaysShut(pool, SetRequest(pool, i, e), cur, ~handles)
            /\ StaysShut(pool, SetRequest(pool, i, f), cur, ~handles)
        BY <1>0, <4>1, <4>2, <4>3, <4>4, SetShut
      <4> QED
        BY <3>5, <4>5 DEF StaysShut
    <3> QED
      BY <2>1, <3>3, <3>4, <3>5
  <2> QED
    BY <1>1, <1>2, <2>2, <2>3, ReaperShut
<1>6. ASSUME NEW t \in Tasks, ReaperPost(t) PROVE ShutInv'
  <2> DEFINE s == PostProcessRequest(pool, t)
             w == ~handles
             D == IF w THEN {t} ELSE {}
  <2>1. rpc = "post" /\ t \in cur /\ rpc' = "top" /\ pool' = GetNextRequest(s)
    BY <1>6 DEF ReaperPost, Commit
  <2>2. cur = {t}
    BY <1>0, <2>1 DEF Option
  <2>3. Posting = {t} /\ Working = {t} /\ Keepers = {t} /\ D \subseteq Keepers'
    BY <1>2, <2>1, <2>2 DEF Posting, Working, Keepers
  <2>4. ASSUME ~pool.open PROVE Shut(pool', D, w)
    <3>1. Shut(pool, {t}, w) /\ w \in BOOLEAN /\ Tame(pool.requests, {t}, {t})
      BY <1>0, <2>3, <2>4 DEF ShutInv
    <3> HIDE DEF w
    <3>2. PoolType(s) /\ Shut(s, D, w)
      BY <1>0, <3>1, PostProcessRequestType, PostProcessShut
    <3> HIDE DEF s, D
    <3> QED
      BY <2>1, <3>2, GetNextShut
  <2> HIDE DEF s, D
  <2> QED
    BY <1>1, <1>2, <2>3, <2>4, ReaperShut
<1> QED
  BY <1>3, <1>4, <1>5, <1>6

\* The rest of the reaper's loop: it exits only when the close queue is empty.
LEMMA ReaperAwayShut ==
    ASSUME TypeOK, OwnershipInv, LeakInv, ShutInv,
           \/ ReaperEffect \/ ReaperDrop \/ ReaperRest \/ ReaperWake \/ ReaperTick
           \/ \E ok \in BOOLEAN : ReaperOpen(ok)
           \/ \E list \in {"free_new", "free_used"} : ReaperSweep(list)
    PROVE  ShutInv'
<1>1. OpenKept
  BY ReaperAwayLeaks
<1>2. handles' = handles /\ PoolType(pool)
  BY CalmPool DEF ReaperEffect, ReaperDrop, ReaperRest, ReaperWake, ReaperTick, ReaperOpen,
     ReaperSweep, closeVars
<1>3. Keepers = {}
  BY DEF Keepers, ReaperEffect, ReaperDrop, ReaperRest, ReaperWake, ReaperTick, ReaperOpen,
     ReaperSweep
<1>4. ASSUME ~pool.open PROVE Shut(pool, {}, ~handles) /\ Shut(pool', {}, ~handles)
  <2>1. Shut(pool, {}, ~handles)
    BY <1>3, <1>4 DEF ShutInv
  <2>2. \/ pool' = pool \/ pool' = [pool EXCEPT !.bg = FALSE]
        \/ (\E d : pool' = [pool EXCEPT !.to_drop = d])
        \/ \E c : pool' = PostCreateConn(pool, c) \/ pool' = PostCreateFailed(pool, c.id)
    <3>1. CASE ReaperEffect
      BY <1>4, <3>1 DEF ReaperEffect, Commit
    <3>2. CASE ReaperDrop
      BY <3>2 DEF ReaperDrop, Commit
    <3>3. CASE ReaperRest \/ ReaperWake \/ ReaperTick
      BY <3>3 DEF ReaperRest, ReaperWake, ReaperTick, Commit
    <3>4. CASE \E ok \in BOOLEAN : ReaperOpen(ok)
      BY <3>4 DEF ReaperOpen, Commit
    <3>5. CASE \E list \in {"free_new", "free_used"} : ReaperSweep(list)
      BY <2>1, <3>5 DEF ReaperSweep, Shut
    <3> QED
      BY <3>1, <3>2, <3>3, <3>4, <3>5
  <2> QED
    BY <1>2, <2>1, <2>2, SignalsShut, PostCreateShut DEF StaysShut
<1>5. CASE rpc' # "exited"
  BY <1>1, <1>2, <1>4, <1>5, ReaperShut
<1>6. CASE rpc' = "exited"
  <2>1. ReaperRest \/ \E list \in {"free_new", "free_used"} : ReaperSweep(list)
    BY <1>6 DEF ReaperEffect, ReaperDrop, ReaperRest, ReaperWake, ReaperTick, ReaperOpen,
       ReaperSweep, reaperVars
  <2>2. ReaperRest
    BY <1>6, <2>1 DEF ReaperSweep, reaperVars
  <2>3. pool' = pool /\ ~pool.open /\ pool.to_drop = {}
    BY <1>6, <2>2 DEF ReaperRest, Commit
  <2>4. Shut(pool', Keepers', ~handles')
    BY <1>2, <1>4, <2>3, ShutWeaker
  <2>5. (~pool.open => Shut(pool, Keepers, ~handles))'
    BY <2>4 DEF Shut, ShutReq
  <2> QED
    BY <2>3, <2>5 DEF ShutInv
<1> QED
  BY <1>5, <1>6

\* A pool whose lists and requests are empty is shut whoever waits.
LEMMA BareIsShut ==
    ASSUME NEW s, ~s.open, s.free_new = <<>>, s.free_used = <<>>, s.busy = {},
           \A i \in DOMAIN s.requests : s.requests[i].conn = {}, NEW C, NEW w,
           w \/ \A i \in DOMAIN s.requests : ~s.requests[i].waiting
    PROVE  Shut(s, C, w)
  BY DEF Shut, ShutReq

\* The last handle, and the reaper that no longer finds the pool.
LEMMA ReleasedShut ==
    ASSUME TypeOK, LeakInv, ShutInv, ReaperGone \/ LastHandle
    PROVE  ShutInv'
<1> DEFINE s == CloseAll(pool)
<1>1. PoolType(pool) /\ Tame(pool.requests, Posting, Working)
  BY CalmPool
<1>2. /\ pool' = s \/ pool' = NotifyBg(s)
      /\ ~handles'
  BY DEF ReaperGone, LastHandle, Commit, closeVars
<1>3. /\ ~s.open /\ s.free_new = <<>> /\ s.free_used = <<>> /\ s.busy = {} /\ s.to_drop = {}
      /\ \A i \in DOMAIN s.requests : s.requests[i].conn = {}
  BY <1>1, CloseAllKeeps DEF CloseAll, PoolType, PoolStates
<1>4. PoolType(s)
  BY <1>1, CloseAllType
<1> HIDE DEF s
<1>5. /\ pool'.requests = s.requests /\ pool'.open = s.open /\ pool'.to_drop = s.to_drop
      /\ pool'.free_new = s.free_new /\ pool'.free_used = s.free_used /\ pool'.busy = s.busy
  BY <1>2, <1>4 DEF NotifyBg, PoolType, PoolStates
<1>6. Shut(pool', Keepers', ~handles')
  BY <1>2, <1>3, <1>5, BareIsShut
<1>7. (~pool.open => Shut(pool, Keepers, ~handles))'
  BY <1>6 DEF Shut, ShutReq
<1> QED
  BY <1>3, <1>5, <1>7 DEF ShutInv

\* The shutdown section, and the other steps of close and of the settings.
LEMMA CloseShut ==
    ASSUME TypeOK, LeakInv, ShutInv,
           \/ \E c \in Closers : \/ \E force \in BOOLEAN : CloseRequest(c, force)
                                 \/ CloseTake(c) \/ CloseJoined(c) \/ CloseCancelled(c)
           \/ \E m \in SetModes : SetGetmode(m)
           \/ SetTimeoutSecs
    PROVE  ShutInv'
<1>1. PoolType(pool) /\ Tame(pool.requests, Posting, Working)
  BY CalmPool
<1>2. UNCHANGED <<rpc, cur, handles>>
  BY DEF CloseRequest, CloseTake, CloseJoined, CloseCancelled, SetGetmode, SetTimeoutSecs,
         reaperVars, closeVars
<1>3. \/ pool' = WakeWaiters(NotifyBg(pool)) \/ (\E c : pool' = AfterDrain(c))
      \/ (pool.open /\ pool' = ShutDown(pool)) \/ pool' = NotifyBg(pool) \/ pool' = pool
      \/ \E m : pool' = [pool EXCEPT !.mode = m]
      \/ pool' = NotifyBg([pool EXCEPT !.timeout = ~@])
  BY DEF CloseRequest, CloseTake, CloseJoined, CloseCancelled, SetGetmode, SetTimeoutSecs, Commit
<1>4. CASE pool.open /\ pool' = ShutDown(pool)
  <2> DEFINE s == ShutDown(pool)
  <2>1. /\ ~s.open /\ s.free_new = <<>> /\ s.free_used = <<>> /\ s.busy = {}
        /\ \A i \in DOMAIN s.requests : s.requests[i].conn = {} /\ ~s.requests[i].waiting
    BY <1>1, ShutDownKeeps
  <2>2. pool' = s
    BY <1>4
  <2> HIDE DEF s
  <2>3. Shut(pool', Keepers', ~handles')
    BY <2>1, <2>2, BareIsShut
  <2>4. (~pool.open => Shut(pool, Keepers, ~handles))'
    BY <2>3 DEF Shut, ShutReq
  <2>5. rpc' # "exited"
    BY <1>2, <1>4 DEF ShutInv
  <2> QED
    BY <2>1, <2>2, <2>4, <2>5 DEF ShutInv
<1>5. CASE ~(pool.open /\ pool' = ShutDown(pool))
  <2>1. OpenKept
    BY <1>1, <1>3, <1>5
       DEF OpenKept, AfterDrain, WakeWaiters, NotifyBg, PoolType, PoolStates
  <2>2. ASSUME ~pool.open PROVE StaysShut(pool, pool', Keepers, ~handles)
    <3>1. Shut(pool, Keepers, ~handles)
      BY <2>2 DEF ShutInv
    <3> QED
      BY <1>1, <1>3, <1>5, <3>1, SignalsShut DEF AfterDrain
  <2> QED
    BY <1>2, <2>1, <2>2, QuietShut
<1> QED
  BY <1>4, <1>5

\* Every step of a calm engine keeps a closed pool shut.
LEMMA NextShut ==
    ASSUME TypeOK, OwnershipInv, LeakInv, Calm, ShutInv, [Next]_vars
    PROVE  ShutInv'
<1>1. CASE \E t \in Tasks : TaskStep(t)
  BY <1>1, TaskStepShut
<1>2. CASE ReaperStep
  <2>1. ASSUME NEW t \in Tasks, NEW b \in BOOLEAN PROVE ~ReaperPing(t, b)
    BY DEF LeakInv, ReaperPing
  <2> QED
    BY <1>2, <2>1, ObserveShut, ReaperWorkShut, ReaperAwayShut, ReleasedShut DEF ReaperStep
<1>3. CASE \E c \in Closers : CloserStep(c)
  BY <1>3, ObserveShut, CloseShut DEF CloserStep
<1>4. CASE DrainOne(Observer) \/ Observe
  BY <1>4, ObserveShut
<1>5. CASE LastHandle
  BY <1>5, ReleasedShut
<1>6. CASE (\E m \in SetModes : SetGetmode(m)) \/ SetTimeoutSecs
  BY <1>6, CloseShut
<1>7. CASE UNCHANGED vars
  <2>1. pool' = pool /\ UNCHANGED <<rpc, cur, handles>>
    BY <1>7 DEF vars, reaperVars, closeVars
  <2>2. ~pool.open => StaysShut(pool, pool', Keepers, ~handles)
    BY <2>1 DEF ShutInv, StaysShut
  <2> QED
    BY <2>1, <2>2, QuietShut DEF OpenKept
<1> QED
  BY <1>1, <1>2, <1>3, <1>4, <1>5, <1>6, <1>7 DEF Next

\* A pool that is closed stays closed, and a reaper that has exited is gone.
LEMMA ClosedForGood ==
    ASSUME TypeOK, OwnershipInv, LeakInv, Calm, [Next]_vars
    PROVE  (~pool.open => ~pool'.open) /\ (rpc = "exited" => rpc' = "exited")
<1>1. rpc = "exited" => rpc' = "exited"
  BY DEF Next, TaskStep, ReaperStep, CloserStep, vars, reaperVars, DrainOne, Acquire, PollFails,
     PollCompleted, PollPending, ScanUnfit, ScanNeedsPing, ScanFit, ScanExhausted, AbortWait,
     CancelWait, Timeout, Abandon, Release, DropFromPool, DropGuard, ReaperTop, ReaperProcess,
     ReaperPing, ReaperCreate, ReaperPost, ReaperEffect, ReaperOpen, ReaperDrop, ReaperSweep,
     ReaperRest, ReaperWake, ReaperTick, ReaperGone, CloseRequest, CloseTake, CloseJoined,
     CloseCancelled, LastHandle, SetGetmode, SetTimeoutSecs, Observe
<1>2. ASSUME ~pool.open PROVE ~pool'.open
  <2>1. CASE OpenKept
    BY <1>2, <2>1 DEF OpenKept
  <2>2. CASE \/ \E c \in Closers : \/ \E force \in BOOLEAN : CloseRequest(c, force)
                                  \/ CloseTake(c) \/ CloseJoined(c) \/ CloseCancelled(c)
             \/ \E m \in SetModes : SetGetmode(m)
             \/ SetTimeoutSecs
    <3>1. \/ pool' = WakeWaiters(NotifyBg(pool)) \/ (\E c : pool' = AfterDrain(c))
          \/ pool' = NotifyBg(pool) \/ pool' = pool
          \/ \E m : pool' = [pool EXCEPT !.mode = m]
          \/ pool' = NotifyBg([pool EXCEPT !.timeout = ~@])
      BY <1>2, <2>2 DEF CloseRequest, CloseTake, CloseJoined, CloseCancelled, SetGetmode,
         SetTimeoutSecs, Commit
    <3> QED
      BY <1>2, <3>1, CalmPool DEF AfterDrain, WakeWaiters, NotifyBg, PoolType, PoolStates
  <2>3. CASE ReaperGone \/ LastHandle
    BY <2>3, CalmPool
       DEF ReaperGone, LastHandle, Commit, CloseAll, NotifyBg, PoolType, PoolStates
  <2>4. CASE \E t \in Tasks : TaskStep(t)
    BY <2>1, <2>4, TaskStepLeaks
  <2>5. CASE ReaperStep
    <3>1. ASSUME NEW t \in Tasks, NEW b \in BOOLEAN PROVE ~ReaperPing(t, b)
      BY DEF LeakInv, ReaperPing
    <3> QED
      BY <2>1, <2>3, <2>5, <3>1, DrainOneLeaks, ReaperTopLeaks, ReaperProcessLeaks,
         ReaperCreateLeaks, ReaperPostLeaks, ReaperAwayLeaks DEF ReaperStep
  <2>6. CASE UNCHANGED vars
    BY <1>2, <2>6 DEF vars
  <2> QED
    BY <2>1, <2>2, <2>3, <2>4, <2>5, <2>6, DrainOneLeaks, ObserveLeaks DEF Next, CloserStep
<1> QED
  BY <1>1, <1>2

\* What one call of close knows.
LEMMA NextCloser ==
    ASSUME TypeOK, OwnershipInv, LeakInv, Calm, CloserInv, [Next]_vars,
           \A c, k \in Closers : c = k
    PROVE  CloserInv'
<1>1. (~pool.open => ~pool'.open) /\ (rpc = "exited" => rpc' = "exited")
  BY ClosedForGood
<1>2. cpc \in [Closers -> CloserPcs] /\ PoolType(pool)
  BY CalmPool DEF TypeOK
<1>3. CASE UNCHANGED <<cpc, joinable>>
  <2>1. ASSUME NEW c \in Closers
        PROVE  /\ cpc'[c] \in {"idle", "take"} => joinable'
               /\ cpc'[c] \in {"take", "join", "closed"} => ~pool'.open
               /\ cpc'[c] = "closed" => rpc' = "exited"
    BY <1>1, <1>3 DEF CloserInv
  <2> QED
    BY <2>1 DEF CloserInv
<1>4. ASSUME NEW c \in Closers,
             \/ \E force \in BOOLEAN : CloseRequest(c, force)
             \/ CloseTake(c) \/ CloseJoined(c) \/ CloseCancelled(c)
      PROVE  CloserInv'
  <2>1. rpc' = rpc /\ \E v : cpc' = [cpc EXCEPT ![c] = v]
    BY <1>4 DEF CloseRequest, CloseTake, CloseJoined, CloseCancelled, reaperVars
  <2>2. /\ cpc[c] \in {"idle", "take"} => joinable
        /\ cpc[c] \in {"take", "join", "closed"} => ~pool.open
        /\ cpc[c] = "closed" => rpc = "exited"
    BY DEF CloserInv
  <2>3. /\ cpc'[c] \in {"idle", "take"} => joinable'
        /\ cpc'[c] \in {"take", "join", "closed"} => ~pool'.open
        /\ cpc'[c] = "closed" => rpc' = "exited"
    <3>1. CASE \E force \in BOOLEAN : CloseRequest(c, force)
      <4>1. /\ cpc[c] = "idle" /\ joinable' = joinable
            /\ \/ cpc' = [cpc EXCEPT ![c] = "take"] /\ (~pool.open \/ pool' = ShutDown(pool))
               \/ cpc' = [cpc EXCEPT ![c] = "failed"]
        BY <3>1 DEF CloseRequest, Commit
      <4>2. ~ShutDown(pool).open
        BY <1>2 DEF ShutDown, WakeWaiters, NotifyBg, PoolType, PoolStates
      <4> QED
        BY <1>1, <1>2, <2>2, <4>1, <4>2
    <3>2. CASE CloseTake(c)
      <4>1. cpc[c] = "take" /\ cpc' = [cpc EXCEPT ![c] = IF joinable THEN "join" ELSE "closed"]
        BY <3>2 DEF CloseTake
      <4> QED
        BY <1>1, <1>2, <2>2, <4>1
    <3>3. CASE CloseJoined(c)
      <4>1. cpc[c] = "join" /\ rpc = "exited" /\ cpc' = [cpc EXCEPT ![c] = "closed"]
        BY <3>3 DEF CloseJoined
      <4> QED
        BY <1>1, <1>2, <2>2, <4>1
    <3>4. CASE CloseCancelled(c)
      <4>1. cpc' = [cpc EXCEPT ![c] = "failed"]
        BY <3>4 DEF CloseCancelled
      <4> QED
        BY <1>2, <4>1
    <3> QED
      BY <1>4, <3>1, <3>2, <3>3, <3>4
  <2>4. ASSUME NEW k \in Closers
        PROVE  /\ cpc'[k] \in {"idle", "take"} => joinable'
               /\ cpc'[k] \in {"take", "join", "closed"} => ~pool'.open
               /\ cpc'[k] = "closed" => rpc' = "exited"
    <3>1. k = c
      OBVIOUS
    <3> QED
      BY <2>3, <3>1
  <2> QED
    BY <2>4 DEF CloserInv
<1>5. \/ UNCHANGED <<cpc, joinable>>
      \/ \E c \in Closers : \/ \E force \in BOOLEAN : CloseRequest(c, force)
                            \/ CloseTake(c) \/ CloseJoined(c) \/ CloseCancelled(c)
  BY DEF Next, TaskStep, ReaperStep, CloserStep, vars, closeVars, DrainOne, Acquire, PollFails,
     PollCompleted, PollPending, ScanUnfit, ScanNeedsPing, ScanFit, ScanExhausted, AbortWait,
     CancelWait, Timeout, Abandon, Release, DropFromPool, DropGuard, ReaperTop, ReaperProcess,
     ReaperPing, ReaperCreate, ReaperPost, ReaperEffect, ReaperOpen, ReaperDrop, ReaperSweep,
     ReaperRest, ReaperWake, ReaperTick, ReaperGone, LastHandle, SetGetmode, SetTimeoutSecs,
     Observe
<1> QED
  BY <1>3, <1>4, <1>5

\* A pool that has just been started is open, and nobody has closed it.
LEMMA InitShut ==
    ASSUME Init
    PROVE  ShutInv /\ CloserInv
<1>1. pool.open
  BY DEF Init, StartState, ScheduleOpenEffects
<1> QED
  BY <1>1 DEF Init, ShutInv, CloserInv

\* When the reaper has exited no session is left.
LEMMA ExitedIsEmpty ==
    ASSUME TypeOK, OwnershipInv, LeakInv, ShutInv, rpc = "exited"
    PROVE  alive = {}
<1>1. Keepers = {} /\ ~pool.open /\ pool.to_drop = {}
  BY DEF Keepers, ShutInv
<1>2. /\ pool.free_new = <<>> /\ pool.free_used = <<>> /\ pool.busy = {}
      /\ \A i \in DOMAIN pool.requests : pool.requests[i].conn = {}
  BY <1>1 DEF ShutInv, Shut, ShutReq
<1>3. Placed(pool) = {}
  <2>1. ReqIds(pool.requests) = {}
    BY <1>2, NoConnsNoIds
  <2> QED
    BY <1>1, <1>2, <2>1, EmptyIds DEF Placed
<1> QED
  BY <1>3, ReachedIsOpen

\* No session is lost: whatever opens, returns, replacements, cancelled waits
\* and closes do at the same time, the sessions open on the database are those
\* the pool can reach (PoolState and the reaper's hands), and none is open when
\* close returns.  Two hypotheses, both needed: no connection is pinged, since
\* process_request drops a pinged connection whose request has gone, and close
\* is called once, since a second call finds no join handle and returns early.
THEOREM NoSessionIsLost ==
    ASSUME \A c, k \in Closers : c = k
    PROVE  Spec => [](~Event("ping") => NothingLeaks)
<1> DEFINE Inv == Calm => LeakInv /\ ShutInv /\ CloserInv
<1>1. Init => Inv
  BY InitLeaks, InitShut
<1>2. TypeOK /\ OwnershipInv /\ Inv /\ [Next]_vars => Inv'
  <2>1. SUFFICES ASSUME TypeOK, OwnershipInv, Inv, [Next]_vars, Calm'
                 PROVE  (LeakInv /\ ShutInv /\ CloserInv)'
    OBVIOUS
  <2>2. Calm
    BY <2>1, CalmKept DEF Calm, Event
  <2> QED
    BY <2>1, <2>2, NextLeaks, NextShut, NextCloser
<1>3. TypeOK /\ OwnershipInv /\ Inv => (~Event("ping") => NothingLeaks)
  <2>1. SUFFICES ASSUME TypeOK, OwnershipInv, Inv, ~Event("ping"), OneClass
                 PROVE  /\ alive = Ids(Tracked)
                        /\ \A c \in Closers : cpc[c] = "closed" => alive = {}
    BY DEF NothingLeaks, SessionsAccounted, CloseClosesAll
  <2>2. LeakInv /\ ShutInv /\ CloserInv
    BY <2>1 DEF Calm, OneClass
  <2> QED
    BY <2>1, <2>2, ReachedIsOpen, ExitedIsEmpty DEF CloserInv
<1> QED
  BY <1>1, <1>2, <1>3, OwnershipHolds, PTL DEF Spec

\* The same for the sessions alone, however often close is called.
THEOREM EverySessionIsReached == Spec => [](~Event("ping") => SessionsAccounted)
<1>1. TypeOK /\ OwnershipInv /\ (Calm => LeakInv) => (~Event("ping") => SessionsAccounted)
  BY ReachedIsOpen DEF Calm, OneClass, SessionsAccounted
<1> QED
  BY <1>1, LeakInvHolds, PTL

-----------------------------------------------------------------------------
(* The pool stays within its maximum. *)

\* the connections in service, planned or being opened for the pool
Seats(s) ==
    SeqIds(s.free_new) \cup SeqIds(s.free_used) \cup Ids(s.busy)
        \cup ReqIds(s.requests) \cup Planned(s) \cup s.in_flight

\* a request a connection was retired for has not got its own yet; one that
\* the reaper, at step g, is about to post-process gets none
Awaits(r, g, C) ==
    /\ r.bg_processing /\ ~r.completed /\ ~r.error /\ r.is_replacing /\ r.conn = {}
    /\ ~(g = "post" /\ r.task \in C)

Promises(q, g, C) == {q[i].task : i \in {j \in DOMAIN q : Awaits(q[j], g, C)}}

\* with the connections X, which are in no list for the moment, and the
\* connections that are owed to requests, there is room for all
Room(s, X, g, C) ==
    /\ IsFiniteSet(Seats(s) \cup X)
    /\ Cardinality(Seats(s) \cup X) + Cardinality(Promises(s.requests, g, C)) <= PoolMax

\* the requests of a pool without pings and FORCEGET, when the reaper at step g
\* works for C
PlainReq(r, g, C) ==
    /\ ~r.requires_ping /\ ~r.is_extra
    /\ r.is_replacing => r.bg_processing \/ r.completed \/ r.error
    /\ r.bg_processing /\ r.error => g = "post" /\ r.task \in C
    /\ r.task \in C =>
         /\ g = "create" => r.is_replacing
         /\ g = "post" /\ r.is_replacing /\ r.conn = {} => r.error \/ ~r.waiting

Plain(q, g, C) == \A i \in DOMAIN q : PlainReq(q[i], g, C)

Fits(s, X, F, g, C) ==
    /\ s.mode # "FORCEGET" /\ s.in_flight = F
    /\ Plain(s.requests, g, C) /\ Room(s, X, g, C)

\* Promises are made to tasks, and those are finitely many.
LEMMA PromisesFinite ==
    ASSUME NEW q \in Seq(Request), NEW g, NEW C
    PROVE  Promises(q, g, C) \subseteq Tasks /\ IsFiniteSet(Promises(q, g, C))
<1>1. Promises(q, g, C) \subseteq Tasks
  BY RequestFields DEF Promises
<1> QED
  BY <1>1, TaskAssumption, FS_Subset

\* A step that seats nobody new and promises nothing new.
LEMMA RoomKept ==
    ASSUME NEW s, PoolType(s), NEW X, NEW g, NEW C, Room(s, X, g, C),
           NEW s2, PoolType(s2), NEW Y, NEW h, NEW D,
           Seats(s2) \cup Y \subseteq Seats(s) \cup X,
           Promises(s2.requests, h, D) \subseteq Promises(s.requests, g, C)
    PROVE  Room(s2, Y, h, D)
<1> DEFINE A == Seats(s) \cup X
           B == Seats(s2) \cup Y
           M == Promises(s.requests, g, C)
           N == Promises(s2.requests, h, D)
<1>1. /\ IsFiniteSet(A) /\ B \subseteq A /\ N \subseteq M
      /\ Cardinality(A) + Cardinality(M) <= PoolMax
  BY DEF Room
<1>2. IsFiniteSet(M)
  BY PromisesFinite, Fields
<1> HIDE DEF A, B, M, N
<1>3. /\ IsFiniteSet(B) /\ Cardinality(B) <= Cardinality(A) /\ Cardinality(B) \in Nat
      /\ Cardinality(A) \in Nat
  BY <1>1, FS_Subset, FS_CardinalityType
<1>4. Cardinality(N) <= Cardinality(M) /\ Cardinality(N) \in Nat /\ Cardinality(M) \in Nat
  BY <1>1, <1>2, FS_Subset, FS_CardinalityType
<1>5. Cardinality(B) + Cardinality(N) <= PoolMax
  BY <1>1, <1>3, <1>4, SizeAssumption
<1> QED
  BY <1>3, <1>5 DEF Room, B, N

\* The same, request by request.
LEMMA FitsKept ==
    ASSUME NEW s, PoolType(s), NEW X, NEW F, NEW g, NEW C, Fits(s, X, F, g, C),
           NEW s2, PoolType(s2), NEW Y, NEW h, NEW D,
           s2.mode # "FORCEGET", s2.in_flight = F, Seats(s2) \cup Y \subseteq Seats(s) \cup X,
           \A i \in DOMAIN s2.requests :
               /\ PlainReq(s2.requests[i], h, D)
               /\ Awaits(s2.requests[i], h, D) =>
                    \E j \in DOMAIN s.requests : /\ s.requests[j].task = s2.requests[i].task
                                                 /\ Awaits(s.requests[j], g, C)
    PROVE  Fits(s2, Y, F, h, D)
<1>1. Promises(s2.requests, h, D) \subseteq Promises(s.requests, g, C)
  BY DEF Promises
<1> QED
  BY <1>1, RoomKept DEF Fits, Plain

\* A step that leaves requests alone.
LEMMA RequestsFit ==
    ASSUME NEW s, PoolType(s), NEW X, NEW F, NEW g, NEW C, Fits(s, X, F, g, C),
           NEW s2, PoolType(s2), NEW Y, s2.requests = s.requests,
           s2.mode = s.mode, s2.in_flight = F, Seats(s2) \cup Y \subseteq Seats(s) \cup X
    PROVE  Fits(s2, Y, F, g, C)
  BY FitsKept DEF Fits, Plain

\* The notifiers and parking need no room.
LEMMA SignalsFit ==
    ASSUME NEW s, PoolType(s), NEW X, NEW F, NEW g, NEW C, Fits(s, X, F, g, C)
    PROVE  /\ Fits(NotifyBg(s), X, F, g, C) /\ Fits(WakeWaiters(s), X, F, g, C)
           /\ \A t \in Tasks : Fits(Park(s, t), X, F, g, C)
           /\ \A b \in BOOLEAN : /\ Fits([s EXCEPT !.bg = b], X, F, g, C)
                                 /\ Fits([s EXCEPT !.timeout = b], X, F, g, C)
           /\ \A D \in SUBSET PooledConn : Fits([s EXCEPT !.to_drop = D], X, F, g, C)
           /\ \A n \in ConnIds : Fits([s EXCEPT !.next_conn_id = n], X, F, g, C)
<1>1. s \in PoolStates
  BY DEF PoolType
<1>2. /\ NotifyBg(s) = [s EXCEPT !.bg = TRUE] /\ WakeWaiters(s) = [s EXCEPT !.parked = {}]
      /\ \A t \in Tasks : Park(s, t) = [s EXCEPT !.parked = s.parked \cup {t}]
  BY <1>1 DEF NotifyBg, WakeWaiters, Park
<1>3. ASSUME NEW s2, PoolType(s2), s2.requests = s.requests, s2.mode = s.mode,
             s2.in_flight = s.in_flight, s2.free_new = s.free_new, s2.free_used = s.free_used,
             s2.busy = s.busy, s2.open_effects = s.open_effects
      PROVE  Fits(s2, X, F, g, C)
  <2>1. Seats(s2) = Seats(s)
    BY <1>3 DEF Seats, Planned
  <2> QED
    BY <1>3, <2>1, RequestsFit DEF Fits
<1>4. \A p \in SUBSET Tasks : Fits([s EXCEPT !.parked = p], X, F, g, C)
  <2>1. ASSUME NEW p \in SUBSET Tasks PROVE Fits([s EXCEPT !.parked = p], X, F, g, C)
    <3> DEFINE s2 == [s EXCEPT !.parked = p]
    <3>1. PoolType(s2)
      BY DEF PoolType, PoolStates
    <3>2. /\ s2.requests = s.requests /\ s2.mode = s.mode
          /\ s2.in_flight = s.in_flight /\ s2.free_new = s.free_new /\ s2.free_used = s.free_used
          /\ s2.busy = s.busy /\ s2.open_effects = s.open_effects
      BY <1>1 DEF PoolStates
    <3> HIDE DEF s2
    <3>3. Fits(s2, X, F, g, C)
      BY <3>1, <3>2, <1>3
    <3> QED
      BY <3>3 DEF s2
  <2> QED
    BY <2>1
<1>5. ASSUME NEW b \in BOOLEAN
      PROVE  Fits([s EXCEPT !.bg = b], X, F, g, C) /\ Fits([s EXCEPT !.timeout = b], X, F, g, C)
  <2> DEFINE s2 == [s EXCEPT !.bg = b]
             s3 == [s EXCEPT !.timeout = b]
  <2>1. PoolType(s2) /\ PoolType(s3)
    BY DEF PoolType, PoolStates
  <2>2. /\ s2.requests = s.requests /\ s2.mode = s.mode
        /\ s2.in_flight = s.in_flight /\ s2.free_new = s.free_new /\ s2.free_used = s.free_used
        /\ s2.busy = s.busy /\ s2.open_effects = s.open_effects
    BY <1>1 DEF PoolStates
  <2>3. /\ s3.requests = s.requests /\ s3.mode = s.mode
        /\ s3.in_flight = s.in_flight /\ s3.free_new = s.free_new /\ s3.free_used = s.free_used
        /\ s3.busy = s.busy /\ s3.open_effects = s.open_effects
    BY <1>1 DEF PoolStates
  <2> HIDE DEF s2, s3
  <2>4. Fits(s2, X, F, g, C) /\ Fits(s3, X, F, g, C)
    BY <2>1, <2>2, <2>3, <1>3
  <2> QED
    BY <2>4 DEF s2, s3
<1>6. ASSUME NEW D \in SUBSET PooledConn PROVE Fits([s EXCEPT !.to_drop = D], X, F, g, C)
  <2> DEFINE s2 == [s EXCEPT !.to_drop = D]
  <2>1. PoolType(s2)
    BY DEF PoolType, PoolStates
  <2>2. /\ s2.requests = s.requests /\ s2.mode = s.mode
        /\ s2.in_flight = s.in_flight /\ s2.free_new = s.free_new /\ s2.free_used = s.free_used
        /\ s2.busy = s.busy /\ s2.open_effects = s.open_effects
    BY <1>1 DEF PoolStates
  <2> HIDE DEF s2
  <2>4. Fits(s2, X, F, g, C)
    BY <2>1, <2>2, <1>3
  <2> QED
    BY <2>4 DEF s2
<1>7. ASSUME NEW n \in ConnIds PROVE Fits([s EXCEPT !.next_conn_id = n], X, F, g, C)
  <2> DEFINE s2 == [s EXCEPT !.next_conn_id = n]
  <2>1. PoolType(s2)
    BY DEF PoolType, PoolStates
  <2>2. /\ s2.requests = s.requests /\ s2.mode = s.mode
        /\ s2.in_flight = s.in_flight /\ s2.free_new = s.free_new /\ s2.free_used = s.free_used
        /\ s2.busy = s.busy /\ s2.open_effects = s.open_effects
    BY <1>1 DEF PoolStates
  <2> HIDE DEF s2
  <2>4. Fits(s2, X, F, g, C)
    BY <2>1, <2>2, <1>3
  <2> QED
    BY <2>4 DEF s2
<1> QED
  <2>1. \A t \in Tasks : s.parked \cup {t} \in SUBSET Tasks
    BY Fields
  <2>2. ASSUME NEW t \in Tasks PROVE Fits(Park(s, t), X, F, g, C)
    BY <1>2, <1>4, <2>1
  <2>3. Fits(NotifyBg(s), X, F, g, C) /\ Fits(WakeWaiters(s), X, F, g, C)
    BY <1>2, <1>4, <1>5
  <2> QED
    BY <2>2, <2>3, <1>5, <1>6, <1>7

\* An injective enumeration is not needed to bound a set by a list.
LEMMA ListedSize ==
    ASSUME NEW S, NEW n \in Nat, NEW f, \A y \in S : \E i \in 1..n : y = f[i]
    PROVE  IsFiniteSet(S) /\ Cardinality(S) <= n
<1> DEFINE pos == [y \in S |-> CHOOSE i \in 1..n : y = f[i]]
<1>1. \A y \in S : pos[y] \in 1..n /\ y = f[pos[y]]
  OBVIOUS
<1>2. pos \in [S -> 1..n] /\ \A a, b \in S : pos[a] = pos[b] => a = b
  BY <1>1
<1> HIDE DEF pos
<1>3. pos \in Injection(S, 1..n)
  BY <1>2 DEF Injection, IsInjective
<1>4. IsFiniteSet(1..n) /\ Cardinality(1..n) = n
  BY FS_Interval
<1> QED
  BY <1>3, <1>4, FS_Injection

\* Two finite sets together are at most as large as their sizes added.
LEMMA UnionSize ==
    ASSUME NEW S, NEW T, IsFiniteSet(S), IsFiniteSet(T)
    PROVE  /\ IsFiniteSet(S \cup T) /\ Cardinality(S \cup T) \in Nat
           /\ Cardinality(S \cup T) <= Cardinality(S) + Cardinality(T)
           /\ Cardinality(S) \in Nat /\ Cardinality(T) \in Nat
<1>1. IsFiniteSet(S \cup T) /\ IsFiniteSet(S \cap T)
  BY FS_Union, FS_Intersection
<1>2. Cardinality(S \cup T) = Cardinality(S) + Cardinality(T) - Cardinality(S \cap T)
  BY FS_Union
<1>3. /\ Cardinality(S \cup T) \in Nat /\ Cardinality(S) \in Nat /\ Cardinality(T) \in Nat
      /\ Cardinality(S \cap T) \in Nat
  BY <1>1, FS_CardinalityType
<1> QED
  BY <1>1, <1>2, <1>3

\* Images of finite sets, each element of the image with a source.
LEMMA ImageSize ==
    ASSUME NEW S, NEW T, IsFiniteSet(T), NEW f, \A y \in S : \E x \in T : y = f[x]
    PROVE  IsFiniteSet(S) /\ Cardinality(S) <= Cardinality(T)
<1> DEFINE pos == [y \in S |-> CHOOSE x \in T : y = f[x]]
<1>1. \A y \in S : pos[y] \in T /\ y = f[pos[y]]
  OBVIOUS
<1>2. pos \in [S -> T] /\ \A a, b \in S : pos[a] = pos[b] => a = b
  BY <1>1
<1> HIDE DEF pos
<1>3. pos \in Injection(S, T)
  BY <1>2 DEF Injection, IsInjective
<1> QED
  BY <1>3, FS_Injection

\* The reservations of the pool cover what is seated and promised.
LEMMA ReservedCovers ==
    ASSUME NEW s, PoolType(s), NEW g, NEW C, Plain(s.requests, g, C)
    PROVE  /\ IsFiniteSet(Seats(s)) /\ Cardinality(Seats(s)) \in Nat
           /\ Cardinality(Promises(s.requests, g, C)) \in Nat
           /\ Cardinality(Seats(s)) + Cardinality(Promises(s.requests, g, C))
                <= ReservedOpenCount(s)
           /\ ReservedOpenCount(s) \in Nat
<1> DEFINE N == SeqIds(s.free_new)
           U == SeqIds(s.free_used)
           B == Ids(s.busy)
           R == ReqIds(s.requests)
           E == Planned(s)
           I == s.in_flight
           M == Promises(s.requests, g, C)
           DC == {i \in DOMAIN s.requests : HasConn(s.requests[i])}
           DO == {i \in DOMAIN s.requests : RequestIsOpening(s.requests[i])}
<1>1. /\ s.free_new \in Seq(PooledConn) /\ s.free_used \in Seq(PooledConn)
      /\ s.requests \in Seq(Request) /\ s.open_effects \in Seq(ConnIds)
      /\ IsFiniteSet(s.busy) /\ IsFiniteSet(I)
  BY Fields
<1>2. /\ DOMAIN s.free_new = 1..Len(s.free_new) /\ Len(s.free_new) \in Nat
      /\ DOMAIN s.free_used = 1..Len(s.free_used) /\ Len(s.free_used) \in Nat
      /\ DOMAIN s.open_effects = 1..Len(s.open_effects) /\ Len(s.open_effects) \in Nat
      /\ DOMAIN s.requests = 1..Len(s.requests) /\ Len(s.requests) \in Nat
  BY <1>1
<1>3. IsFiniteSet(N) /\ Cardinality(N) <= Len(s.free_new)
  <2> DEFINE f == [i \in 1..Len(s.free_new) |-> s.free_new[i].id]
  <2>1. \A y \in N : \E i \in 1..Len(s.free_new) : y = f[i]
    BY <1>2 DEF SeqIds
  <2> HIDE DEF f, N
  <2> QED
    BY <1>2, <2>1, ListedSize
<1>4. IsFiniteSet(U) /\ Cardinality(U) <= Len(s.free_used)
  <2> DEFINE f == [i \in 1..Len(s.free_used) |-> s.free_used[i].id]
  <2>1. \A y \in U : \E i \in 1..Len(s.free_used) : y = f[i]
    BY <1>2 DEF SeqIds
  <2> HIDE DEF f, U
  <2> QED
    BY <1>2, <2>1, ListedSize
<1>5. IsFiniteSet(E) /\ Cardinality(E) <= Len(s.open_effects)
  <2>1. \A y \in E : \E i \in 1..Len(s.open_effects) : y = s.open_effects[i]
    BY <1>2 DEF Planned, ToSet
  <2> HIDE DEF E
  <2> QED
    BY <1>2, <2>1, ListedSize
<1>6. IsFiniteSet(B) /\ Cardinality(B) <= Cardinality(s.busy)
  <2> DEFINE f == [c \in s.busy |-> c.id]
  <2>1. \A y \in B : \E c \in s.busy : y = f[c]
    BY DEF Ids
  <2> HIDE DEF f, B
  <2> QED
    BY <1>1, <2>1, ImageSize
<1>7. IsFiniteSet(DC) /\ IsFiniteSet(DO)
  <2>1. IsFiniteSet(1..Len(s.requests))
    BY <1>2, FS_Interval
  <2>2. DC \subseteq 1..Len(s.requests) /\ DO \subseteq 1..Len(s.requests)
    BY <1>2
  <2> QED
    BY <2>1, <2>2, FS_Subset
<1>8. IsFiniteSet(R) /\ Cardinality(R) <= Cardinality(DC)
  <2> DEFINE f == [i \in DC |-> (CHOOSE c \in s.requests[i].conn : TRUE).id]
  <2>1. ASSUME NEW y \in R PROVE \E i \in DC : y = f[i]
    <3>1. PICK i \in DOMAIN s.requests : \E c \in s.requests[i].conn : y = c.id
      BY DEF ReqIds
    <3>2. PICK c \in s.requests[i].conn : y = c.id
      BY <3>1
    <3>3. i \in DC
      BY <3>2 DEF HasConn
    <3>4. s.requests[i].conn \in Option(PooledConn)
      BY RequestIn, RequestFields
    <3>5. (CHOOSE d \in s.requests[i].conn : TRUE) = c
      BY <3>2, <3>4 DEF Option
    <3>6. f[i] = y
      BY <3>2, <3>3, <3>5
    <3> QED
      BY <3>3, <3>6
  <2> HIDE DEF f, R, DC
  <2> QED
    BY <1>7, <2>1, ImageSize
<1>9. IsFiniteSet(M) /\ Cardinality(M) <= Cardinality(DO)
  <2> DEFINE f == [i \in DO |-> s.requests[i].task]
  <2>1. ASSUME NEW y \in M PROVE \E i \in DO : y = f[i]
    <3>1. PICK i \in DOMAIN s.requests : Awaits(s.requests[i], g, C) /\ y = s.requests[i].task
      BY DEF Promises
    <3>2. ~s.requests[i].requires_ping
      BY DEF Plain, PlainReq
    <3>3. i \in DO
      BY <3>1, <3>2 DEF Awaits, RequestIsOpening
    <3> QED
      BY <3>1, <3>3
  <2> HIDE DEF f, M, DO
  <2> QED
    BY <1>7, <2>1, ImageSize
<1>10. /\ ReservedOpenCount(s) = Len(s.free_new) + Len(s.free_used) + Cardinality(s.busy)
            + Cardinality(DC) + (Len(s.open_effects) + Cardinality(I) + Cardinality(DO))
       /\ Seats(s) = N \cup U \cup B \cup R \cup E \cup I
  BY DEF ReservedOpenCount, ActiveOpenCount, PendingOpenCount, CountRequests, Seats
<1>11. /\ Cardinality(s.busy) \in Nat /\ Cardinality(I) \in Nat
       /\ Cardinality(DC) \in Nat /\ Cardinality(DO) \in Nat /\ Cardinality(M) \in Nat
  BY <1>1, <1>7, <1>9, FS_CardinalityType
<1> HIDE DEF N, U, B, R, E, I, M, DC, DO
<1>12. /\ IsFiniteSet(N \cup U) /\ IsFiniteSet(N \cup U \cup B)
       /\ IsFiniteSet(N \cup U \cup B \cup R) /\ IsFiniteSet(N \cup U \cup B \cup R \cup E)
  <2>1. IsFiniteSet(N \cup U)
    BY <1>3, <1>4, UnionSize
  <2>2. IsFiniteSet(N \cup U \cup B)
    BY <2>1, <1>6, UnionSize
  <2>3. IsFiniteSet(N \cup U \cup B \cup R)
    BY <2>2, <1>8, UnionSize
  <2> QED
    BY <2>1, <2>2, <2>3, <1>5, UnionSize
<1>13. IsFiniteSet(I)
  BY <1>1
<1> DEFINE a1 == Cardinality(N \cup U)
           a2 == Cardinality(N \cup U \cup B)
           a3 == Cardinality(N \cup U \cup B \cup R)
           a4 == Cardinality(N \cup U \cup B \cup R \cup E)
           a5 == Cardinality(N \cup U \cup B \cup R \cup E \cup I)
           b1 == Cardinality(N)
           b2 == Cardinality(U)
           b3 == Cardinality(B)
           b4 == Cardinality(R)
           b5 == Cardinality(E)
           b6 == Cardinality(I)
           b7 == Cardinality(M)
           c1 == Len(s.free_new)
           c2 == Len(s.free_used)
           c3 == Cardinality(s.busy)
           c4 == Cardinality(DC)
           c5 == Len(s.open_effects)
           c7 == Cardinality(DO)
<1>14. /\ a1 <= b1 + b2 /\ a2 <= a1 + b3 /\ a3 <= a2 + b4 /\ a4 <= a3 + b5 /\ a5 <= a4 + b6
       /\ a1 \in Nat /\ a2 \in Nat /\ a3 \in Nat /\ a4 \in Nat /\ a5 \in Nat
       /\ b1 \in Nat /\ b2 \in Nat /\ b3 \in Nat /\ b4 \in Nat /\ b5 \in Nat
       /\ IsFiniteSet(N \cup U \cup B \cup R \cup E \cup I)
  <2>1. a1 <= b1 + b2 /\ a1 \in Nat /\ b1 \in Nat /\ b2 \in Nat
    BY <1>3, <1>4, UnionSize
  <2>2. a2 <= a1 + b3 /\ a2 \in Nat /\ b3 \in Nat
    BY <1>12, <1>6, UnionSize
  <2>3. a3 <= a2 + b4 /\ a3 \in Nat /\ b4 \in Nat
    BY <1>12, <1>8, UnionSize
  <2>4. a4 <= a3 + b5 /\ a4 \in Nat /\ b5 \in Nat
    BY <1>12, <1>5, UnionSize
  <2>5. /\ a5 <= a4 + b6 /\ a5 \in Nat
        /\ IsFiniteSet(N \cup U \cup B \cup R \cup E \cup I)
    BY <1>12, <1>13, UnionSize
  <2> QED
    BY <2>1, <2>2, <2>3, <2>4, <2>5
<1>15. /\ b1 <= c1 /\ b2 <= c2 /\ b3 <= c3 /\ b4 <= c4 /\ b5 <= c5 /\ b7 <= c7
       /\ c1 \in Nat /\ c2 \in Nat /\ c3 \in Nat /\ c4 \in Nat /\ c5 \in Nat
       /\ b6 \in Nat /\ c7 \in Nat /\ b7 \in Nat
       /\ ReservedOpenCount(s) = c1 + c2 + c3 + c4 + (c5 + b6 + c7)
  BY <1>2, <1>3, <1>4, <1>5, <1>6, <1>8, <1>9, <1>10, <1>11
<1>16. /\ IsFiniteSet(Seats(s)) /\ Cardinality(Seats(s)) = a5
  BY <1>10, <1>14
<1> HIDE DEF a1, a2, a3, a4, a5, b1, b2, b3, b4, b5, b6, b7, c1, c2, c3, c4, c5, c7
<1>17. a5 + b7 <= ReservedOpenCount(s)
  BY <1>14, <1>15
<1>18. /\ Cardinality(Seats(s)) \in Nat /\ Cardinality(M) \in Nat
       /\ Cardinality(Seats(s)) + Cardinality(M) <= ReservedOpenCount(s)
  BY <1>14, <1>15, <1>16, <1>17 DEF b7
<1> QED
  BY <1>16, <1>18, CountsAreNat DEF M

\* Growth that stays below the maximum.
LEMMA ScheduleFits ==
    ASSUME NEW s, PoolType(s), NEW F, NEW g, NEW C, Fits(s, {}, F, g, C),
           NEW n \in Nat, n <= Monus(PoolMax, ReservedOpenCount(s))
    PROVE  Fits(ScheduleOpenEffects(s, n), {}, F, g, C)
<1> DEFINE s2 == ScheduleOpenEffects(s, n)
           f == [i \in 1..n |-> s.next_conn_id + i - 1]
           G == {f[i] : i \in 1..n}
           M == Promises(s.requests, g, C)
<1>1. PoolType(s2) /\ s \in PoolStates /\ s.open_effects \in Seq(ConnIds)
  BY ScheduleOpenEffectsType, Fields DEF PoolType
<1>2. /\ s2.open_effects = s.open_effects \o f
      /\ s2.requests = s.requests /\ s2.mode = s.mode /\ s2.in_flight = s.in_flight
      /\ s2.free_new = s.free_new /\ s2.free_used = s.free_used /\ s2.busy = s.busy
  BY <1>1 DEF ScheduleOpenEffects, PoolStates
<1>3. f \in Seq(Nat)
  <2>1. \A i \in 1..n : s.next_conn_id + i - 1 \in Nat
    BY IdNumbers DEF ConnIds
  <2> HIDE DEF f
  <2>2. f \in [1..n -> Nat]
    BY <2>1 DEF f
  <2> QED
    BY <2>2, FcnIsSeq
<1>4. Planned(s2) \subseteq Planned(s) \cup G
  <2>1. DOMAIN f = 1..n
    OBVIOUS
  <2>2. Len(f) = n
    BY <2>1, <1>3
  <2> HIDE DEF f, s2
  <2>3. s.open_effects \in Seq(Nat)
    BY <1>1 DEF ConnIds
  <2>4. \A i \in DOMAIN (s.open_effects \o f) :
           \/ i \in DOMAIN s.open_effects /\ (s.open_effects \o f)[i] = s.open_effects[i]
           \/ i - Len(s.open_effects) \in 1..n
                /\ (s.open_effects \o f)[i] = f[i - Len(s.open_effects)]
    BY <1>3, <2>2, <2>3
  <2> QED
    BY <1>2, <2>4 DEF Planned, ToSet
<1>5. IsFiniteSet(G) /\ Cardinality(G) <= n /\ Cardinality(G) \in Nat
  <2>1. \A y \in G : \E i \in 1..n : y = f[i]
    OBVIOUS
  <2> HIDE DEF G, f
  <2> QED
    BY <2>1, ListedSize, FS_CardinalityType
<1>6. /\ IsFiniteSet(Seats(s)) /\ Cardinality(Seats(s)) \in Nat /\ Cardinality(M) \in Nat
      /\ Cardinality(Seats(s)) + Cardinality(M) <= ReservedOpenCount(s)
      /\ ReservedOpenCount(s) \in Nat
      /\ Cardinality(Seats(s)) + Cardinality(M) <= PoolMax
  <2>1. Seats(s) \cup {} = Seats(s)
    OBVIOUS
  <2>2. Plain(s.requests, g, C) /\ Cardinality(Seats(s)) + Cardinality(M) <= PoolMax
    BY <2>1 DEF Fits, Room
  <2> QED
    BY <2>2, ReservedCovers
<1>7. Seats(s2) \subseteq Seats(s) \cup G
  <2> HIDE DEF G, s2
  <2> QED
    BY <1>2, <1>4 DEF Seats
<1> HIDE DEF s2, G, f, M
<1>8. IsFiniteSet(Seats(s) \cup G) /\ Cardinality(Seats(s) \cup G) <= Cardinality(Seats(s)) + n
      /\ Cardinality(Seats(s) \cup G) \in Nat
  <2>1. /\ IsFiniteSet(Seats(s) \cup G) /\ Cardinality(Seats(s) \cup G) \in Nat
        /\ Cardinality(Seats(s) \cup G) <= Cardinality(Seats(s)) + Cardinality(G)
    BY <1>5, <1>6, UnionSize
  <2> QED
    BY <2>1, <1>5, <1>6
<1>9. IsFiniteSet(Seats(s2)) /\ Cardinality(Seats(s2)) <= Cardinality(Seats(s)) + n
      /\ Cardinality(Seats(s2)) \in Nat
  <2>1. /\ IsFiniteSet(Seats(s2)) /\ Cardinality(Seats(s2)) <= Cardinality(Seats(s) \cup G)
        /\ Cardinality(Seats(s2)) \in Nat
    BY <1>7, <1>8, FS_Subset, FS_CardinalityType
  <2> QED
    BY <2>1, <1>6, <1>8
<1>10. Cardinality(Seats(s2)) + Cardinality(M) <= PoolMax
  BY <1>6, <1>9, SizeAssumption DEF Monus
<1>11. Room(s2, {}, g, C)
  <2>1. Seats(s2) \cup {} = Seats(s2)
    OBVIOUS
  <2> QED
    BY <2>1, <1>2, <1>9, <1>10 DEF Room, M
<1>12. Fits(s2, {}, F, g, C)
  BY <1>2, <1>11 DEF Fits
<1> QED
  BY <1>12 DEF s2

\* A list of idle connections, or the busy map, is replaced.
LEMMA FreeFits ==
    ASSUME NEW s, PoolType(s), NEW X, NEW F, NEW g, NEW C, Fits(s, X, F, g, C),
           NEW Y, Y \subseteq Seats(s) \cup X
    PROVE  /\ \A q \in Seq(PooledConn) : SeqIds(q) \subseteq Seats(s) \cup X =>
                /\ Fits([s EXCEPT !.free_new = q], Y, F, g, C)
                /\ Fits([s EXCEPT !.free_used = q], Y, F, g, C)
           /\ \A b \in SUBSET PooledConn : IsFiniteSet(b) /\ Ids(b) \subseteq Seats(s) \cup X =>
                Fits([s EXCEPT !.busy = b], Y, F, g, C)
<1>1. s \in PoolStates
  BY DEF PoolType
<1>2. ASSUME NEW q \in Seq(PooledConn), SeqIds(q) \subseteq Seats(s) \cup X
      PROVE  /\ Fits([s EXCEPT !.free_new = q], Y, F, g, C)
             /\ Fits([s EXCEPT !.free_used = q], Y, F, g, C)
  <2> DEFINE n == [s EXCEPT !.free_new = q]
             u == [s EXCEPT !.free_used = q]
  <2>1. PoolType(n) /\ PoolType(u)
    BY FreeListsType
  <2>2. /\ n.requests = s.requests /\ n.mode = s.mode /\ n.in_flight = s.in_flight
        /\ n.free_new = q /\ n.free_used = s.free_used /\ n.busy = s.busy
        /\ n.open_effects = s.open_effects
    BY <1>1 DEF PoolStates
  <2>3. /\ u.requests = s.requests /\ u.mode = s.mode /\ u.in_flight = s.in_flight
        /\ u.free_new = s.free_new /\ u.free_used = q /\ u.busy = s.busy
        /\ u.open_effects = s.open_effects
    BY <1>1 DEF PoolStates
  <2> HIDE DEF n, u
  <2>4. Seats(n) \cup Y \subseteq Seats(s) \cup X /\ Seats(u) \cup Y \subseteq Seats(s) \cup X
    BY <1>2, <2>2, <2>3 DEF Seats, Planned
  <2>5. Fits(n, Y, F, g, C) /\ Fits(u, Y, F, g, C)
    BY <2>1, <2>2, <2>3, <2>4, RequestsFit DEF Fits
  <2> QED
    BY <2>5 DEF n, u
<1>3. ASSUME NEW b \in SUBSET PooledConn, IsFiniteSet(b), Ids(b) \subseteq Seats(s) \cup X
      PROVE  Fits([s EXCEPT !.busy = b], Y, F, g, C)
  <2> DEFINE n == [s EXCEPT !.busy = b]
  <2>1. PoolType(n)
    BY <1>3, BusyType
  <2>2. /\ n.requests = s.requests /\ n.mode = s.mode /\ n.in_flight = s.in_flight
        /\ n.free_new = s.free_new /\ n.free_used = s.free_used /\ n.busy = b
        /\ n.open_effects = s.open_effects
    BY <1>1 DEF PoolStates
  <2> HIDE DEF n
  <2>4. Seats(n) \cup Y \subseteq Seats(s) \cup X
    BY <1>3, <2>2 DEF Seats, Planned
  <2>5. Fits(n, Y, F, g, C)
    BY <2>1, <2>2, <2>4, RequestsFit DEF Fits
  <2> QED
    BY <2>5 DEF n
<1> QED
  BY <1>2, <1>3

\* Fewer connections in hand.
LEMMA HandsFit ==
    ASSUME NEW s, PoolType(s), NEW X, NEW F, NEW g, NEW C, Fits(s, X, F, g, C),
           NEW Y, Y \subseteq Seats(s) \cup X
    PROVE  Fits(s, Y, F, g, C)
  BY RequestsFit DEF Fits

\* The ids of lists that shrink and grow.
LEMMA ListIds ==
    ASSUME NEW q \in Seq(PooledConn)
    PROVE  /\ \A c \in PooledConn : SeqIds(Append(q, c)) \subseteq SeqIds(q) \cup {c.id}
           /\ \A k \in DOMAIN q : SeqIds(RemoveAt(q, k)) \subseteq SeqIds(q) /\ q[k].id \in SeqIds(q)
           /\ q # <<>> => /\ SeqIds(Front(q)) \subseteq SeqIds(q) /\ Last(q).id \in SeqIds(q)
                          /\ SeqIds(Tail(q)) \subseteq SeqIds(q) /\ Head(q).id \in SeqIds(q)
<1>1. ASSUME NEW k, NEW q2, DrawnWithout(q2, q, k) PROVE SeqIds(q2) \subseteq SeqIds(q)
  BY <1>1 DEF DrawnWithout, SeqIds
<1>2. \A c \in PooledConn : SeqIds(Append(q, c)) \subseteq SeqIds(q) \cup {c.id}
  BY AppendProperties DEF SeqIds
<1>3. \A k \in DOMAIN q : SeqIds(RemoveAt(q, k)) \subseteq SeqIds(q) /\ q[k].id \in SeqIds(q)
  BY <1>1, RemoveAtDraws DEF SeqIds
<1>4. ASSUME q # <<>>
      PROVE  /\ SeqIds(Front(q)) \subseteq SeqIds(q) /\ Last(q).id \in SeqIds(q)
             /\ SeqIds(Tail(q)) \subseteq SeqIds(q) /\ Head(q).id \in SeqIds(q)
  <2>1. /\ Len(q) \in DOMAIN q /\ Last(q) = q[Len(q)] /\ DrawnWithout(Front(q), q, Len(q))
        /\ 1 \in DOMAIN q /\ Head(q) = q[1] /\ DrawnWithout(Tail(q), q, 1)
    BY <1>4, FrontDraws, TailDraws
  <2> QED
    BY <2>1, <1>1 DEF SeqIds
<1> QED
  BY <1>2, <1>3, <1>4

\* ensure_min_connections grows to min, which is at most max.
LEMMA EnsureMinFits ==
    ASSUME NEW s, PoolType(s), NEW F, NEW g, NEW C, Fits(s, {}, F, g, C)
    PROVE  Fits(EnsureMinConnections(s), {}, F, g, C)
<1> DEFINE n == Monus(PoolMin, ReservedOpenCount(s))
<1>1. n \in Nat /\ n <= Monus(PoolMax, ReservedOpenCount(s))
  BY CountsAreNat, SizeAssumption DEF Monus
<1>2. EnsureMinConnections(s) =
        IF s.open THEN NotifyBg(ScheduleOpenEffects(s, n)) ELSE s
  BY DEF EnsureMinConnections
<1> HIDE DEF n
<1>3. PoolType(ScheduleOpenEffects(s, n)) /\ Fits(ScheduleOpenEffects(s, n), {}, F, g, C)
  BY <1>1, ScheduleOpenEffectsType, ScheduleFits
<1>4. Fits(NotifyBg(ScheduleOpenEffects(s, n)), {}, F, g, C)
  BY <1>3, SignalsFit
<1> QED
  BY <1>2, <1>4

\* drop_conn frees the room of its connection.
LEMMA DropConnFits ==
    ASSUME NEW s, PoolType(s), NEW X, NEW F, NEW g, NEW C, Fits(s, X, F, g, C),
           NEW conn \in PooledConn
    PROVE  Fits(DropConn(s, conn), {}, F, g, C)
<1> DEFINE d == s.to_drop \cup {conn}
           s1 == [s EXCEPT !.to_drop = d]
<1>1. d \in SUBSET PooledConn
  BY Fields
<1> HIDE DEF d
<1>2. PoolType(s1)
  BY <1>1, ToDropType
<1>3. Fits(s1, {}, F, g, C)
  BY <1>1, HandsFit, SignalsFit
<1>4. DropConn(s, conn) = NotifyBg(EnsureMinConnections(s1))
  BY DEF DropConn, d
<1> HIDE DEF s1
<1>5. PoolType(EnsureMinConnections(s1)) /\ Fits(EnsureMinConnections(s1), {}, F, g, C)
  BY <1>2, <1>3, EnsureMinConnectionsType, EnsureMinFits
<1> QED
  BY <1>4, <1>5, SignalsFit

\* A request is changed; it may take a connection that was in hand.
LEMMA SetFits ==
    ASSUME NEW s, PoolType(s), NEW X, NEW F, NEW g, NEW C, Fits(s, X, F, g, C),
           NEW i \in DOMAIN s.requests, NEW r \in Request, NEW Y, NEW h, NEW D,
           r.task = s.requests[i].task, PlainReq(r, h, D),
           Awaits(r, h, D) => Awaits(s.requests[i], g, C),
           Ids(r.conn) \cup Y \subseteq Seats(s) \cup X,
           \A j \in DOMAIN s.requests \ {i} :
               /\ PlainReq(s.requests[j], h, D)
               /\ Awaits(s.requests[j], h, D) => Awaits(s.requests[j], g, C)
    PROVE  PoolType(SetRequest(s, i, r)) /\ Fits(SetRequest(s, i, r), Y, F, h, D)
<1> DEFINE s2 == SetRequest(s, i, r)
<1>1. s \in PoolStates /\ s.requests \in Seq(Request)
  BY Fields DEF PoolType
<1>2. /\ s2.requests = [s.requests EXCEPT ![i] = r]
      /\ s2.mode = s.mode /\ s2.in_flight = s.in_flight
      /\ s2.free_new = s.free_new /\ s2.free_used = s.free_used /\ s2.busy = s.busy
      /\ s2.open_effects = s.open_effects
  BY <1>1 DEF SetRequest, PoolStates
<1>3. PoolType(s2) /\ DOMAIN s2.requests = DOMAIN s.requests /\ s2.requests[i] = r
  BY SetRequestType
<1>4. \A j \in DOMAIN s.requests \ {i} : s2.requests[j] = s.requests[j]
  BY <1>1, <1>2
<1> HIDE DEF s2
<1>5. ReqIds(s2.requests) \subseteq ReqIds(s.requests) \cup Ids(r.conn)
  BY <1>3, <1>4 DEF ReqIds, Ids
<1>6. Seats(s2) \cup Y \subseteq Seats(s) \cup X
  BY <1>2, <1>5 DEF Seats, Planned
<1>7. \A j \in DOMAIN s2.requests :
         /\ PlainReq(s2.requests[j], h, D)
         /\ Awaits(s2.requests[j], h, D) =>
              /\ s.requests[j].task = s2.requests[j].task
              /\ Awaits(s.requests[j], g, C)
  BY <1>3, <1>4
<1>8. \A j \in DOMAIN s2.requests :
         /\ PlainReq(s2.requests[j], h, D)
         /\ Awaits(s2.requests[j], h, D) =>
              \E k \in DOMAIN s.requests : /\ s.requests[k].task = s2.requests[j].task
                                           /\ Awaits(s.requests[k], g, C)
  BY <1>3, <1>7
<1>9. s2.mode # "FORCEGET" /\ s2.in_flight = F
  BY <1>2 DEF Fits
<1>10. Fits(s2, Y, F, h, D)
  BY <1>3, <1>6, <1>8, <1>9, FitsKept
<1> QED
  BY <1>3, <1>10 DEF s2

\* The same while the reaper stays where it is.
LEMMA SetFitsHere ==
    ASSUME NEW s, PoolType(s), NEW X, NEW F, NEW g, NEW C, Fits(s, X, F, g, C),
           NEW i \in DOMAIN s.requests, NEW r \in Request, NEW Y,
           r.task = s.requests[i].task, PlainReq(r, g, C),
           Awaits(r, g, C) => Awaits(s.requests[i], g, C),
           Ids(r.conn) \cup Y \subseteq Seats(s) \cup X
    PROVE  PoolType(SetRequest(s, i, r)) /\ Fits(SetRequest(s, i, r), Y, F, g, C)
  BY SetFits DEF Fits, Plain

\* A request leaves the queue, and its connection is in hand.
LEMMA RemoveFits ==
    ASSUME NEW s, PoolType(s), NEW X, NEW F, NEW g, NEW C, Fits(s, X, F, g, C),
           NEW i \in DOMAIN s.requests
    PROVE  LET s2 == [s EXCEPT !.requests = RemoveAt(@, i)]
           IN  PoolType(s2) /\ Fits(s2, Ids(s.requests[i].conn), F, g, C)
<1> DEFINE s2 == [s EXCEPT !.requests = RemoveAt(@, i)]
           Y == Ids(s.requests[i].conn)
<1>1. s \in PoolStates /\ s.requests \in Seq(Request) /\ PoolType(s2)
  BY Fields, WithoutRequestType DEF PoolType
<1>2. /\ s2.requests = RemoveAt(s.requests, i)
      /\ s2.mode = s.mode /\ s2.in_flight = s.in_flight
      /\ s2.free_new = s.free_new /\ s2.free_used = s.free_used /\ s2.busy = s.busy
      /\ s2.open_effects = s.open_effects
  BY <1>1 DEF PoolStates
<1>3. DrawnWithout(s2.requests, s.requests, i)
  BY <1>1, <1>2, RemoveAtDraws
<1>4. \A j \in DOMAIN s2.requests : \E k \in DOMAIN s.requests : s2.requests[j] = s.requests[k]
  BY <1>3 DEF DrawnWithout
<1> HIDE DEF s2
<1>5. ReqIds(s2.requests) \cup Y \subseteq ReqIds(s.requests)
  BY <1>4 DEF ReqIds, Ids
<1> HIDE DEF Y
<1>6. Seats(s2) \cup Y \subseteq Seats(s) \cup X
  BY <1>2, <1>5 DEF Seats, Planned
<1>7. Fits(s2, Y, F, g, C)
  BY <1>1, <1>2, <1>4, <1>6, FitsKept DEF Fits, Plain
<1> QED
  BY <1>1, <1>7 DEF s2, Y

\* reject files the connection of a request that has left the queue.
LEMMA RejectFits ==
    ASSUME NEW s, PoolType(s), NEW F, NEW g, NEW C, NEW r \in Request,
           Fits(s, Ids(r.conn), F, g, C)
    PROVE  Fits(Reject(s, r), {}, F, g, C)
<1>1. CASE r.conn = {}
  BY <1>1, HandsFit DEF Reject
<1>2. CASE r.conn # {}
  <2> DEFINE conn == CHOOSE c \in r.conn : TRUE
             d == [s EXCEPT !.to_drop = s.to_drop \cup {NotExtra(conn)}]
             n == [s EXCEPT !.free_new = Append(s.free_new, conn)]
             u == [s EXCEPT !.free_used = Append(s.free_used, conn)]
  <2>1. conn \in r.conn /\ conn \in PooledConn /\ r.conn = {conn}
    BY <1>2, RequestFields, OptionIsFinite
  <2> HIDE DEF conn
  <2>2. Ids(r.conn) = {conn.id}
    BY <2>1 DEF Ids
  <2>3. Fits(s, {}, F, g, C)
    BY HandsFit
  <2>4. PoolType(d) /\ Fits(d, {}, F, g, C)
    <3>1. s.to_drop \cup {NotExtra(conn)} \in SUBSET PooledConn
      BY <2>1, NotExtraType, Fields
    <3> QED
      BY <3>1, <2>3, ToDropType, SignalsFit
  <2>5. PoolType(n) /\ Fits(n, {}, F, g, C) /\ PoolType(u) /\ Fits(u, {}, F, g, C)
    <3>1. /\ Append(s.free_new, conn) \in Seq(PooledConn)
          /\ Append(s.free_used, conn) \in Seq(PooledConn)
      BY <2>1, Fields, AppendProperties
    <3>2. /\ SeqIds(Append(s.free_new, conn)) \subseteq SeqIds(s.free_new) \cup {conn.id}
          /\ SeqIds(Append(s.free_used, conn)) \subseteq SeqIds(s.free_used) \cup {conn.id}
      BY <2>1, Fields, ListIds
    <3>3. /\ SeqIds(Append(s.free_new, conn)) \subseteq Seats(s) \cup Ids(r.conn)
          /\ SeqIds(Append(s.free_used, conn)) \subseteq Seats(s) \cup Ids(r.conn)
      BY <3>2, <2>2 DEF Seats
    <3> QED
      BY <3>1, <3>3, FreeFits, FreeListsType
  <2>6. Reject(s, r) = WakeWaiters(
            CASE ~s.open \/ conn.is_pool_extra -> NotifyBg(d)
              [] s.open /\ ~conn.is_pool_extra /\ ~conn.ever_acquired -> n
              [] OTHER -> u)
    BY <1>2 DEF Reject, conn
  <2> HIDE DEF d, n, u
  <2>7. PoolType(NotifyBg(d)) /\ Fits(NotifyBg(d), {}, F, g, C)
    BY <2>4, NotifyBgType, SignalsFit
  <2>8. ASSUME NEW v, PoolType(v), Fits(v, {}, F, g, C)
        PROVE  Fits(WakeWaiters(v), {}, F, g, C)
    BY <2>8, SignalsFit
  <2> QED
    BY <2>5, <2>6, <2>7, <2>8
<1> QED
  BY <1>1, <1>2

\* Both together.
LEMMA RemoveAndRejectFits ==
    ASSUME NEW s, PoolType(s), NEW F, NEW g, NEW C, Fits(s, {}, F, g, C),
           NEW i \in DOMAIN s.requests, NEW r \in Request, r.conn = s.requests[i].conn
    PROVE  Fits(Reject([s EXCEPT !.requests = RemoveAt(@, i)], r), {}, F, g, C)
<1> DEFINE s1 == [s EXCEPT !.requests = RemoveAt(@, i)]
<1>1. PoolType(s1) /\ Fits(s1, Ids(r.conn), F, g, C)
  BY RemoveFits
<1> HIDE DEF s1
<1>2. Fits(Reject(s1, r), {}, F, g, C)
  BY <1>1, RejectFits
<1> QED
  BY <1>2 DEF s1

\* abandon_request marks a request the reaper has and removes any other.
LEMMA AbandonFits ==
    ASSUME NEW s, PoolType(s), NEW F, NEW g, NEW C, Fits(s, {}, F, g, C), NEW t
    PROVE  Fits(AbandonRequest(s, t), {}, F, g, C)
<1> DEFINE i == RequestPosition(s, t)
           p == s.requests[i]
           r == [p EXCEPT !.waiting = FALSE]
<1>1. CASE ~HasRequest(s, t)
  BY <1>1 DEF AbandonRequest
<1>2. CASE HasRequest(s, t)
  <2>1. i \in DOMAIN s.requests /\ p \in Request /\ p = s.requests[i]
    BY <1>2, PositionIn, RequestIn
  <2>2. PlainReq(p, g, C)
    BY <2>1 DEF Fits, Plain
  <2>3. AbandonRequest(s, t) =
          IF p.bg_processing THEN SetRequest(s, i, r)
          ELSE Reject([s EXCEPT !.requests = RemoveAt(@, i)], p)
    BY <1>2 DEF AbandonRequest
  <2> HIDE DEF i, p
  <2>4. /\ r \in Request /\ r.conn = p.conn /\ r.task = p.task /\ r.error = p.error
        /\ r.completed = p.completed /\ r.bg_processing = p.bg_processing /\ ~r.waiting
        /\ r.is_replacing = p.is_replacing /\ r.requires_ping = p.requires_ping
        /\ r.is_extra = p.is_extra
    BY <2>1 DEF Request
  <2> HIDE DEF r
  <2>5. PlainReq(r, g, C) /\ (Awaits(r, g, C) => Awaits(p, g, C))
    BY <2>2, <2>4 DEF PlainReq, Awaits
  <2>6. Ids(r.conn) \subseteq Seats(s)
    BY <2>1, <2>4 DEF Seats, ReqIds, Ids
  <2>7. Fits(SetRequest(s, i, r), {}, F, g, C)
    BY <2>1, <2>4, <2>5, <2>6, SetFitsHere
  <2>8. Fits(Reject([s EXCEPT !.requests = RemoveAt(@, i)], p), {}, F, g, C)
    BY <2>1, RemoveAndRejectFits
  <2> QED
    BY <2>3, <2>7, <2>8
<1> QED
  BY <1>1, <1>2

\* enqueue_request asks for nothing yet.
LEMMA EnqueueFits ==
    ASSUME NEW s, PoolType(s), NEW X, NEW F, NEW g, NEW C, Fits(s, X, F, g, C),
           NEW t \in Tasks, t \notin C, NEW cclass \in Classes, NEW wantsNew \in BOOLEAN
    PROVE  Fits(EnqueueRequest(s, t, cclass, wantsNew), X, F, g, C)
<1> DEFINE s2 == EnqueueRequest(s, t, cclass, wantsNew)
           r == [task |-> t, cclass |-> cclass, wants_new |-> wantsNew,
                 requires_ping |-> FALSE, bg_processing |-> FALSE,
                 is_extra |-> FALSE, is_replacing |-> FALSE, in_progress |-> FALSE,
                 completed |-> FALSE, waiting |-> TRUE, conn |-> {},
                 error |-> FALSE]
<1>1. s \in PoolStates /\ s.requests \in Seq(Request) /\ PoolType(s2)
  BY Fields, EnqueueRequestType DEF PoolType
<1>2. /\ s2.requests = Append(s.requests, r)
      /\ s2.mode = s.mode /\ s2.in_flight = s.in_flight
      /\ s2.free_new = s.free_new /\ s2.free_used = s.free_used /\ s2.busy = s.busy
      /\ s2.open_effects = s.open_effects
  BY <1>1 DEF EnqueueRequest, PoolStates
<1>3. /\ r.task = t /\ ~r.requires_ping /\ ~r.is_extra /\ ~r.is_replacing /\ r.conn = {} /\ ~r.bg_processing
  OBVIOUS
<1>4. r \in Request
  <2>1. {} \in Option(PooledConn)
    BY DEF Option
  <2> QED
    BY <2>1 DEF Request
<1> HIDE DEF r, s2
<1>5. \A i \in DOMAIN s2.requests :
         s2.requests[i] = r \/ \E j \in DOMAIN s.requests : s2.requests[i] = s.requests[j]
  BY <1>1, <1>2, <1>4, AppendProperties
<1>6. ReqIds(s2.requests) \subseteq ReqIds(s.requests)
  BY <1>3, <1>5 DEF ReqIds
<1>7. Seats(s2) \cup X \subseteq Seats(s) \cup X
  BY <1>2, <1>6 DEF Seats, Planned
<1>8. PlainReq(r, g, C) /\ ~Awaits(r, g, C)
  BY <1>3 DEF PlainReq, Awaits
<1>9. s2.mode # "FORCEGET" /\ s2.in_flight = F /\ Plain(s.requests, g, C)
  BY <1>2 DEF Fits
<1>10. Fits(s2, X, F, g, C)
  BY <1>1, <1>5, <1>7, <1>8, <1>9, FitsKept DEF Plain
<1> QED
  BY <1>10 DEF s2

\* A candidate is taken out of its list.
LEMMA WithoutCandidateFits ==
    ASSUME NEW s, PoolType(s), NEW F, NEW g, NEW C, Fits(s, {}, F, g, C),
           NEW i \in DOMAIN s.requests, HasCandidate(s, i)
    PROVE  Fits(WithoutCandidate(s, i), {Candidate(s, i).id}, F, g, C)
<1>1. s.free_used \in Seq(PooledConn) /\ s.free_new \in Seq(PooledConn)
  BY Fields
<1>2. CASE UsedCandidates(s, i) # {}
  <2> DEFINE k == Max(UsedCandidates(s, i))
             q == RemoveAt(s.free_used, k)
             Y == {s.free_used[k].id}
  <2>1. UsedCandidates(s, i) \in SUBSET (1..Len(s.free_used))
    BY <1>1 DEF UsedCandidates
  <2>2. k \in DOMAIN s.free_used
    BY <1>1, <1>2, <2>1, MaxIn, LenProperties
  <2>3. Candidate(s, i) = s.free_used[k] /\ WithoutCandidate(s, i) = [s EXCEPT !.free_used = q]
    BY <1>2 DEF Candidate, WithoutCandidate
  <2> HIDE DEF k
  <2>4. q \in Seq(PooledConn) /\ SeqIds(q) \subseteq SeqIds(s.free_used) /\ Y \subseteq SeqIds(s.free_used)
    BY <1>1, <2>2, RemoveAtIn, ListIds
  <2> HIDE DEF q, Y
  <2>5. SeqIds(q) \subseteq Seats(s) \cup {} /\ Y \subseteq Seats(s) \cup {}
    BY <2>4 DEF Seats
  <2>6. Fits([s EXCEPT !.free_used = q], Y, F, g, C)
    BY <2>4, <2>5, FreeFits
  <2> QED
    BY <2>3, <2>6 DEF Y
<1>3. CASE UsedCandidates(s, i) = {}
  <2> DEFINE q == Front(s.free_new)
             Y == {Last(s.free_new).id}
  <2>1. s.free_new # <<>>
    BY <1>3 DEF HasCandidate, NewCandidates
  <2>2. Candidate(s, i) = Last(s.free_new) /\ WithoutCandidate(s, i) = [s EXCEPT !.free_new = q]
    BY <1>3 DEF Candidate, WithoutCandidate
  <2>3. q \in Seq(PooledConn) /\ SeqIds(q) \subseteq SeqIds(s.free_new) /\ Y \subseteq SeqIds(s.free_new)
    BY <1>1, <2>1, FrontLastIn, ListIds
  <2> HIDE DEF q, Y
  <2>4. SeqIds(q) \subseteq Seats(s) \cup {} /\ Y \subseteq Seats(s) \cup {}
    BY <2>3 DEF Seats
  <2>5. Fits([s EXCEPT !.free_new = q], Y, F, g, C)
    BY <2>3, <2>4, FreeFits
  <2> QED
    BY <2>2, <2>5 DEF Y
<1> QED
  BY <1>2, <1>3

\* An unfit candidate gives its room up, a fit one goes to the request.
LEMMA CheckFits ==
    ASSUME NEW s, PoolType(s), NEW F, NEW g, NEW C, Fits(s, {}, F, g, C),
           NEW i \in DOMAIN s.requests, HasCandidate(s, i), s.requests[i].task \notin C
    PROVE  Fits(CheckUnfit(s, i), {}, F, g, C) /\ Fits(CheckFit(s, i), {}, F, g, C)
<1> DEFINE w == WithoutCandidate(s, i)
           conn == Candidate(s, i)
           p == s.requests[i]
           fit == [p EXCEPT !.conn = {conn}, !.completed = TRUE]
<1>0. p \in Request /\ p = s.requests[i] /\ PlainReq(p, g, C)
  BY RequestIn DEF Fits, Plain
<1>1. conn \in PooledConn /\ PoolType(w) /\ w.requests = s.requests /\ Fits(w, {conn.id}, F, g, C)
  BY CandidateType, WithoutCandidateFits
<1>2. CheckUnfit(s, i) = DropConn(w, conn) /\ CheckFit(s, i) = SetRequest(w, i, fit)
  BY DEF CheckUnfit, CheckFit
<1> HIDE DEF w, conn, p
<1>3. Fits(DropConn(w, conn), {}, F, g, C)
  BY <1>1, DropConnFits
<1>4. {conn} \in Option(PooledConn)
  BY <1>1, OptionSome
<1>5. /\ fit \in Request /\ fit.conn = {conn} /\ fit.completed /\ fit.task = p.task
      /\ fit.requires_ping = p.requires_ping /\ fit.is_extra = p.is_extra
      /\ fit.bg_processing = p.bg_processing /\ fit.error = p.error
  BY <1>0, <1>4 DEF Request
<1> HIDE DEF fit
<1>6. PlainReq(fit, g, C) /\ ~Awaits(fit, g, C)
  BY <1>0, <1>5 DEF PlainReq, Awaits
<1>7. Ids(fit.conn) = {conn.id}
  BY <1>5 DEF Ids
<1>8. Fits(SetRequest(w, i, fit), {}, F, g, C)
  <2>1. i \in DOMAIN w.requests /\ fit.task = w.requests[i].task
    BY <1>0, <1>1, <1>5
  <2>2. Ids(fit.conn) \cup {} \subseteq Seats(w) \cup {conn.id}
    BY <1>7
  <2> QED
    BY <1>1, <1>5, <1>6, <2>1, <2>2, SetFitsHere
<1> QED
  BY <1>2, <1>3, <1>8

\* finish_completed_request moves the connection of a request to busy.
LEMMA FinishFits ==
    ASSUME NEW s, PoolType(s), NEW F, NEW g, NEW C, Fits(s, {}, F, g, C),
           NEW i \in DOMAIN s.requests
    PROVE  Fits(FinishCompletedRequest(s, i), {}, F, g, C)
<1> DEFINE w == [s EXCEPT !.requests = RemoveAt(@, i)]
           conn == s.requests[i].conn
           taken == {[c EXCEPT !.ever_acquired = TRUE] : c \in conn}
           s2 == FinishCompletedRequest(s, i)
<1>1. PoolType(w) /\ Fits(w, Ids(conn), F, g, C) /\ PoolType(s2)
  BY RemoveFits, FinishCompletedRequestType
<1>2. s2 = [w EXCEPT !.busy = w.busy \cup taken] /\ s2.busy = w.busy \cup taken
  BY DEF FinishCompletedRequest, PoolType, PoolStates
<1>3. conn \subseteq PooledConn
  BY RequestIn, RequestFields, OptionIsFinite
<1>4. Ids(taken) \subseteq Ids(conn)
  <2>1. \A c \in conn : [c EXCEPT !.ever_acquired = TRUE].id = c.id
    BY <1>3 DEF PooledConn
  <2> HIDE DEF conn
  <2>2. \A d \in taken : \E c \in conn : d.id = c.id
    BY <2>1
  <2> HIDE DEF taken
  <2> QED
    BY <2>2 DEF Ids
<1>5. s2.busy \in SUBSET PooledConn /\ IsFiniteSet(s2.busy)
  BY <1>1, Fields
<1> HIDE DEF w, conn, taken, s2
<1>6. Ids(s2.busy) \subseteq Seats(w) \cup Ids(conn)
  BY <1>2, <1>4, UnionIds DEF Seats
<1>7. Fits([w EXCEPT !.busy = s2.busy], {}, F, g, C)
  BY <1>1, <1>5, <1>6, FreeFits
<1>8. Fits(s2, {}, F, g, C)
  BY <1>2, <1>7
<1> QED
  BY <1>8 DEF s2

\* A seat is exchanged for a promise.
LEMMA ReplaceFits ==
    ASSUME NEW s, PoolType(s), NEW F, NEW g, NEW C, Fits(s, {}, F, g, C),
           NEW i \in DOMAIN s.requests, NEW r \in Request, PlainReq(r, g, C),
           r.task = s.requests[i].task, NEW s2, PoolType(s2),
           s2.requests = [s.requests EXCEPT ![i] = r],
           s2.mode = s.mode, s2.in_flight = s.in_flight,
           NEW x \in Seats(s), Seats(s2) \subseteq Seats(s) \ {x}
    PROVE  Fits(s2, {}, F, g, C)
<1> DEFINE A == Seats(s)
           B == Seats(s2)
           M == Promises(s.requests, g, C)
           N == Promises(s2.requests, g, C)
           t == r.task
<1>1. s.requests \in Seq(Request) /\ s2.requests \in Seq(Request)
  BY Fields
<1>2. /\ DOMAIN s2.requests = DOMAIN s.requests /\ s2.requests[i] = r
      /\ \A j \in DOMAIN s.requests \ {i} : s2.requests[j] = s.requests[j]
  BY <1>1
<1>3. N \subseteq M \cup {t}
  BY <1>2 DEF Promises
<1>4. Plain(s2.requests, g, C)
  BY <1>2 DEF Fits, Plain
<1>5. IsFiniteSet(A) /\ IsFiniteSet(M) /\ Cardinality(A) + Cardinality(M) <= PoolMax
  <2>1. Seats(s) \cup {} = Seats(s)
    OBVIOUS
  <2> QED
    BY <1>1, <2>1, PromisesFinite DEF Fits, Room
<1> HIDE DEF A, B, M, N, t
<1>6. B \subseteq A \ {x} /\ x \in A
  BY DEF A, B
<1>7. /\ IsFiniteSet(A \ {x}) /\ Cardinality(A \ {x}) = Cardinality(A) - 1
      /\ Cardinality(A) \in Nat
  BY <1>5, <1>6, FS_RemoveElement, FS_CardinalityType
<1>8. /\ IsFiniteSet(B) /\ Cardinality(B) <= Cardinality(A) - 1 /\ Cardinality(B) \in Nat
  BY <1>6, <1>7, FS_Subset, FS_CardinalityType
<1>9. /\ Cardinality(N) <= Cardinality(M) + 1 /\ Cardinality(N) \in Nat /\ Cardinality(M) \in Nat
  <2>1. IsFiniteSet({t}) /\ Cardinality({t}) = 1
    BY FS_Singleton
  <2>2. /\ IsFiniteSet(M \cup {t}) /\ Cardinality(M \cup {t}) <= Cardinality(M) + Cardinality({t})
        /\ Cardinality(M) \in Nat /\ Cardinality(M \cup {t}) \in Nat
    BY <1>5, <2>1, UnionSize
  <2>3. IsFiniteSet(N) /\ Cardinality(N) <= Cardinality(M \cup {t}) /\ Cardinality(N) \in Nat
    BY <1>3, <2>2, FS_Subset, FS_CardinalityType
  <2> QED
    BY <2>1, <2>2, <2>3
<1>10. Cardinality(B) + Cardinality(N) <= PoolMax
  BY <1>5, <1>7, <1>8, <1>9, SizeAssumption
<1>11. Room(s2, {}, g, C)
  <2>1. B \cup {} = B
    OBVIOUS
  <2> QED
    BY <2>1, <1>8, <1>10 DEF Room, B, N
<1> QED
  BY <1>4, <1>11 DEF Fits

\* A request that is queued for the reaper without a claim.
LEMMA AddForBgFits ==
    ASSUME NEW s, PoolType(s), NEW F, NEW g, NEW C, Fits(s, {}, F, g, C),
           NEW i \in DOMAIN s.requests, s.requests[i].task \notin C,
           ~s.requests[i].is_replacing, ~s.requests[i].error
    PROVE  Fits(AddRequestForBg(s, i), {}, F, g, C)
<1> DEFINE p == s.requests[i]
           r == [p EXCEPT !.bg_processing = TRUE, !.completed = FALSE]
           s1 == SetRequest(s, i, r)
<1>0. p \in Request /\ p = s.requests[i] /\ PlainReq(p, g, C)
  BY RequestIn DEF Fits, Plain
<1> HIDE DEF p
<1>1. /\ r \in Request /\ r.conn = p.conn /\ r.task = p.task /\ r.requires_ping = p.requires_ping
      /\ r.is_extra = p.is_extra /\ r.is_replacing = p.is_replacing /\ r.error = p.error
  BY <1>0 DEF Request
<1> HIDE DEF r
<1>2. PlainReq(r, g, C) /\ ~Awaits(r, g, C)
  BY <1>0, <1>1 DEF PlainReq, Awaits
<1>3. Ids(r.conn) \cup {} \subseteq Seats(s) \cup {}
  BY <1>0, <1>1 DEF Seats, ReqIds, Ids
<1>4. PoolType(s1) /\ Fits(s1, {}, F, g, C)
  BY <1>0, <1>1, <1>2, <1>3, SetFitsHere
<1> HIDE DEF s1
<1>5. Fits(NotifyBg(s1), {}, F, g, C)
  BY <1>4, SignalsFit
<1> QED
  BY <1>5 DEF AddRequestForBg, r, s1, p

\* An idle connection gives way to the one a request is to get.
LEMMA GiveWayFits ==
    ASSUME NEW s, PoolType(s), Tidy(s), NEW F, NEW g, NEW C, Fits(s, {}, F, g, C),
           F \cap Placed(s) = {}, NEW i \in DOMAIN s.requests, NEW r \in Request,
           PlainReq(r, g, C), r.task = s.requests[i].task, r.conn = {},
           NEW s2, PoolType(s2), s2.requests = [s.requests EXCEPT ![i] = r],
           s2.mode = s.mode, s2.in_flight = s.in_flight, s2.busy = s.busy,
           s2.open_effects = s.open_effects,
           \/ /\ s.free_new # <<>> /\ s2.free_new = Front(s.free_new)
              /\ s2.free_used = s.free_used
           \/ /\ s.free_used # <<>> /\ s2.free_used = Front(s.free_used)
              /\ s2.free_new = s.free_new
    PROVE  Fits(s2, {}, F, g, C)
<1>1. /\ s.free_new \in Seq(PooledConn) /\ s.free_used \in Seq(PooledConn)
      /\ s.requests \in Seq(Request)
  BY Fields
<1>2. ReqIds(s2.requests) \subseteq ReqIds(s.requests)
  <2>1. /\ DOMAIN s2.requests = DOMAIN s.requests /\ s2.requests[i] = r
        /\ \A j \in DOMAIN s.requests \ {i} : s2.requests[j] = s.requests[j]
    BY <1>1
  <2> QED
    BY <2>1 DEF ReqIds
<1>3. F = s.in_flight
  BY DEF Fits
<1>4. CASE s.free_new # <<>> /\ s2.free_new = Front(s.free_new) /\ s2.free_used = s.free_used
  <2> DEFINE q == Front(s.free_new)
             k == Len(s.free_new)
             x == s.free_new[k].id
             w == [s EXCEPT !.free_new = q]
  <2>1. k \in DOMAIN s.free_new /\ DrawnWithout(q, s.free_new, k)
    BY <1>1, <1>4, FrontDraws
  <2>2. w.free_new = q /\ w.free_used = s.free_used /\ w.busy = s.busy /\ w.requests = s.requests
        /\ w.open_effects = s.open_effects /\ w.to_drop = s.to_drop
    BY DEF PoolType, PoolStates
  <2>3. x \in Placed(s) /\ Lacks(w, x) /\ x \in SeqIds(s.free_new)
    BY <2>1, TakeNew DEF SeqIds
  <2>4. s2.free_new = q
    BY <1>4
  <2> HIDE DEF q, k, x, w
  <2>5. SeqIds(q) \subseteq SeqIds(s.free_new)
    BY <2>1 DEF DrawnWithout, SeqIds
  <2>6. x \in Seats(s) /\ Seats(s2) \subseteq Seats(s)
    BY <1>2, <1>4, <2>3, <2>4, <2>5 DEF Seats, Planned
  <2>7. x \notin Seats(s2)
    <3>1. /\ x \notin SeqIds(q) /\ x \notin SeqIds(s.free_used) /\ x \notin Ids(s.busy)
          /\ x \notin ReqIds(s.requests) /\ x \notin Planned(s)
      BY <2>2, <2>3 DEF Lacks, Placed, Planned
    <3>2. x \notin s.in_flight
      BY <1>3, <2>3
    <3> QED
      BY <1>2, <1>4, <2>4, <3>1, <3>2 DEF Seats, Planned
  <2> QED
    BY <2>6, <2>7, ReplaceFits
<1>5. CASE s.free_used # <<>> /\ s2.free_used = Front(s.free_used) /\ s2.free_new = s.free_new
  <2> DEFINE q == Front(s.free_used)
             k == Len(s.free_used)
             x == s.free_used[k].id
             w == [s EXCEPT !.free_used = q]
  <2>1. k \in DOMAIN s.free_used /\ DrawnWithout(q, s.free_used, k)
    BY <1>1, <1>5, FrontDraws
  <2>2. w.free_used = q /\ w.free_new = s.free_new /\ w.busy = s.busy /\ w.requests = s.requests
        /\ w.open_effects = s.open_effects /\ w.to_drop = s.to_drop
    BY DEF PoolType, PoolStates
  <2>3. x \in Placed(s) /\ Lacks(w, x) /\ x \in SeqIds(s.free_used)
    BY <2>1, TakeUsed DEF SeqIds
  <2>4. s2.free_used = q
    BY <1>5
  <2> HIDE DEF q, k, x, w
  <2>5. SeqIds(q) \subseteq SeqIds(s.free_used)
    BY <2>1 DEF DrawnWithout, SeqIds
  <2>6. x \in Seats(s) /\ Seats(s2) \subseteq Seats(s)
    BY <1>2, <1>5, <2>3, <2>4, <2>5 DEF Seats, Planned
  <2>7. x \notin Seats(s2)
    <3>1. /\ x \notin SeqIds(q) /\ x \notin SeqIds(s.free_new) /\ x \notin Ids(s.busy)
          /\ x \notin ReqIds(s.requests) /\ x \notin Planned(s)
      BY <2>2, <2>3 DEF Lacks, Placed, Planned
    <3>2. x \notin s.in_flight
      BY <1>3, <2>3
    <3> QED
      BY <1>2, <1>5, <2>4, <3>1, <3>2 DEF Seats, Planned
  <2> QED
    BY <2>6, <2>7, ReplaceFits
<1> QED
  BY <1>4, <1>5

\* Growth for a request stays below the maximum.
LEMMA GrowthIsBounded ==
    ASSUME NEW s, PoolType(s), NEW i \in DOMAIN s.requests
    PROVE  GrowthFor(s, i) \in Nat /\ GrowthFor(s, i) <= Monus(PoolMax, ReservedOpenCount(s))
<1> DEFINE m == Monus(PoolMax, ReservedOpenCount(s))
<1>1. m \in Nat
  BY CountsAreNat, SizeAssumption DEF Monus
<1>2. GrowthFor(s, i) \in Nat
  BY GrowthIsNat
<1>3. \E d : GrowthFor(s, i) = Least(d, m)
  BY DEF GrowthFor
<1> HIDE DEF m
<1>4. PICK d : GrowthFor(s, i) = IF d < m THEN d ELSE m
  BY <1>3 DEF Least
<1>5. GrowthFor(s, i) = m \/ GrowthFor(s, i) < m
  BY <1>4
<1> QED
  BY <1>1, <1>2, <1>5 DEF m

\* fulfill without a candidate: the claim of the request replaces a connection
\* that gives way, or there is room for what is scheduled.
LEMMA QueueForBgFits ==
    ASSUME NEW s, PoolType(s), Tidy(s), NEW F, NEW g, NEW C, Fits(s, {}, F, g, C),
           F \cap Placed(s) = {}, NEW i \in DOMAIN s.requests, s.requests[i].task \notin C,
           s.requests[i].conn = {}, ~s.requests[i].is_replacing, ~s.requests[i].error
    PROVE  Fits(QueueForBg(s, i), {}, F, g, C)
<1> DEFINE o == s.requests[i]
           r == [o EXCEPT !.requires_ping = FALSE]
           r1 == [r EXCEPT !.is_replacing = TRUE]
           r2 == [r1 EXCEPT !.bg_processing = TRUE, !.completed = FALSE]
           s0 == SetRequest(s, i, r)
           rep == SetRequest(s, i, r1)
           ext == SetRequest(s, i, [r EXCEPT !.is_extra = TRUE])
           vnew == [rep EXCEPT !.to_drop = @ \cup {Last(s0.free_new)},
                               !.free_new = Front(@)]
           vused == [rep EXCEPT !.to_drop = @ \cup {Last(s0.free_used)},
                                !.free_used = Front(@)]
           n == GrowthFor(s0, i)
           grow == ScheduleOpenEffects(s0, n)
<1>0. o \in Request /\ o = s.requests[i] /\ PlainReq(o, g, C)
  BY RequestIn DEF Fits, Plain
<1>1. s \in PoolStates /\ s.requests \in Seq(Request)
  BY Fields DEF PoolType
<1>2. QueueForBg(s, i) = AddRequestForBg(
         CASE AtCapacity(s0) /\ s0.free_new # <<>> -> vnew
           [] AtCapacity(s0) /\ s0.free_new = <<>> /\ s0.free_used # <<>> -> vused
           [] AtCapacity(s0) /\ NothingFree(s0) /\ s0.mode = "FORCEGET" -> ext
           [] ~AtCapacity(s0) /\ CclassMatches(s0.requests[i]) -> grow
           [] OTHER -> s0, i)
  BY DEF QueueForBg
<1> HIDE DEF o
<1>3. /\ r \in Request /\ r.conn = o.conn /\ r.task = o.task /\ ~r.requires_ping
      /\ r.is_extra = o.is_extra /\ r.is_replacing = o.is_replacing
      /\ r.bg_processing = o.bg_processing /\ r.completed = o.completed /\ r.error = o.error
  BY <1>0 DEF Request
<1> HIDE DEF r
<1>4. /\ r1 \in Request /\ r1.conn = r.conn /\ r1.task = r.task /\ ~r1.requires_ping
      /\ r1.is_extra = r.is_extra /\ r1.error = r.error
  BY <1>3 DEF Request
<1> HIDE DEF r1
<1>5. /\ r2 \in Request /\ r2.conn = r1.conn /\ r2.task = r1.task /\ ~r2.requires_ping
      /\ r2.is_extra = r1.is_extra /\ r2.bg_processing /\ r2.error = r1.error
  BY <1>4 DEF Request
<1> HIDE DEF r2
<1>6. /\ PlainReq(r, g, C) /\ ~Awaits(r, g, C) /\ PlainReq(r2, g, C)
      /\ r2.conn = {} /\ r2.task = s.requests[i].task
  BY <1>0, <1>3, <1>4, <1>5 DEF PlainReq, Awaits
<1>7. PoolType(s0) /\ Fits(s0, {}, F, g, C) /\ s0.requests[i] = r /\ i \in DOMAIN s0.requests
  <2>1. Ids(r.conn) \cup {} \subseteq Seats(s) \cup {}
    BY <1>0, <1>3 DEF Ids
  <2>2. PoolType(s0) /\ Fits(s0, {}, F, g, C)
    BY <1>0, <1>3, <1>6, <2>1, SetFitsHere
  <2> QED
    BY <1>3, <2>2, SetRequestType
<1>8. /\ s0.free_new = s.free_new /\ s0.free_used = s.free_used /\ s0.mode = s.mode
      /\ rep.requests = [s.requests EXCEPT ![i] = r1] /\ PoolType(rep)
      /\ rep.free_new = s.free_new /\ rep.free_used = s.free_used /\ rep.mode = s.mode
      /\ rep.busy = s.busy /\ rep.in_flight = s.in_flight /\ rep.open_effects = s.open_effects
  BY <1>1, <1>4, SetRequestType DEF SetRequest, PoolStates
<1> HIDE DEF s0, rep
<1>9. ASSUME NEW v, PoolType(v), v.requests = rep.requests
      PROVE  /\ PoolType(AddRequestForBg(v, i))
             /\ AddRequestForBg(v, i).requests = [s.requests EXCEPT ![i] = r2]
             /\ AddRequestForBg(v, i).mode = v.mode /\ AddRequestForBg(v, i).busy = v.busy
             /\ AddRequestForBg(v, i).in_flight = v.in_flight
             /\ AddRequestForBg(v, i).open_effects = v.open_effects
             /\ AddRequestForBg(v, i).free_new = v.free_new
             /\ AddRequestForBg(v, i).free_used = v.free_used
  <2>1. v \in PoolStates /\ v.requests = [s.requests EXCEPT ![i] = r1] /\ i \in DOMAIN v.requests
    BY <1>1, <1>8, <1>9 DEF PoolType
  <2>2. v.requests[i] = r1
    BY <1>1, <2>1
  <2>3. AddRequestForBg(v, i) = [[v EXCEPT !.requests[i] = r2] EXCEPT !.bg = TRUE]
    BY <2>2 DEF AddRequestForBg, NotifyBg, SetRequest, r2
  <2>4. [v.requests EXCEPT ![i] = r2] = [s.requests EXCEPT ![i] = r2]
    BY <1>1, <2>1
  <2>5. PoolType(AddRequestForBg(v, i))
    BY <1>9, <2>1, AddRequestForBgType
  <2> QED
    BY <2>1, <2>3, <2>4, <2>5 DEF PoolStates
<1>10. ASSUME s0.free_new # <<>> PROVE Fits(AddRequestForBg(vnew, i), {}, F, g, C)
  <2>1. PoolType(vnew)
    <3>1. Last(s.free_new) \in PooledConn /\ Front(s.free_new) \in Seq(PooledConn)
      BY <1>8, <1>10, FrontLastIn, Fields
    <3> QED
      BY <1>8, <3>1 DEF PoolType, PoolStates
  <2>2. /\ vnew.requests = rep.requests /\ vnew.free_new = Front(s.free_new)
        /\ vnew.free_used = s.free_used /\ vnew.mode = s.mode /\ vnew.busy = s.busy
        /\ vnew.in_flight = s.in_flight /\ vnew.open_effects = s.open_effects
    BY <1>8 DEF PoolType, PoolStates
  <2> HIDE DEF vnew
  <2> DEFINE s2 == AddRequestForBg(vnew, i)
  <2>3. /\ PoolType(s2) /\ s2.requests = [s.requests EXCEPT ![i] = r2]
        /\ s2.mode = s.mode /\ s2.in_flight = s.in_flight /\ s2.busy = s.busy
        /\ s2.open_effects = s.open_effects /\ s2.free_new = Front(s.free_new)
        /\ s2.free_used = s.free_used /\ s.free_new # <<>>
    BY <1>8, <1>9, <1>10, <2>1, <2>2
  <2> HIDE DEF s2
  <2>4. Fits(s2, {}, F, g, C)
    BY <1>5, <1>6, <2>3, GiveWayFits
  <2> QED
    BY <2>4 DEF s2
<1>11. ASSUME s0.free_used # <<>> PROVE Fits(AddRequestForBg(vused, i), {}, F, g, C)
  <2>1. PoolType(vused)
    <3>1. Last(s.free_used) \in PooledConn /\ Front(s.free_used) \in Seq(PooledConn)
      BY <1>8, <1>11, FrontLastIn, Fields
    <3> QED
      BY <1>8, <3>1 DEF PoolType, PoolStates
  <2>2. /\ vused.requests = rep.requests /\ vused.free_used = Front(s.free_used)
        /\ vused.free_new = s.free_new /\ vused.mode = s.mode /\ vused.busy = s.busy
        /\ vused.in_flight = s.in_flight /\ vused.open_effects = s.open_effects
    BY <1>8 DEF PoolType, PoolStates
  <2> HIDE DEF vused
  <2> DEFINE s2 == AddRequestForBg(vused, i)
  <2>3. /\ PoolType(s2) /\ s2.requests = [s.requests EXCEPT ![i] = r2]
        /\ s2.mode = s.mode /\ s2.in_flight = s.in_flight /\ s2.busy = s.busy
        /\ s2.open_effects = s.open_effects /\ s2.free_used = Front(s.free_used)
        /\ s2.free_new = s.free_new /\ s.free_used # <<>>
    BY <1>8, <1>9, <1>11, <2>1, <2>2
  <2> HIDE DEF s2
  <2>4. Fits(s2, {}, F, g, C)
    BY <1>5, <1>6, <2>3, GiveWayFits
  <2> QED
    BY <2>4 DEF s2
<1>12. r.task \notin C /\ ~r.is_replacing /\ ~r.error
  BY <1>0, <1>3
<1>13. Fits(AddRequestForBg(s0, i), {}, F, g, C)
  BY <1>7, <1>12, AddForBgFits
<1>14. Fits(AddRequestForBg(grow, i), {}, F, g, C)
  <2>1. n \in Nat /\ n <= Monus(PoolMax, ReservedOpenCount(s0))
    BY <1>7, GrowthIsBounded
  <2> HIDE DEF n
  <2>2. PoolType(grow) /\ Fits(grow, {}, F, g, C)
    BY <1>7, <2>1, ScheduleOpenEffectsType, ScheduleFits
  <2>3. grow.requests = s0.requests
    BY <1>7 DEF ScheduleOpenEffects, PoolType, PoolStates
  <2> HIDE DEF grow
  <2> QED
    BY <1>7, <1>12, <2>2, <2>3, AddForBgFits
<1>15. s0.mode # "FORCEGET"
  BY <1>7 DEF Fits
<1> HIDE DEF vnew, vused, ext, grow, n
<1> QED
  BY <1>2, <1>10, <1>11, <1>13, <1>14, <1>15

\* The reaper moves on while the pool stays as it is.
LEMMA RestageFits ==
    ASSUME NEW s, PoolType(s), NEW X, NEW F, NEW g, NEW C, Fits(s, X, F, g, C), NEW h, NEW D,
           \A i \in DOMAIN s.requests :
               /\ PlainReq(s.requests[i], h, D)
               /\ Awaits(s.requests[i], h, D) => Awaits(s.requests[i], g, C)
    PROVE  Fits(s, X, F, h, D)
<1>1. /\ s.mode # "FORCEGET" /\ s.in_flight = F
      /\ Seats(s) \cup X \subseteq Seats(s) \cup X
  BY DEF Fits
<1> QED
  BY <1>1, FitsKept

\* get_next_request picks a request that has no error.
LEMMA GetNextFits ==
    ASSUME NEW s, PoolType(s), NEW P, Tame(s.requests, P, {}),
           NEW F, NEW g, Fits(s, {}, F, g, {}), NEW h \in {"top", "process"}
    PROVE  Fits(GetNextRequest(s), {}, F, h, PeekNextRequest(s))
<1> DEFINE D == PeekNextRequest(s)
<1>1. ASSUME NEW r PROVE Awaits(r, h, D) => Awaits(r, g, {})
  BY DEF Awaits
<1>2. ASSUME NEW r, PlainReq(r, g, {}), r.task \notin D PROVE PlainReq(r, h, D)
  BY <1>2 DEF PlainReq
<1>3. CASE D = {}
  <2>1. GetNextRequest(s) = s
    BY <1>3 DEF GetNextRequest
  <2> HIDE DEF D
  <2>2. \A i \in DOMAIN s.requests :
           PlainReq(s.requests[i], h, D) /\ (Awaits(s.requests[i], h, D) => Awaits(s.requests[i], g, {}))
    BY <1>1, <1>2, <1>3 DEF Fits, Plain
  <2>3. Fits(s, {}, F, h, D)
    BY <2>2, RestageFits
  <2> QED
    BY <2>1, <2>3 DEF D
<1>4. CASE D # {}
  <2> DEFINE t == CHOOSE x \in D : TRUE
             i == RequestPosition(s, t)
             p == s.requests[i]
             r == [p EXCEPT !.in_progress = p.waiting]
  <2>1. t \in D /\ HasRequest(s, t) /\ D = {t}
    BY <1>4, PeekType, OptionIsFinite
  <2>2. PICK j \in DOMAIN s.requests : s.requests[j].task = t /\ QueuedForBg(s.requests[j])
    BY <2>1, PickedIsQueued
  <2>3. GetNextRequest(s) = SetRequest(s, i, r)
    BY <1>4 DEF GetNextRequest
  <2> HIDE DEF t, D
  <2>4. i \in DOMAIN s.requests /\ p \in Request /\ p.task = t
    BY <2>1, PositionTask, RequestIn
  <2> HIDE DEF i
  <2>5. i = j /\ p = s.requests[i]
    BY <2>2, <2>4 DEF Tame
  <2>6. PlainReq(p, g, {}) /\ ~p.error
    BY <2>2, <2>4, <2>5 DEF Fits, Plain, QueuedForBg
  <2> HIDE DEF p
  <2>7. /\ r \in Request /\ r.conn = p.conn /\ r.task = p.task /\ r.error = p.error
        /\ r.bg_processing = p.bg_processing /\ r.completed = p.completed
        /\ r.is_replacing = p.is_replacing /\ r.is_extra = p.is_extra
        /\ r.requires_ping = p.requires_ping
    BY <2>4 DEF Request
  <2> HIDE DEF r
  <2>8. PlainReq(r, h, D) /\ (Awaits(r, h, D) => Awaits(s.requests[i], g, {}))
    BY <2>5, <2>6, <2>7 DEF PlainReq, Awaits
  <2>9. ASSUME NEW k \in DOMAIN s.requests \ {i}
        PROVE  /\ PlainReq(s.requests[k], h, D)
               /\ Awaits(s.requests[k], h, D) => Awaits(s.requests[k], g, {})
    <3>1. s.requests[k].task \notin D
      BY <2>1, <2>4, <2>5 DEF Tame
    <3> QED
      BY <1>1, <1>2, <3>1 DEF Fits, Plain
  <2>10. Ids(r.conn) \cup {} \subseteq Seats(s) \cup {}
    BY <2>4, <2>5, <2>7 DEF Seats, ReqIds, Ids
  <2>11. r.task = s.requests[i].task
    BY <2>5, <2>7
  <2>12. Fits(SetRequest(s, i, r), {}, F, h, D)
    BY <2>4, <2>7, <2>8, <2>9, <2>10, <2>11, SetFits
  <2> QED
    BY <2>3, <2>12 DEF D
<1> QED
  BY <1>3, <1>4

\* a request is marked, then removed
Removed(s, i, r) == [SetRequest(s, i, r) EXCEPT !.requests = RemoveAt(@, i)]

\* The others stay.
LEMMA MarkedAndRemoved ==
    ASSUME NEW s, PoolType(s), NEW i \in DOMAIN s.requests, NEW r0 \in Request
    PROVE  LET w == Removed(s, i, r0)
           IN  /\ PoolType(w)
               /\ \A k \in DOMAIN w.requests : \E j \in DOMAIN s.requests \ {i} :
                    w.requests[k] = s.requests[j]
               /\ w.mode = s.mode /\ w.in_flight = s.in_flight /\ w.free_new = s.free_new
               /\ w.free_used = s.free_used /\ w.busy = s.busy /\ w.open = s.open
               /\ w.open_effects = s.open_effects
<1> DEFINE s0 == SetRequest(s, i, r0)
           w == [s0 EXCEPT !.requests = RemoveAt(@, i)]
<1>1. PoolType(s0)
  BY SetRequestType
<1>2. /\ s0.requests = [s.requests EXCEPT ![i] = r0] /\ s0.open = s.open
      /\ s0.mode = s.mode /\ s0.in_flight = s.in_flight /\ s0.free_new = s.free_new
      /\ s0.free_used = s.free_used /\ s0.busy = s.busy /\ s0.open_effects = s.open_effects
  BY DEF SetRequest, PoolType, PoolStates
<1> HIDE DEF s0
<1>3. s0.requests \in Seq(Request) /\ i \in DOMAIN s0.requests
  BY <1>1, <1>2, Fields
<1>4. PoolType(w)
  BY <1>1, <1>3, WithoutRequestType
<1>5. /\ w.requests = RemoveAt(s0.requests, i) /\ w.open = s.open
      /\ w.mode = s.mode /\ w.in_flight = s.in_flight /\ w.free_new = s.free_new
      /\ w.free_used = s.free_used /\ w.busy = s.busy /\ w.open_effects = s.open_effects
  BY <1>1, <1>2 DEF PoolType, PoolStates
<1> HIDE DEF w
<1>6. \A k \in DOMAIN w.requests : \E j \in DOMAIN s.requests \ {i} :
         w.requests[k] = s.requests[j]
  <2>1. DrawnWithout(w.requests, s0.requests, i)
    BY <1>3, <1>5, RemoveAtDraws
  <2>2. \A j \in DOMAIN s0.requests \ {i} : s0.requests[j] = s.requests[j] /\ j \in DOMAIN s.requests
    BY <1>2
  <2> QED
    BY <2>1, <2>2 DEF DrawnWithout
<1> QED
  BY <1>4, <1>5, <1>6 DEF Removed, w, s0

\* Its connection is filed, and nothing is promised to it any more.
LEMMA RemovedFits ==
    ASSUME NEW s, PoolType(s), NEW F, NEW g, NEW C, Fits(s, {}, F, g, C),
           NEW i \in DOMAIN s.requests, NEW r \in Request, r.conn = s.requests[i].conn,
           NEW h, NEW D,
           \A k \in DOMAIN s.requests \ {i} :
               /\ PlainReq(s.requests[k], h, D)
               /\ Awaits(s.requests[k], h, D) => Awaits(s.requests[k], g, C),
           NEW w, PoolType(w),
           \A k \in DOMAIN w.requests : \E j \in DOMAIN s.requests \ {i} :
               w.requests[k] = s.requests[j],
           w.mode = s.mode, w.in_flight = s.in_flight, w.free_new = s.free_new,
           w.free_used = s.free_used, w.busy = s.busy, w.open_effects = s.open_effects
    PROVE  PoolType(Reject(w, r)) /\ Fits(Reject(w, r), {}, F, h, D)
<1> DEFINE Y == Ids(r.conn)
<1>1. Seats(w) \cup Y \subseteq Seats(s) \cup {}
  <2>1. ReqIds(w.requests) \subseteq ReqIds(s.requests) /\ Y \subseteq ReqIds(s.requests)
    BY DEF ReqIds, Ids
  <2> QED
    BY <2>1 DEF Seats, Planned
<1>2. w.mode # "FORCEGET" /\ w.in_flight = F /\ Plain(w.requests, h, D) /\ Room(s, {}, g, C)
  BY DEF Fits, Plain
<1>3. Promises(w.requests, h, D) \subseteq Promises(s.requests, g, C)
  BY DEF Promises
<1> HIDE DEF Y
<1>4. Room(w, Y, h, D)
  BY <1>1, <1>2, <1>3, RoomKept
<1>5. Fits(w, Ids(r.conn), F, h, D)
  BY <1>2, <1>4 DEF Fits, Y
<1> QED
  BY <1>5, RejectType, RejectFits

\* post_process_request ends what was promised.
LEMMA PostProcessFits ==
    ASSUME NEW s, PoolType(s), NEW t, Tame(s.requests, {t}, {t}),
           NEW F, Fits(s, {}, F, "post", {t})
    PROVE  Fits(PostProcessRequest(s, t), {}, F, "top", {})
<1> DEFINE i == RequestPosition(s, t)
           r == s.requests[i]
           r0 == [r EXCEPT !.in_progress = FALSE, !.bg_processing = FALSE,
                           !.completed = @ \/ r.conn # {}]
           s0 == SetRequest(s, i, r0)
           w == Removed(s, i, r0)
<1>1. ASSUME NEW k \in DOMAIN s.requests, s.requests[k].task # t
      PROVE  /\ PlainReq(s.requests[k], "top", {})
             /\ Awaits(s.requests[k], "top", {}) => Awaits(s.requests[k], "post", {t})
  BY <1>1 DEF Fits, Plain, PlainReq, Awaits
<1>2. CASE ~HasRequest(s, t)
  <2>1. Fits(s, {}, F, "top", {})
    BY <1>1, <1>2, RestageFits DEF HasRequest
  <2> QED
    BY <1>2, <2>1 DEF PostProcessRequest
<1>3. CASE HasRequest(s, t)
  <2>1. i \in DOMAIN s.requests /\ r \in Request /\ r.task = t
    BY <1>3, PositionTask, RequestIn
  <2>2. r = s.requests[i]
    OBVIOUS
  <2>3. PostProcessRequest(s, t) =
          WakeWaiters(IF r.waiting
                      THEN (IF r.conn = {} /\ r.requires_ping THEN EnsureMinConnections(s0) ELSE s0)
                      ELSE Reject([(IF r.conn = {} /\ r.requires_ping
                                    THEN EnsureMinConnections(s0) ELSE s0)
                                     EXCEPT !.requests = RemoveAt(@, i)], r))
    BY <1>3 DEF PostProcessRequest
  <2> HIDE DEF i, r
  <2>4. PlainReq(r, "post", {t})
    BY <2>1, <2>2 DEF Fits, Plain
  <2>5. ~r.requires_ping
    BY <2>4 DEF PlainReq
  <2>6. /\ r0 \in Request /\ r0.conn = r.conn /\ r0.task = r.task /\ r0.error = r.error
        /\ r0.completed = (r.completed \/ r.conn # {}) /\ ~r0.bg_processing
        /\ r0.is_replacing = r.is_replacing /\ r0.is_extra = r.is_extra
        /\ r0.requires_ping = r.requires_ping
    BY <2>1 DEF Request
  <2> HIDE DEF r0
  <2>7. /\ PoolType(s0) /\ s0.requests = [s.requests EXCEPT ![i] = r0]
        /\ s0.mode = s.mode /\ s0.in_flight = s.in_flight /\ s0.free_new = s.free_new
        /\ s0.free_used = s.free_used /\ s0.busy = s.busy /\ s0.open_effects = s.open_effects
    <3>1. PoolType(s0)
      BY <2>1, <2>6, SetRequestType
    <3> QED
      BY <3>1, <2>1 DEF SetRequest, PoolType, PoolStates
  <2>8. \A k \in DOMAIN s.requests \ {i} : s.requests[k].task # t
    BY <2>1, <2>2 DEF Tame
  <2>9. ReqIds(s.requests) \subseteq Seats(s) /\ Ids(r.conn) \subseteq Seats(s)
    BY <2>1, <2>2 DEF Seats, ReqIds, Ids
  <2>10. CASE r.waiting
    <3>1. PlainReq(r0, "top", {}) /\ ~Awaits(r0, "top", {})
      BY <2>1, <2>4, <2>6, <2>10 DEF PlainReq, Awaits
    <3>2. Fits(s0, {}, F, "top", {})
      <4>1. Ids(r0.conn) \cup {} \subseteq Seats(s) \cup {}
        BY <2>6, <2>9
      <4> QED
        BY <1>1, <2>1, <2>2, <2>6, <2>8, <3>1, <4>1, SetFits
    <3> HIDE DEF s0
    <3> QED
      BY <2>3, <2>5, <2>7, <2>10, <3>2, SignalsFit
  <2>11. CASE ~r.waiting
    <3>1. \A k \in DOMAIN s.requests \ {i} :
             /\ PlainReq(s.requests[k], "top", {})
             /\ Awaits(s.requests[k], "top", {}) => Awaits(s.requests[k], "post", {t})
      BY <1>1, <2>8
    <3>2. /\ PoolType(w)
          /\ \A k \in DOMAIN w.requests : \E j \in DOMAIN s.requests \ {i} :
               w.requests[k] = s.requests[j]
          /\ w.mode = s.mode /\ w.in_flight = s.in_flight /\ w.free_new = s.free_new
          /\ w.free_used = s.free_used /\ w.busy = s.busy /\ w.open_effects = s.open_effects
      BY <2>1, <2>6, MarkedAndRemoved
    <3> HIDE DEF w
    <3>4. PoolType(Reject(w, r)) /\ Fits(Reject(w, r), {}, F, "top", {})
      BY <2>1, <2>2, <3>1, <3>2, RemovedFits
    <3>3. PostProcessRequest(s, t) = WakeWaiters(Reject(w, r))
      BY <2>3, <2>5, <2>11 DEF w, Removed
    <3> QED
      BY <3>3, <3>4, SignalsFit
  <2> QED
    BY <2>10, <2>11
<1> QED
  BY <1>2, <1>3

\* A connection is handed to a request that awaits one.
LEMMA HandOverFits ==
    ASSUME NEW s, PoolType(s), NEW c \in PooledConn, NEW F, NEW g, NEW C,
           Fits(s, {c.id}, F, g, C), NEW i \in DOMAIN s.requests, s.requests[i].task \notin C
    PROVE  Fits(HandOver(s, i, c), {}, F, g, C)
<1> DEFINE p == s.requests[i]
           r == [p EXCEPT !.conn = {c}, !.completed = TRUE, !.bg_processing = FALSE]
           s1 == SetRequest(s, i, r)
<1>0. p \in Request /\ p = s.requests[i] /\ PlainReq(p, g, C)
  BY RequestIn DEF Fits, Plain
<1> HIDE DEF p
<1>1. {c} \in Option(PooledConn)
  BY OptionSome
<1>2. /\ r \in Request /\ r.conn = {c} /\ r.task = p.task /\ r.completed /\ ~r.bg_processing
      /\ r.requires_ping = p.requires_ping /\ r.is_extra = p.is_extra
  BY <1>0, <1>1 DEF Request
<1> HIDE DEF r
<1>3. PlainReq(r, g, C) /\ ~Awaits(r, g, C) /\ Ids(r.conn) = {c.id}
  BY <1>0, <1>2 DEF PlainReq, Awaits, Ids
<1>4. Ids(r.conn) \cup {} \subseteq Seats(s) \cup {c.id} /\ r.task = s.requests[i].task
  BY <1>0, <1>2, <1>3
<1>5. PoolType(s1) /\ Fits(s1, {}, F, g, C)
  BY <1>2, <1>3, <1>4, SetFitsHere
<1> HIDE DEF s1
<1> QED
  BY <1>5, SignalsFit DEF HandOver, r, s1, p

\* A request that awaits a connection is not the one the reaper works on.
LEMMA AwaitingIsFree ==
    ASSUME NEW s, NEW P, NEW W, Tame(s.requests, P, W), NEW i \in DOMAIN s.requests,
           AwaitsConn(s.requests[i])
    PROVE  s.requests[i].task \notin W
  BY DEF Tame, TameReq, AwaitsConn

\* complete_open_effect: the connection that was being opened is in hand.
LEMMA CompleteFits ==
    ASSUME NEW s, PoolType(s), NEW id, NEW g, NEW C, Fits(s, {}, {id}, g, C)
    PROVE  Fits(CompleteOpenEffect(s, id), {id}, {}, g, C)
<1> DEFINE s0 == CompleteOpenEffect(s, id)
<1>1. PoolType(s0)
  BY CompleteOpenEffectType
<1>2. /\ s0.requests = s.requests /\ s0.mode = s.mode /\ s0.free_new = s.free_new
      /\ s0.free_used = s.free_used /\ s0.busy = s.busy /\ s0.open_effects = s.open_effects
      /\ s0.in_flight = s.in_flight \ {id}
  BY DEF CompleteOpenEffect, PoolType, PoolStates
<1> HIDE DEF s0
<1>3. s.in_flight = {id} /\ s0.in_flight = {}
  BY <1>2 DEF Fits
<1>4. Seats(s0) \cup {id} \subseteq Seats(s) \cup {}
  BY <1>2, <1>3 DEF Seats, Planned
<1>5. Promises(s0.requests, g, C) \subseteq Promises(s.requests, g, C) /\ Room(s, {}, g, C)
  BY <1>2 DEF Fits
<1>6. Room(s0, {id}, g, C)
  BY <1>1, <1>4, <1>5, RoomKept
<1> QED
  BY <1>2, <1>3, <1>6 DEF Fits, s0

\* A refused open gives its room up.
LEMMA PostCreateFailedFits ==
    ASSUME NEW s, PoolType(s), NEW id, NEW g, Fits(s, {}, {id}, g, {})
    PROVE  Fits(PostCreateFailed(s, id), {}, {}, g, {})
<1> DEFINE s0 == CompleteOpenEffect(s, id)
           told == {i \in DOMAIN s0.requests :
                      LET r == s0.requests[i]
                      IN /\ r.bg_processing /\ r.waiting /\ ~r.requires_ping
                         /\ ~r.is_extra /\ ~r.is_replacing
                         /\ CclassMatches(r) /\ r.conn = {}}
           p == s0.requests[Min(told)]
           r0 == [p EXCEPT !.bg_processing = FALSE, !.error = TRUE]
           s1 == SetRequest(s0, Min(told), r0)
<1>1. PoolType(s0) /\ Fits(s0, {id}, {}, g, {})
  BY CompleteOpenEffectType, CompleteFits
<1> HIDE DEF s0
<1>2. told \in SUBSET DOMAIN s0.requests /\ Fits(s0, {}, {}, g, {})
  <2>1. {} \subseteq Seats(s0) \cup {id}
    OBVIOUS
  <2> QED
    BY <1>1, <2>1, HandsFit
<1> HIDE DEF told
<1>3. CASE told # {}
  <2>1. Min(told) \in DOMAIN s0.requests
    BY <1>1, <1>2, <1>3, FirstIn
  <2>2. p \in Request /\ p = s0.requests[Min(told)] /\ PlainReq(p, g, {})
    BY <1>1, <2>1, RequestIn DEF Fits, Plain
  <2> HIDE DEF p
  <2>3. /\ r0 \in Request /\ r0.conn = p.conn /\ r0.task = p.task /\ r0.error /\ ~r0.bg_processing
        /\ r0.requires_ping = p.requires_ping /\ r0.is_extra = p.is_extra
    BY <2>2 DEF Request
  <2> HIDE DEF r0
  <2>4. PlainReq(r0, g, {}) /\ ~Awaits(r0, g, {})
    BY <2>2, <2>3 DEF PlainReq, Awaits
  <2>5. Ids(r0.conn) \cup {} \subseteq Seats(s0) \cup {}
    BY <2>1, <2>2, <2>3 DEF Seats, ReqIds, Ids
  <2>6. PoolType(s1) /\ Fits(s1, {}, {}, g, {})
    BY <1>1, <1>2, <2>1, <2>2, <2>3, <2>4, <2>5, SetFitsHere
  <2> HIDE DEF s1
  <2>7. Fits(WakeWaiters(s1), {}, {}, g, {})
    BY <2>6, SignalsFit
  <2> QED
    BY <1>2, <2>7 DEF PostCreateFailed, s0, told, p, r0, s1
<1>4. CASE told = {}
  BY <1>2, <1>4 DEF PostCreateFailed, s0, told
<1> QED
  BY <1>3, <1>4

\* A new connection of the pool's class takes the seat that was reserved for it.
LEMMA PostCreateConnFits ==
    ASSUME NEW s, PoolType(s), NEW P, Tame(s.requests, P, {}), NEW c \in PooledConn,
           c.cclass = PoolClass, NEW g, Fits(s, {}, {c.id}, g, {})
    PROVE  Fits(PostCreateConn(s, c), {}, {}, g, {})
<1> DEFINE s0 == CompleteOpenEffect(s, c.id)
           full == ActiveOpenCount(s0) + 1 >= PoolMax
           takers == {i \in DOMAIN s0.requests :
                        /\ AwaitsConn(s0.requests[i])
                        /\ \/ Accepts(s0.requests[i], c)
                           \/ ~CclassMatches(s0.requests[i]) /\ full}
           d == [s0 EXCEPT !.to_drop = s0.to_drop \cup {c}]
           n == [s0 EXCEPT !.free_new = Append(s0.free_new, c)]
           r0 == [s0.requests[Min(takers)] EXCEPT !.conn = {c}, !.is_replacing = TRUE]
           over == HandOver(s0, Min(takers), c)
           rep == SetRequest(s0, Min(takers), r0)
<1>1. PoolType(s0) /\ Fits(s0, {c.id}, {}, g, {}) /\ Tame(s0.requests, P, {})
  BY CompleteOpenEffectType, CompleteFits, CompleteCarries DEF Carries
<1> HIDE DEF s0
<1>2. Fits(s0, {}, {}, g, {})
  <2>1. {} \subseteq Seats(s0) \cup {c.id}
    OBVIOUS
  <2> QED
    BY <1>1, <2>1, HandsFit
<1>3. takers \in SUBSET DOMAIN s0.requests
  OBVIOUS
<1>4. \A i \in DOMAIN s0.requests : Accepts(s0.requests[i], c)
  BY <1>1 DEF Tame, TameReq, Accepts
<1> HIDE DEF takers
<1>5. Fits(NotifyBg(d), {}, {}, g, {})
  <2>1. PoolType(d) /\ s0.to_drop \cup {c} \in SUBSET PooledConn
    BY <1>1, Fields, ToDropType
  <2>2. Fits(d, {}, {}, g, {})
    BY <1>1, <1>2, <2>1, SignalsFit
  <2> HIDE DEF d
  <2> QED
    BY <2>1, <2>2, SignalsFit
<1>6. Fits(WakeWaiters(n), {}, {}, g, {})
  <2> DEFINE q == Append(s0.free_new, c)
  <2>1. PoolType(n) /\ q \in Seq(PooledConn) /\ SeqIds(q) \subseteq SeqIds(s0.free_new) \cup {c.id}
    BY <1>1, Fields, AppendProperties, FreeListsType, ListIds
  <2> HIDE DEF q
  <2>2. SeqIds(q) \subseteq Seats(s0) \cup {c.id} /\ {} \subseteq Seats(s0) \cup {c.id}
    BY <2>1 DEF Seats
  <2>3. Fits([s0 EXCEPT !.free_new = q], {}, {}, g, {})
    BY <1>1, <2>1, <2>2, FreeFits
  <2>4. Fits(n, {}, {}, g, {})
    BY <2>3 DEF q
  <2> HIDE DEF n
  <2> QED
    BY <2>1, <2>4, SignalsFit
<1>7. takers # {} => /\ Fits(over, {}, {}, g, {}) /\ Accepts(s0.requests[Min(takers)], c)
  <2>1. SUFFICES ASSUME takers # {}
                 PROVE Fits(over, {}, {}, g, {}) /\ Accepts(s0.requests[Min(takers)], c)
    OBVIOUS
  <2>2. Min(takers) \in DOMAIN s0.requests
    BY <1>1, <1>3, <2>1, FirstOf
  <2> QED
    BY <1>1, <1>4, <2>2, HandOverFits
<1> HIDE DEF d, n, r0, rep, over
<1>8. PostCreateConn(s, c) =
        CASE ~s0.open -> NotifyBg(d)
          [] s0.open /\ takers = {} -> WakeWaiters(n)
          [] s0.open /\ takers # {} /\ Accepts(s0.requests[Min(takers)], c) -> over
          [] OTHER -> rep
  BY DEF PostCreateConn, s0, takers, d, n, r0, rep, over
<1>9. CASE takers = {}
  BY <1>5, <1>6, <1>8, <1>9
<1>10. CASE takers # {}
  BY <1>5, <1>7, <1>8, <1>10
<1> QED
  BY <1>9, <1>10

\* return_connection_helper gives a returned connection its seat again.
LEMMA ReturnFits ==
    ASSUME NEW s, PoolType(s), NEW P, NEW C, Tame(s.requests, P, C), NEW c \in PooledConn,
           NEW F, NEW g, Fits(s, {c.id}, F, g, C), NEW fit \in BOOLEAN
    PROVE  Fits(ReturnConnectionHelper(s, c, fit), {}, F, g, C)
<1> DEFINE takers == Takers(s, c)
           n == NotExtra(c)
           q == Append(s.free_used, n)
           free == [s EXCEPT !.free_used = q]
<1>1. n \in PooledConn /\ n.id = c.id
  BY NotExtraId
<1>2. takers \in SUBSET DOMAIN s.requests /\ \A i \in takers : AwaitsConn(s.requests[i])
  BY DEF Takers
<1> HIDE DEF takers, n
<1>3. Fits(DropConn(s, n), {}, F, g, C)
  BY <1>1, DropConnFits
<1>4. Fits(free, {}, F, g, C)
  <2>1. q \in Seq(PooledConn) /\ SeqIds(q) \subseteq SeqIds(s.free_used) \cup {n.id}
    BY <1>1, Fields, AppendProperties, ListIds
  <2> HIDE DEF q
  <2>2. SeqIds(q) \subseteq Seats(s) \cup {c.id} /\ {} \subseteq Seats(s) \cup {c.id}
    BY <1>1, <2>1 DEF Seats
  <2> QED
    BY <2>1, <2>2, FreeFits
<1>5. takers # {} => Fits(HandOver(s, Min(takers), n), {}, F, g, C)
  <2>1. SUFFICES ASSUME takers # {} PROVE Fits(HandOver(s, Min(takers), n), {}, F, g, C)
    OBVIOUS
  <2>2. Min(takers) \in DOMAIN s.requests /\ s.requests[Min(takers)].task \notin C
    BY <1>2, <2>1, FirstOf, AwaitingIsFree
  <2> QED
    BY <1>1, <2>2, HandOverFits
<1> HIDE DEF free
<1>6. PICK surplus \in BOOLEAN : ReturnConnectionHelper(s, c, fit) =
        CASE ~fit \/ surplus -> DropConn(s, n)
          [] fit /\ ~surplus /\ takers # {} -> HandOver(s, Min(takers), n)
          [] OTHER -> free
  BY DEF ReturnConnectionHelper, takers, free, n, q
<1> QED
  BY <1>3, <1>4, <1>5, <1>6

\* A connection that leaves busy is seated elsewhere, or gives its seat up.
LEMMA BusyFits ==
    ASSUME NEW s, PoolType(s), NEW P, NEW C, Tame(s.requests, P, C), NEW c \in s.busy,
           NEW F, NEW g, Fits(s, {}, F, g, C)
    PROVE  /\ \A fit \in BOOLEAN :
                Fits(ReturnConnectionHelper(TakeBusy(s, c), c, fit), {}, F, g, C)
           /\ Fits(DropConn(TakeBusy(s, c), c), {}, F, g, C)
<1> DEFINE b == s.busy \ {c}
           w == TakeBusy(s, c)
<1>1. PoolType(w) /\ c \in PooledConn /\ w = [s EXCEPT !.busy = b] /\ w.requests = s.requests
  BY TakeBusyType, Fields DEF TakeBusy, PoolType, PoolStates
<1>2. b \in SUBSET PooledConn /\ IsFiniteSet(b)
  BY Fields, FS_Subset
<1>3. Ids(b) \subseteq Seats(s) \cup {} /\ {c.id} \subseteq Seats(s) \cup {}
  BY DEF Seats, Ids
<1> HIDE DEF b
<1>4. Fits([s EXCEPT !.busy = b], {c.id}, F, g, C)
  BY <1>2, <1>3, FreeFits
<1>5. Fits(w, {c.id}, F, g, C)
  BY <1>1, <1>4
<1> HIDE DEF w
<1>6. \A fit \in BOOLEAN : Fits(ReturnConnectionHelper(w, c, fit), {}, F, g, C)
  BY <1>1, <1>5, ReturnFits
<1>7. Fits(DropConn(w, c), {}, F, g, C)
  BY <1>1, <1>5, DropConnFits
<1> QED
  BY <1>6, <1>7 DEF w

\* drain_drop_returns, one received id.
LEMMA DrainedFits ==
    ASSUME NEW s, PoolType(s), NEW P, NEW C, Tame(s.requests, P, C), NEW id,
           NEW fit \in BOOLEAN, NEW F, NEW g, Fits(s, {}, F, g, C)
    PROVE  Fits(Drained(s, id, fit), {}, F, g, C)
<1> DEFINE found == {c \in s.busy : c.id = id}
           conn == CHOOSE c \in found : TRUE
<1>1. CASE ~s.open \/ found = {}
  BY <1>1 DEF Drained
<1>2. CASE s.open /\ found # {}
  <2>1. conn \in s.busy
    BY <1>2
  <2>2. Drained(s, id, fit) = ReturnConnectionHelper(TakeBusy(s, conn), conn, fit)
    BY <1>2 DEF Drained
  <2> HIDE DEF found, conn
  <2> QED
    BY <2>1, <2>2, BusyFits
<1> QED
  BY <1>1, <1>2

\* sweep_idle_timeout gives up the seat of an idle connection.
LEMMA SweepFits ==
    ASSUME NEW s, PoolType(s), NEW list \in {"free_new", "free_used"}, s[list] # <<>>,
           NEW F, NEW g, NEW C, Fits(s, {}, F, g, C)
    PROVE  Fits(DropConn([s EXCEPT ![list] = Tail(@)], Head(s[list])), {}, F, g, C)
<1> DEFINE q == Tail(s[list])
           c == Head(s[list])
           w == [s EXCEPT ![list] = q]
<1>1. s[list] \in Seq(PooledConn) /\ SeqIds(s[list]) \subseteq Seats(s)
  BY Fields DEF Seats
<1>2. q \in Seq(PooledConn) /\ c \in PooledConn /\ SeqIds(q) \subseteq SeqIds(s[list])
  BY <1>1, ListIds
<1> HIDE DEF q, c
<1>3. SeqIds(q) \subseteq Seats(s) \cup {} /\ {} \subseteq Seats(s) \cup {}
  BY <1>1, <1>2
<1>4. PoolType(w) /\ Fits(w, {}, F, g, C)
  <2>1. CASE list = "free_new"
    BY <1>2, <1>3, <2>1, FreeFits, FreeListsType
  <2>2. CASE list = "free_used"
    BY <1>2, <1>3, <2>2, FreeFits, FreeListsType
  <2> QED
    BY <2>1, <2>2
<1>5. w = [s EXCEPT ![list] = Tail(@)]
  BY DEF PoolType, PoolStates, q
<1> HIDE DEF w
<1>6. Fits(DropConn(w, c), {}, F, g, C)
  BY <1>2, <1>4, DropConnFits
<1> QED
  BY <1>5, <1>6 DEF c

\* The connection that was promised to the request of t is there.
LEMMA CreatedFits ==
    ASSUME NEW s, PoolType(s), NEW t, Tame(s.requests, {}, {t}),
           NEW F, Fits(s, {}, F, "create", {t}), NEW i \in DOMAIN s.requests,
           s.requests[i].task = t, NEW c \in PooledConn
    PROVE  Fits(SetRequest(s, i, [s.requests[i] EXCEPT !.conn = {c}]), {}, F, "post", {t})
<1> DEFINE p == s.requests[i]
           r == [p EXCEPT !.conn = {c}]
           s2 == SetRequest(s, i, r)
<1>0. p \in Request /\ p = s.requests[i] /\ PlainReq(p, "create", {t}) /\ TameReq(p, {}, {t})
  BY RequestIn DEF Fits, Plain, Tame
<1> HIDE DEF p
<1>1. {c} \in Option(PooledConn)
  BY OptionSome
<1>2. /\ r \in Request /\ r.conn = {c} /\ r.task = t /\ r.bg_processing = p.bg_processing
      /\ r.completed = p.completed /\ r.error = p.error /\ r.is_replacing = p.is_replacing
      /\ r.requires_ping = p.requires_ping /\ r.is_extra = p.is_extra
  BY <1>0, <1>1 DEF Request
<1>3. /\ PoolType(s2) /\ DOMAIN s2.requests = DOMAIN s.requests /\ s2.requests[i] = r
      /\ \A j \in DOMAIN s.requests \ {i} : s2.requests[j] = s.requests[j]
      /\ s2.mode = s.mode /\ s2.in_flight = s.in_flight /\ s2.free_new = s.free_new
      /\ s2.free_used = s.free_used /\ s2.busy = s.busy /\ s2.open_effects = s.open_effects
  <2> HIDE DEF r
  <2>1. /\ PoolType(s2) /\ DOMAIN s2.requests = DOMAIN s.requests /\ s2.requests[i] = r
    BY <1>2, SetRequestType
  <2> QED
    BY <2>1 DEF SetRequest, PoolType, PoolStates
<1> HIDE DEF r, s2
<1>4. Awaits(p, "create", {t}) /\ PlainReq(r, "post", {t}) /\ ~Awaits(r, "post", {t})
  BY <1>0, <1>2 DEF PlainReq, TameReq, Awaits
<1>5. ASSUME NEW j \in DOMAIN s.requests \ {i}
      PROVE  /\ s.requests[j].task # t /\ PlainReq(s.requests[j], "post", {t})
             /\ Awaits(s.requests[j], "post", {t}) => Awaits(s.requests[j], "create", {t})
  <2>1. s.requests[j].task # t
    BY DEF Tame
  <2> QED
    BY <2>1 DEF Fits, Plain, PlainReq, Awaits
<1>6. Plain(s2.requests, "post", {t})
  BY <1>3, <1>4, <1>5 DEF Plain
<1> DEFINE M == Promises(s.requests, "create", {t})
           N == Promises(s2.requests, "post", {t})
           A == Seats(s) \cup {}
           B == Seats(s2) \cup {}
<1>7. t \in M /\ N \subseteq M \ {t}
  <2>1. t \in M
    BY <1>0, <1>4 DEF Promises
  <2>2. ASSUME NEW u \in N PROVE u \in M \ {t}
    <3>1. PICK j \in DOMAIN s2.requests : u = s2.requests[j].task /\ Awaits(s2.requests[j], "post", {t})
      BY DEF Promises
    <3>2. j # i
      BY <1>3, <1>4, <3>1
    <3>3. s2.requests[j] = s.requests[j] /\ j \in DOMAIN s.requests \ {i}
      BY <1>3, <3>2
    <3> QED
      BY <1>5, <3>1, <3>3 DEF Promises
  <2> QED
    BY <2>1, <2>2
<1>8. B \subseteq A \cup {c.id}
  <2>1. ReqIds(s2.requests) \subseteq ReqIds(s.requests) \cup {c.id}
    BY <1>2, <1>3 DEF ReqIds
  <2> QED
    BY <1>3, <2>1 DEF Seats, Planned
<1>9. IsFiniteSet(A) /\ Cardinality(A) + Cardinality(M) <= PoolMax /\ IsFiniteSet(M)
  BY PromisesFinite, Fields DEF Fits, Room
<1> HIDE DEF M, N, A, B
<1>10. /\ IsFiniteSet(B) /\ Cardinality(B) <= Cardinality(A) + 1
       /\ Cardinality(B) \in Nat /\ Cardinality(A) \in Nat
  <2>1. IsFiniteSet({c.id}) /\ Cardinality({c.id}) = 1
    BY FS_Singleton
  <2>2. /\ IsFiniteSet(A \cup {c.id}) /\ Cardinality(A \cup {c.id}) <= Cardinality(A) + 1
        /\ Cardinality(A \cup {c.id}) \in Nat /\ Cardinality(A) \in Nat
    BY <1>9, <2>1, UnionSize
  <2>3. IsFiniteSet(B) /\ Cardinality(B) <= Cardinality(A \cup {c.id}) /\ Cardinality(B) \in Nat
    BY <1>8, <2>2, FS_Subset, FS_CardinalityType
  <2> QED
    BY <2>2, <2>3
<1>11. Cardinality(N) + 1 <= Cardinality(M) /\ Cardinality(N) \in Nat /\ Cardinality(M) \in Nat
  <2>1. IsFiniteSet(M \ {t}) /\ Cardinality(M \ {t}) = Cardinality(M) - 1 /\ Cardinality(M) \in Nat
    BY <1>7, <1>9, FS_RemoveElement, FS_CardinalityType
  <2>2. Cardinality(N) <= Cardinality(M \ {t}) /\ Cardinality(N) \in Nat
    BY <1>7, <2>1, FS_Subset, FS_CardinalityType
  <2> QED
    BY <2>1, <2>2
<1>12. Cardinality(B) + Cardinality(N) <= PoolMax
  BY <1>9, <1>10, <1>11, SizeAssumption
<1>13. Room(s2, {}, "post", {t})
  BY <1>10, <1>12 DEF Room, B, N
<1> QED
  BY <1>3, <1>6, <1>13 DEF Fits, s2, r, p

\* An open that is started keeps its seat.
LEMMA StartedFits ==
    ASSUME NEW s, PoolType(s), NEW g, NEW C, Fits(s, {}, {}, g, C), s.open_effects # <<>>
    PROVE  LET id == Head(s.open_effects)
           IN  Fits([s EXCEPT !.open_effects = Tail(@), !.in_flight = @ \cup {id}],
                    {}, {id}, g, C)
<1> DEFINE id == Head(s.open_effects)
           s2 == [s EXCEPT !.open_effects = Tail(@), !.in_flight = @ \cup {id}]
<1>1. s.open_effects \in Seq(ConnIds) /\ id \in ConnIds /\ Tail(s.open_effects) \in Seq(ConnIds)
  BY Fields
<1>2. /\ s2.requests = s.requests /\ s2.mode = s.mode /\ s2.free_new = s.free_new
      /\ s2.free_used = s.free_used /\ s2.busy = s.busy
      /\ s2.open_effects = Tail(s.open_effects) /\ s2.in_flight = s.in_flight \cup {id}
  BY DEF PoolType, PoolStates
<1>3. PoolType(s2)
  <2>1. IsFiniteSet(s.in_flight \cup {id})
    BY Fields, FS_AddElement
  <2> QED
    BY <1>1, <2>1 DEF PoolType, PoolStates
<1>4. Planned(s2) \cup {id} \subseteq Planned(s)
  <2>1. id = s.open_effects[1] /\ 1 \in DOMAIN s.open_effects
    BY <1>1
  <2>2. \A i \in DOMAIN Tail(s.open_effects) :
           /\ i + 1 \in DOMAIN s.open_effects
           /\ Tail(s.open_effects)[i] = s.open_effects[i + 1]
    BY <1>1
  <2> HIDE DEF id, s2
  <2> QED
    BY <1>2, <2>1, <2>2 DEF Planned, ToSet
<1> HIDE DEF s2, id
<1>5. s.in_flight = {} /\ s2.in_flight = {id}
  BY <1>2 DEF Fits
<1>6. Seats(s2) \cup {} \subseteq Seats(s) \cup {}
  BY <1>2, <1>4, <1>5 DEF Seats
<1>7. Promises(s2.requests, g, C) \subseteq Promises(s.requests, g, C) /\ Room(s, {}, g, C)
  BY <1>2 DEF Fits
<1>8. Room(s2, {}, g, C)
  BY <1>3, <1>6, <1>7, RoomKept
<1>9. Fits(s2, {}, {id}, g, C)
  BY <1>2, <1>5, <1>8 DEF Fits
<1> QED
  BY <1>9 DEF s2, id

-----------------------------------------------------------------------------
(* The invariant that keeps the pool within its maximum. *)

\* the open the reaper is waiting for
Opening == IF rpc = "open" THEN Ids(fresh) ELSE {}

MaxInv ==
    /\ pool.open => Fits(pool, {}, Opening, rpc, cur)
    /\ rpc = "create" => fresh # {}

\* What a step must do to keep it.
LEMMA MaxStep ==
    ASSUME pool'.open => Fits(pool', {}, Opening', rpc', cur'),
           rpc' = "create" => fresh' # {}
    PROVE  MaxInv'
<1>1. (pool.open => Fits(pool, {}, Opening, rpc, cur))'
  BY DEF Fits, Plain, PlainReq, Room, Seats, Promises, Awaits, Planned, SeqIds, ReqIds, Ids, ToSet
<1> QED
  BY <1>1 DEF MaxInv

\* A step that leaves the reaper where it is.
LEMMA QuietFits ==
    ASSUME UNCHANGED <<rpc, cur, fresh>>, NEW s, Fits(s, {}, Opening, rpc, cur), pool' = s
    PROVE  Fits(pool', {}, Opening', rpc', cur')
<1>1. Opening' = Opening
  BY DEF Opening, Ids
<1> QED
  BY <1>1

\* The pool of a calm engine that is open.
LEMMA OpenPool ==
    ASSUME TypeOK, OwnershipInv, LeakInv, MaxInv, pool.open
    PROVE  /\ PoolType(pool) /\ Tame(pool.requests, Posting, cur) /\ Working = cur
           /\ Fits(pool, {}, Opening, rpc, cur) /\ Tidy(pool)
           /\ Opening \cap Placed(pool) = {}
           /\ \A p : PoolType(AfterDrain(p)) /\ Fits(AfterDrain(p), {}, Opening, rpc, cur)
<1>1. PoolType(pool) /\ Tame(pool.requests, Posting, Working) /\ Fits(pool, {}, Opening, rpc, cur)
  BY CalmPool DEF MaxInv
<1>2. Working = cur
  <2>1. CASE rpc \in AtWork
    BY <2>1 DEF Working, AtWork
  <2>2. CASE rpc \notin AtWork
    BY <2>2, ReaperAway
  <2> QED
    BY <2>1, <2>2
<1>3. Tidy(pool) /\ Opening \cap Placed(pool) = {}
  BY DEF OwnershipInv, ReaperApart, Lacks, Opening
<1>4. ASSUME NEW p PROVE PoolType(AfterDrain(p)) /\ Fits(AfterDrain(p), {}, Opening, rpc, cur)
  BY <1>1, AfterDrainType, SignalsFit DEF AfterDrain
<1> QED
  BY <1>1, <1>2, <1>3, <1>4

\* DrainOne seats a returned connection.
LEMMA DrainOneFits ==
    ASSUME TypeOK, OwnershipInv, LeakInv, MaxInv, pool.open, NEW p, DrainOne(p)
    PROVE  Fits(pool', {}, Opening', rpc', cur')
<1>1. PICK fit \in BOOLEAN : Continue(p, Drained(pool, Head(drops), fit))
  BY DEF DrainOne, Fitness
<1>2. /\ pool' = Drained(pool, Head(drops), fit) /\ UNCHANGED <<rpc, cur, fresh>>
  BY <1>1 DEF Continue, DrainOne, reaperVars
<1>3. Fits(Drained(pool, Head(drops), fit), {}, Opening, rpc, cur)
  BY OpenPool, DrainedFits
<1> QED
  BY <1>2, <1>3, QuietFits

\* Acquire asks for nothing yet.
LEMMA AcquireFits ==
    ASSUME TypeOK, OwnershipInv, LeakInv, MaxInv, pool.open, NEW t \in Tasks, Acquire(t)
    PROVE  Fits(pool', {}, Opening', rpc', cur')
<1>1. UNCHANGED <<rpc, cur, fresh>> /\ t \notin cur
  BY DEF Acquire, reaperVars, LeakInv
<1>2. PICK cclass \in AskClasses, wantsNew \in AskNew :
             Commit(EnqueueRequest(AfterDrain(t), t, cclass, wantsNew))
  BY DEF Acquire
<1>3. cclass \in Classes /\ wantsNew \in BOOLEAN
  BY EngineAssumption
<1> DEFINE d == AfterDrain(t)
<1>4. PoolType(d) /\ Fits(d, {}, Opening, rpc, cur)
  BY OpenPool
<1>5. pool' = EnqueueRequest(d, t, cclass, wantsNew)
  BY <1>2 DEF Commit
<1> HIDE DEF d
<1>6. Fits(EnqueueRequest(d, t, cclass, wantsNew), {}, Opening, rpc, cur)
  BY <1>1, <1>3, <1>4, EnqueueFits
<1> QED
  BY <1>1, <1>5, <1>6, QuietFits

\* PollFails: the request of a creation that failed is left to the reaper,
\* any other is removed.
LEMMA PollFailsFits ==
    ASSUME TypeOK, OwnershipInv, LeakInv, MaxInv, pool.open, NEW t \in Tasks, PollFails(t)
    PROVE  Fits(pool', {}, Opening', rpc', cur')
<1> DEFINE i == Position(t)
           p == pool.requests[i]
           e == [p EXCEPT !.error = FALSE]
           s == SetRequest(pool, i, e)
           r == [e EXCEPT !.waiting = FALSE]
           w == Removed(pool, i, e)
<1>1. /\ PoolType(pool) /\ Tame(pool.requests, Posting, cur) /\ Fits(pool, {}, Opening, rpc, cur)
  BY OpenPool
<1>2. UNCHANGED <<rpc, cur, fresh>>
  BY DEF PollFails, reaperVars
<1>3. CASE ~HasRequest(pool, t)
  <2>1. pool' = AbandonRequest(pool, t)
    BY <1>3 DEF PollFails, Commit
  <2>2. AbandonRequest(pool, t) = pool
    BY <1>3 DEF AbandonRequest
  <2> QED
    BY <1>1, <1>2, <2>1, <2>2, QuietFits
<1>4. CASE HasRequest(pool, t)
  <2>1. Req(t).error
    BY <1>4 DEF PollFails
  <2>2. i \in DOMAIN pool.requests /\ p \in Request /\ p = pool.requests[i] /\ p.task = t /\ p.error
    BY <1>1, <1>4, <2>1, PositionTask, RequestIn DEF Req, Position
  <2>3. pool' = AbandonRequest(s, t)
    BY <1>4 DEF PollFails, Commit
  <2> HIDE DEF i, p
  <2>4. PlainReq(p, rpc, cur)
    BY <1>1, <2>2 DEF Fits, Plain
  <2>5. \A k \in DOMAIN pool.requests \ {i} : pool.requests[k].task # t
    BY <1>1, <2>2 DEF Tame
  <2>6. /\ e \in Request /\ e.conn = p.conn /\ e.task = p.task /\ e.bg_processing = p.bg_processing
        /\ e.is_replacing = p.is_replacing /\ e.completed = p.completed
        /\ e.requires_ping = p.requires_ping /\ e.is_extra = p.is_extra /\ ~e.error
    BY <2>2 DEF Request
  <2> HIDE DEF e
  <2>7. /\ PoolType(s) /\ DOMAIN s.requests = DOMAIN pool.requests /\ s.requests[i] = e
        /\ \A k \in DOMAIN pool.requests \ {i} : s.requests[k] = pool.requests[k]
    <3>1. PoolType(s) /\ DOMAIN s.requests = DOMAIN pool.requests /\ s.requests[i] = e
      BY <1>1, <2>2, <2>6, SetRequestType
    <3> QED
      BY <1>1, <3>1 DEF SetRequest, PoolType, PoolStates
  <2>8. HasRequest(s, t) /\ RequestPosition(s, t) = i
    <3>1. HasRequest(s, t)
      BY <2>2, <2>6, <2>7 DEF HasRequest
    <3>2. RequestPosition(s, t) \in DOMAIN s.requests /\ s.requests[RequestPosition(s, t)].task = t
      BY <3>1, PositionTask
    <3> QED
      BY <2>5, <2>7, <3>1, <3>2
  <2>9. pool' = IF e.bg_processing THEN SetRequest(s, i, r) ELSE Reject(w, e)
    BY <2>3, <2>7, <2>8 DEF AbandonRequest, Removed
  <2>10. \A k \in DOMAIN pool.requests \ {i} :
            /\ PlainReq(pool.requests[k], rpc, cur)
            /\ Awaits(pool.requests[k], rpc, cur) => Awaits(pool.requests[k], rpc, cur)
    BY <1>1 DEF Fits, Plain
  <2>11. CASE e.bg_processing
    <3>1. /\ r \in Request /\ r.conn = p.conn /\ r.task = p.task /\ r.bg_processing
          /\ r.requires_ping = p.requires_ping /\ r.is_extra = p.is_extra
          /\ r.is_replacing = p.is_replacing /\ ~r.waiting /\ ~r.error
      BY <2>6, <2>11 DEF Request
    <3> HIDE DEF r
    <3>2. rpc = "post" /\ t \in cur
      BY <2>2, <2>4, <2>6, <2>11 DEF PlainReq
    <3>3. PlainReq(r, rpc, cur) /\ ~Awaits(r, rpc, cur)
      BY <2>2, <2>4, <3>1, <3>2 DEF PlainReq, Awaits
    <3>4. Ids(r.conn) \cup {} \subseteq Seats(pool) \cup {}
      BY <2>2, <3>1 DEF Seats, ReqIds, Ids
    <3>5. Fits(SetRequest(pool, i, r), {}, Opening, rpc, cur)
      BY <1>1, <2>2, <3>1, <3>3, <3>4, SetFitsHere
    <3>6. SetRequest(s, i, r) = SetRequest(pool, i, r)
      BY <1>1, <2>2 DEF SetRequest, PoolType, PoolStates
    <3> QED
      BY <1>2, <2>9, <2>11, <3>5, <3>6, QuietFits
  <2>12. CASE ~e.bg_processing
    <3>1. /\ PoolType(w)
          /\ \A k \in DOMAIN w.requests : \E j \in DOMAIN pool.requests \ {i} :
               w.requests[k] = pool.requests[j]
          /\ w.mode = pool.mode /\ w.in_flight = pool.in_flight /\ w.free_new = pool.free_new
          /\ w.free_used = pool.free_used /\ w.busy = pool.busy
          /\ w.open_effects = pool.open_effects
      BY <1>1, <2>2, <2>6, MarkedAndRemoved
    <3> HIDE DEF w
    <3>2. e.conn = pool.requests[i].conn
      BY <2>2, <2>6
    <3>3. Fits(Reject(w, e), {}, Opening, rpc, cur)
      BY <1>1, <2>2, <2>6, <2>10, <3>1, <3>2, RemovedFits
    <3> QED
      BY <1>2, <2>9, <2>12, <3>3, QuietFits
  <2> QED
    BY <2>11, <2>12
<1> QED
  BY <1>3, <1>4

\* The other polls.
LEMMA PollFits ==
    ASSUME TypeOK, OwnershipInv, LeakInv, MaxInv, pool.open, NEW t \in Tasks,
           PollCompleted(t) \/ PollPending(t)
    PROVE  Fits(pool', {}, Opening', rpc', cur')
<1>1. PoolType(pool) /\ Fits(pool, {}, Opening, rpc, cur)
  BY OpenPool
<1>2. UNCHANGED <<rpc, cur, fresh>>
  BY DEF PollCompleted, PollPending, reaperVars
<1>3. CASE PollCompleted(t)
  <2>1. Position(t) \in DOMAIN pool.requests /\ pool' = FinishCompletedRequest(pool, Position(t))
    BY <1>3, PositionType DEF PollCompleted, Pollable, Commit
  <2> QED
    BY <1>1, <1>2, <2>1, FinishFits, QuietFits
<1>4. CASE PollPending(t)
  <2>1. pool' = Park(pool, t)
    BY <1>4 DEF PollPending, Commit
  <2> QED
    BY <1>1, <1>2, <2>1, SignalsFit, QuietFits
<1> QED
  BY <1>3, <1>4

\* The scan of a task: it is not replacing yet, and the reaper is elsewhere.
LEMMA ScanFits ==
    ASSUME TypeOK, OwnershipInv, LeakInv, MaxInv, pool.open, NEW t \in Tasks,
           ScanUnfit(t) \/ ScanFit(t) \/ ScanExhausted(t)
    PROVE  Fits(pool', {}, Opening', rpc', cur')
<1> DEFINE i == Position(t)
<1>1. /\ PoolType(pool) /\ Fits(pool, {}, Opening, rpc, cur) /\ Tidy(pool)
      /\ Opening \cap Placed(pool) = {}
  BY OpenPool
<1>2. /\ Scans(t) /\ UNCHANGED <<rpc, cur, fresh>>
  BY DEF ScanUnfit, ScanFit, ScanExhausted, reaperVars
<1>3. /\ i \in DOMAIN pool.requests /\ pool.requests[i].conn = {}
      /\ pool.requests[i].task \notin cur
  BY <1>2, ScannedIsBare, OpenPool
<1>4. ~pool.requests[i].is_replacing /\ ~pool.requests[i].error
  <2>1. /\ ~pool.requests[i].completed /\ ~pool.requests[i].bg_processing
        /\ ~pool.requests[i].error
    BY <1>2 DEF Scans, Pollable, Req
  <2>2. PlainReq(pool.requests[i], rpc, cur)
    BY <1>1, <1>3 DEF Fits, Plain
  <2> QED
    BY <2>1, <2>2 DEF PlainReq
<1>5. CASE ScanUnfit(t)
  <2> DEFINE s == CheckUnfit(pool, i)
  <2>1. HasCandidate(pool, i) /\ (pool' = Park(s, t) \/ pool' = s)
    BY <1>5 DEF ScanUnfit, Commit, Continue
  <2> HIDE DEF i
  <2>2. PoolType(s) /\ Fits(s, {}, Opening, rpc, cur)
    BY <1>1, <1>3, <2>1, CheckTypes, CheckFits
  <2> HIDE DEF s
  <2>3. Fits(pool', {}, Opening, rpc, cur)
    BY <2>1, <2>2, SignalsFit
  <2> QED
    BY <1>2, <2>3, QuietFits
<1>6. CASE ScanFit(t)
  <2> DEFINE s == CheckFit(pool, i)
  <2>1. HasCandidate(pool, i) /\ pool' = FinishCompletedRequest(s, i)
    BY <1>6 DEF ScanFit, Commit
  <2> HIDE DEF i
  <2>2. PoolType(s) /\ i \in DOMAIN s.requests /\ Fits(s, {}, Opening, rpc, cur)
    BY <1>1, <1>3, <2>1, CheckTypes, CheckFits
  <2> HIDE DEF s
  <2>3. Fits(pool', {}, Opening, rpc, cur)
    BY <2>1, <2>2, FinishFits
  <2> QED
    BY <1>2, <2>3, QuietFits
<1>7. CASE ScanExhausted(t)
  <2> DEFINE s == QueueForBg(pool, i)
  <2>1. pool' = AbandonRequest(pool, t) \/ pool' = Park(s, t)
    BY <1>7 DEF ScanExhausted, Commit
  <2> HIDE DEF i
  <2>2. PoolType(s)
    BY <1>1, <1>3, QueueForBgType
  <2>3. Fits(s, {}, Opening, rpc, cur)
    BY <1>1, <1>3, <1>4, QueueForBgFits
  <2> HIDE DEF s
  <2>4. Fits(pool', {}, Opening, rpc, cur)
    BY <1>1, <2>1, <2>2, <2>3, AbandonFits, SignalsFit
  <2> QED
    BY <1>2, <2>4, QuietFits
<1> QED
  BY <1>5, <1>6, <1>7

\* A wait that is given up.
LEMMA AbandonStepFits ==
    ASSUME TypeOK, OwnershipInv, LeakInv, MaxInv, pool.open, NEW t \in Tasks, Abandon(t)
    PROVE  Fits(pool', {}, Opening', rpc', cur')
<1> DEFINE s == AbandonRequest(pool, t)
<1>1. PoolType(s) /\ Fits(s, {}, Opening, rpc, cur)
  BY OpenPool, AbandonRequestType, AbandonFits
<1>2. pool' = WakeWaiters(s) /\ UNCHANGED <<rpc, cur, fresh>>
  BY DEF Abandon, Commit, reaperVars
<1> HIDE DEF s
<1>3. Fits(pool', {}, Opening, rpc, cur)
  BY <1>1, <1>2, SignalsFit
<1> QED
  BY <1>2, <1>3, QuietFits

\* A guard that is given up.
LEMMA GivesBackFits ==
    ASSUME TypeOK, OwnershipInv, LeakInv, MaxInv, pool.open, NEW t \in Tasks,
           Release(t) \/ DropFromPool(t) \/ DropGuard(t)
    PROVE  Fits(pool', {}, Opening', rpc', cur')
<1>1. UNCHANGED <<rpc, cur, fresh>>
  BY DEF Release, DropFromPool, DropGuard, reaperVars
<1>2. \/ pool' = pool \/ pool' = WakeWaiters(NotifyBg(pool))
      \/ \E fit \in BOOLEAN, c \in pool.busy :
           pool' = WakeWaiters(ReturnConnectionHelper(TakeBusy(pool, c), c, fit))
      \/ \E c \in pool.busy : pool' = WakeWaiters(DropConn(TakeBusy(pool, c), c))
  BY DEF Release, DropFromPool, DropGuard, Commit, LeasedConn, Fitness
<1>3. /\ PoolType(pool) /\ Tame(pool.requests, Posting, cur)
      /\ Fits(pool, {}, Opening, rpc, cur)
  BY OpenPool
<1>4. ASSUME NEW c \in pool.busy
      PROVE  /\ Fits(WakeWaiters(DropConn(TakeBusy(pool, c), c)), {}, Opening, rpc, cur)
             /\ \A fit \in BOOLEAN :
                  Fits(WakeWaiters(ReturnConnectionHelper(TakeBusy(pool, c), c, fit)),
                       {}, Opening, rpc, cur)
  <2>1. c \in PooledConn /\ PoolType(TakeBusy(pool, c))
    BY <1>3, Fields, TakeBusyType
  <2>2. /\ PoolType(DropConn(TakeBusy(pool, c), c))
        /\ \A fit \in BOOLEAN : PoolType(ReturnConnectionHelper(TakeBusy(pool, c), c, fit))
    BY <2>1, DropConnType, ReturnConnectionHelperType
  <2>3. /\ Fits(DropConn(TakeBusy(pool, c), c), {}, Opening, rpc, cur)
        /\ \A fit \in BOOLEAN :
             Fits(ReturnConnectionHelper(TakeBusy(pool, c), c, fit), {}, Opening, rpc, cur)
    BY <1>3, BusyFits
  <2> QED
    BY <2>2, <2>3, SignalsFit
<1>5. Fits(WakeWaiters(NotifyBg(pool)), {}, Opening, rpc, cur)
  <2>1. PoolType(NotifyBg(pool)) /\ Fits(NotifyBg(pool), {}, Opening, rpc, cur)
    BY <1>3, NotifyBgType, SignalsFit
  <2> QED
    BY <2>1, SignalsFit
<1>6. Fits(pool', {}, Opening, rpc, cur)
  BY <1>2, <1>3, <1>4, <1>5
<1> QED
  BY <1>1, <1>6, QuietFits

\* Every step of a task.
LEMMA TaskStepFits ==
    ASSUME TypeOK, OwnershipInv, LeakInv, Calm, MaxInv, pool.open, NEW t \in Tasks, TaskStep(t)
    PROVE  Fits(pool', {}, Opening', rpc', cur')
<1>1. ~ScanNeedsPing(t)
  BY DEF Calm, ScanNeedsPing
<1>2. CASE AbortWait(t) \/ CancelWait(t) \/ Timeout(t)
  BY <1>2, AbandonStepFits DEF AbortWait, CancelWait, Timeout
<1>3. CASE ~(AbortWait(t) \/ CancelWait(t) \/ Timeout(t))
  BY <1>1, <1>3, DrainOneFits, AcquireFits, PollFailsFits, PollFits, ScanFits, GivesBackFits
     DEF TaskStep
<1> QED
  BY <1>2, <1>3

\* ReaperTop picks a request, or goes on.
LEMMA ReaperTopFits ==
    ASSUME TypeOK, OwnershipInv, LeakInv, MaxInv, pool.open, ReaperTop
    PROVE  Fits(pool', {}, Opening', rpc', cur')
<1> DEFINE picks == cur = {}
           next == IF picks THEN PeekNextRequest(pool) ELSE cur
<1>1. /\ rpc = "top" /\ pool' = IF picks THEN GetNextRequest(pool) ELSE pool
      /\ \/ next # {} /\ rpc' = "process" /\ cur' = next
         \/ next = {} /\ rpc' = "effect" /\ cur' = {}
  BY DEF ReaperTop, Commit
<1>2. PoolType(pool) /\ Tame(pool.requests, Posting, cur) /\ Fits(pool, {}, Opening, rpc, cur)
  BY OpenPool
<1>3. Opening = {} /\ Opening' = {}
  BY <1>1 DEF Opening
<1>4. CASE cur = {}
  <2> DEFINE D == PeekNextRequest(pool)
             s == GetNextRequest(pool)
  <2>1. PoolType(s) /\ Fits(s, {}, {}, "process", D)
    BY <1>2, <1>3, <1>4, GetNextRequestType, GetNextFits
  <2>2. pool' = s /\ \/ rpc' = "process" /\ cur' = D
                     \/ rpc' = "effect" /\ cur' = {} /\ D = {}
    BY <1>1, <1>4
  <2> HIDE DEF s, D
  <2>3. D = {} => Fits(s, {}, {}, "effect", {})
    <3>1. SUFFICES ASSUME D = {} PROVE Fits(s, {}, {}, "effect", {})
      OBVIOUS
    <3>2. \A i \in DOMAIN s.requests :
             /\ PlainReq(s.requests[i], "effect", {})
             /\ Awaits(s.requests[i], "effect", {}) => Awaits(s.requests[i], "process", D)
      BY <2>1, <3>1 DEF Fits, Plain, PlainReq, Awaits
    <3> QED
      BY <2>1, <3>2, RestageFits
  <2> QED
    BY <1>3, <2>1, <2>2, <2>3
<1>5. CASE cur # {}
  <2>1. pool' = pool /\ rpc' = "process" /\ cur' = cur
    BY <1>1, <1>5
  <2>2. \A i \in DOMAIN pool.requests :
             /\ PlainReq(pool.requests[i], "process", cur)
             /\ Awaits(pool.requests[i], "process", cur) => Awaits(pool.requests[i], rpc, cur)
    BY <1>1, <1>2 DEF Fits, Plain, PlainReq, Awaits
  <2>3. Fits(pool, {}, {}, "process", cur)
    BY <1>2, <1>3, <2>2, RestageFits
  <2> QED
    BY <1>3, <2>1, <2>3
<1> QED
  BY <1>4, <1>5

\* A reaper that works for nobody may be at any step.
LEMMA IdleFits ==
    ASSUME NEW s, PoolType(s), NEW X, NEW F, NEW g, Fits(s, X, F, g, {}), NEW h
    PROVE  Fits(s, X, F, h, {})
<1>1. \A i \in DOMAIN s.requests :
         /\ PlainReq(s.requests[i], h, {})
         /\ Awaits(s.requests[i], h, {}) => Awaits(s.requests[i], g, {})
  BY DEF Fits, Plain, PlainReq, Awaits
<1> QED
  BY <1>1, RestageFits

\* ReaperProcess: only a request that is replacing has a connection made.
LEMMA ReaperProcessFits ==
    ASSUME TypeOK, OwnershipInv, LeakInv, MaxInv, pool.open, NEW t \in Tasks, ReaperProcess(t)
    PROVE  Fits(pool', {}, Opening', rpc', cur')
<1> DEFINE i == Position(t)
           r == Req(t)
           e == [r EXCEPT !.conn = {}]
           s == SetRequest(pool, i, e)
           n == [s EXCEPT !.next_conn_id = @ + 1]
<1>1. PoolType(pool) /\ Tame(pool.requests, Posting, cur) /\ Fits(pool, {}, Opening, rpc, cur)
  BY OpenPool
<1>2. /\ rpc = "process" /\ t \in cur /\ cur' = cur
      /\ \/ HasRequest(pool, t) /\ r.conn # {}
         \/ /\ HasRequest(pool, t) /\ pool' = n /\ rpc' = "create"
            /\ r.is_replacing \/ r.is_extra \/ ~CclassMatches(r)
         \/ /\ pool' = pool /\ rpc' = "post"
            /\ HasRequest(pool, t) => r.requires_ping \/ ~r.is_replacing
  BY DEF ReaperProcess, Commit
<1>3. cur = {t}
  BY <1>2, CalmPool DEF Option
<1>4. HasRequest(pool, t) =>
        i \in DOMAIN pool.requests /\ r \in Request /\ r = pool.requests[i] /\ r.conn = {}
          /\ r.task = t
  BY <1>2, WorkedOnIsBare
<1>5. HasRequest(pool, t) =>
        /\ r.cclass = PoolClass /\ ~r.requires_ping /\ ~r.is_extra
        /\ \A j \in DOMAIN pool.requests \ {i} : pool.requests[j].task # t
  BY <1>1, <1>4 DEF Tame, TameReq, Fits, Plain, PlainReq
<1>6. Opening = {} /\ (rpc' # "open" => Opening' = {})
  BY <1>2 DEF Opening
<1> HIDE DEF i, r
<1>7. CASE HasRequest(pool, t) /\ pool' = n /\ rpc' = "create"
           /\ (r.is_replacing \/ r.is_extra \/ ~CclassMatches(r))
  <2>1. r.is_replacing
    BY <1>5, <1>7 DEF CclassMatches
  <2>2. n = [pool EXCEPT !.next_conn_id = @ + 1]
    <3>1. e = r
      BY <1>4, <1>7 DEF Request
    <3>2. s = pool
      BY <1>1, <1>4, <1>7, <3>1, Fields DEF SetRequest, PoolType, PoolStates
    <3> QED
      BY <3>2
  <2>3. ASSUME NEW j \in DOMAIN pool.requests
        PROVE  /\ PlainReq(pool.requests[j], "create", cur)
               /\ Awaits(pool.requests[j], "create", cur) => Awaits(pool.requests[j], rpc, cur)
    <3>1. pool.requests[j].task = t => pool.requests[j] = r
      BY <1>4, <1>5, <1>7
    <3> QED
      BY <1>1, <1>2, <1>3, <2>1, <3>1 DEF Fits, Plain, PlainReq, Awaits
  <2>4. Fits(pool, {}, {}, "create", cur)
    BY <1>1, <1>6, <2>3, RestageFits
  <2>5. pool.next_conn_id + 1 \in ConnIds
    BY <1>1, Fields DEF ConnIds
  <2>6. Fits([pool EXCEPT !.next_conn_id = pool.next_conn_id + 1], {}, {}, "create", cur)
    BY <1>1, <2>4, <2>5, SignalsFit
  <2> QED
    BY <1>2, <1>6, <1>7, <2>2, <2>6
<1>8. CASE pool' = pool /\ rpc' = "post"
           /\ (HasRequest(pool, t) => r.requires_ping \/ ~r.is_replacing)
  <2>1. ASSUME NEW j \in DOMAIN pool.requests
        PROVE  /\ PlainReq(pool.requests[j], "post", cur)
               /\ Awaits(pool.requests[j], "post", cur) => Awaits(pool.requests[j], rpc, cur)
    <3>1. pool.requests[j].task = t => ~pool.requests[j].is_replacing
      BY <1>4, <1>5, <1>8 DEF HasRequest
    <3> QED
      BY <1>1, <1>2, <1>3, <3>1 DEF Fits, Plain, PlainReq, Awaits
  <2>2. Fits(pool, {}, {}, "post", cur)
    BY <1>1, <1>6, <2>1, RestageFits
  <2> QED
    BY <1>2, <1>6, <1>8, <2>2
<1> QED
  BY <1>2, <1>4, <1>7, <1>8

\* ReaperCreate: the connection is the one that was promised.
LEMMA ReaperCreateFits ==
    ASSUME TypeOK, OwnershipInv, LeakInv, MaxInv, pool.open, NEW t \in Tasks,
           NEW ok \in BOOLEAN, ReaperCreate(t, ok)
    PROVE  Fits(pool', {}, Opening', rpc', cur')
<1> DEFINE i == Position(t)
           p == Req(t)
           f == [p EXCEPT !.error = TRUE]
           loose == {NotExtra(c) : c \in fresh}
           q == [pool EXCEPT !.to_drop = @ \cup loose]
<1>1. /\ PoolType(pool) /\ Tame(pool.requests, Posting, cur) /\ Fits(pool, {}, Opening, rpc, cur)
      /\ held = {} /\ fresh \in Option(PooledConn) /\ fresh \subseteq PooledConn
  BY OpenPool, EngineTypes DEF LeakInv
<1>2. /\ rpc = "create" /\ t \in cur /\ cur' = cur /\ rpc' = "post"
      /\ pool' = CASE HasRequest(pool, t) /\ ok ->
                        SetRequest(pool, i, [p EXCEPT !.conn = fresh])
                   [] HasRequest(pool, t) /\ ~ok -> SetRequest(pool, i, f)
                   [] ~HasRequest(pool, t) /\ ok -> NotifyBg(q)
                   [] OTHER -> pool
  BY <1>1 DEF ReaperCreate, Commit, Retired, Position, Req
<1>3. cur = {t} /\ Posting = {} /\ Opening = {} /\ Opening' = {}
  BY <1>2, CalmPool DEF Option, Posting, Opening
<1>4. PICK c \in PooledConn : fresh = {c}
  BY <1>1, <1>2 DEF MaxInv, Option
<1>5. \A j \in DOMAIN pool.requests : pool.requests[j].task # t =>
         /\ PlainReq(pool.requests[j], "post", cur)
         /\ Awaits(pool.requests[j], "post", cur) => Awaits(pool.requests[j], rpc, cur)
  BY <1>1, <1>2, <1>3 DEF Fits, Plain, PlainReq, Awaits
<1>6. CASE HasRequest(pool, t)
  <2>1. /\ i \in DOMAIN pool.requests /\ p \in Request /\ p = pool.requests[i]
        /\ p.task = t /\ p.conn = {}
    BY <1>2, <1>6, WorkedOnIsBare
  <2> HIDE DEF i, p
  <2>2. CASE ok
    <3>1. pool' = SetRequest(pool, i, [pool.requests[i] EXCEPT !.conn = {c}])
      BY <1>2, <1>4, <1>6, <2>1, <2>2
    <3>2. Fits(SetRequest(pool, i, [pool.requests[i] EXCEPT !.conn = {c}]), {}, {}, "post", {t})
      BY <1>1, <1>2, <1>3, <2>1, CreatedFits
    <3> QED
      BY <1>2, <1>3, <3>1, <3>2
  <2>3. CASE ~ok
    <3>1. pool' = SetRequest(pool, i, f)
      BY <1>2, <1>6, <2>3
    <3>2. PlainReq(p, "create", cur)
      BY <1>1, <1>2, <2>1 DEF Fits, Plain
    <3>3. /\ f \in Request /\ f.conn = p.conn /\ f.task = p.task /\ f.error
          /\ f.requires_ping = p.requires_ping /\ f.is_extra = p.is_extra
          /\ f.is_replacing = p.is_replacing /\ f.bg_processing = p.bg_processing
      BY <2>1 DEF Request
    <3> HIDE DEF f
    <3>4. PlainReq(f, "post", cur) /\ ~Awaits(f, "post", cur)
      BY <1>2, <2>1, <3>2, <3>3 DEF PlainReq, Awaits
    <3>5. Ids(f.conn) \cup {} \subseteq Seats(pool) \cup {}
      BY <2>1, <3>3, EmptyIds
    <3>6. \A j \in DOMAIN pool.requests \ {i} : pool.requests[j].task # t
      BY <1>1, <2>1 DEF Tame
    <3>7. \A j \in DOMAIN pool.requests \ {i} :
             /\ PlainReq(pool.requests[j], "post", cur)
             /\ Awaits(pool.requests[j], "post", cur) => Awaits(pool.requests[j], rpc, cur)
      BY <1>5, <3>6
    <3>8. Fits(SetRequest(pool, i, f), {}, {}, "post", cur)
      <4>1. Fits(pool, {}, {}, rpc, cur) /\ f.task = pool.requests[i].task
        BY <1>1, <1>3, <2>1, <3>3
      <4>2. Awaits(f, "post", cur) => Awaits(pool.requests[i], rpc, cur)
        BY <3>4
      <4> QED
        BY <1>1, <2>1, <3>3, <3>4, <3>5, <3>7, <4>1, <4>2, SetFits
    <3> QED
      BY <1>2, <1>3, <3>1, <3>8
  <2> QED
    BY <2>2, <2>3
<1>7. CASE ~HasRequest(pool, t)
  <2>1. \A j \in DOMAIN pool.requests : pool.requests[j].task # t
    BY <1>7 DEF HasRequest
  <2>2. Fits(pool, {}, {}, "post", cur)
    BY <1>1, <1>3, <1>5, <2>1, RestageFits
  <2>3. loose \subseteq PooledConn
    BY <1>1, NotExtraId
  <2> HIDE DEF loose
  <2>4. pool.to_drop \cup loose \in SUBSET PooledConn
    BY <1>1, <2>3, Fields
  <2>5. PoolType(q) /\ Fits(q, {}, {}, "post", cur)
    BY <1>1, <2>2, <2>4, ToDropType, SignalsFit
  <2> HIDE DEF q
  <2>6. Fits(NotifyBg(q), {}, {}, "post", cur)
    BY <2>5, SignalsFit
  <2> QED
    BY <1>2, <1>3, <1>7, <2>2, <2>6
<1> QED
  BY <1>6, <1>7

\* ReaperPost files the result and picks the next request.
LEMMA ReaperPostFits ==
    ASSUME TypeOK, OwnershipInv, LeakInv, MaxInv, pool.open, NEW t \in Tasks, ReaperPost(t)
    PROVE  Fits(pool', {}, Opening', rpc', cur')
<1> DEFINE s == PostProcessRequest(pool, t)
<1>1. PoolType(pool) /\ Tame(pool.requests, Posting, cur) /\ Fits(pool, {}, Opening, rpc, cur)
  BY OpenPool
<1>2. /\ rpc = "post" /\ t \in cur /\ rpc' = "top"
      /\ pool' = GetNextRequest(s) /\ cur' = PeekNextRequest(s)
  BY DEF ReaperPost, Commit
<1>3. cur = {t} /\ Posting = {t} /\ Opening = {} /\ Opening' = {}
  BY <1>2, CalmPool DEF Option, Posting, Opening
<1>4. PoolType(s) /\ Tame(s.requests, {}, {}) /\ Fits(s, {}, {}, "top", {})
  BY <1>1, <1>2, <1>3, PostProcessRequestType, PostProcessCarries, PostProcessFits DEF Carries
<1> HIDE DEF s
<1>5. Fits(GetNextRequest(s), {}, {}, "top", PeekNextRequest(s))
  BY <1>4, GetNextFits
<1> QED
  BY <1>2, <1>3, <1>5

\* The rest of the reaper's loop.
LEMMA ReaperAwayFits ==
    ASSUME TypeOK, OwnershipInv, LeakInv, MaxInv, pool.open,
           \/ ReaperEffect \/ ReaperDrop \/ ReaperRest \/ ReaperWake \/ ReaperTick
           \/ \E ok \in BOOLEAN : ReaperOpen(ok)
           \/ \E list \in {"free_new", "free_used"} : ReaperSweep(list)
    PROVE  Fits(pool', {}, Opening', rpc', cur')
<1>1. rpc \notin AtWork /\ cur' = cur
  BY DEF ReaperEffect, ReaperDrop, ReaperRest, ReaperWake, ReaperTick, ReaperOpen,
         ReaperSweep, AtWork, reaperVars
<1>2. cur = {} /\ cur' = {} /\ Tame(pool.requests, {}, {}) /\ PoolType(pool)
  BY <1>1, ReaperAway, CalmPool
<1>3. Fits(pool, {}, Opening, rpc, {})
  BY <1>2 DEF MaxInv
<1>4. ASSUME NEW s, PoolType(s), NEW F, NEW g, Fits(s, {}, F, g, {}), pool' = s, Opening' = F
      PROVE  Fits(pool', {}, Opening', rpc', cur')
  <2>1. Fits(s, {}, F, rpc', {})
    BY <1>4, IdleFits
  <2> QED
    BY <1>2, <1>4, <2>1
<1>5. (rpc # "open" => Opening = {}) /\ (rpc' # "open" => Opening' = {})
  BY DEF Opening
<1>6. CASE ReaperEffect
  <2>1. CASE pool.open_effects # <<>>
    <3> DEFINE id == Head(pool.open_effects)
               s == [pool EXCEPT !.open_effects = Tail(@), !.in_flight = @ \cup {id}]
    <3>1. /\ pool' = s /\ rpc = "effect" /\ rpc' = "open"
          /\ fresh' = {NewConn(id, PoolClass, FALSE)}
      BY <1>6, <2>1 DEF ReaperEffect, Commit
    <3>2. Opening' = {id}
      BY <3>1 DEF Opening, Ids, NewConn
    <3>3. Fits(pool, {}, {}, rpc, {})
      BY <1>3, <1>5, <3>1
    <3>4. Fits(s, {}, {id}, rpc, {})
      BY <1>2, <2>1, <3>3, StartedFits
    <3>5. PoolType(s)
      <4> DEFINE rest == Tail(pool.open_effects)
                 flying == pool.in_flight \cup {id}
      <4>1. id \in ConnIds /\ rest \in Seq(ConnIds)
        BY <1>2, <2>1, Fields
      <4>2. flying \in SUBSET ConnIds /\ IsFiniteSet(flying)
        BY <1>2, <4>1, Fields, FS_AddElement
      <4>3. s = [pool EXCEPT !.open_effects = rest, !.in_flight = flying]
        OBVIOUS
      <4> HIDE DEF id, rest, flying, s
      <4>4. PoolType([pool EXCEPT !.open_effects = rest, !.in_flight = flying])
        BY <1>2, <4>1, <4>2 DEF PoolType, PoolStates
      <4> QED
        BY <4>3, <4>4
    <3> HIDE DEF s, id
    <3> QED
      BY <1>4, <3>1, <3>2, <3>4, <3>5
  <2>2. CASE pool.open_effects = <<>>
    <3>1. pool' = pool /\ rpc = "effect" /\ rpc' = "drop"
      BY <1>6, <2>2 DEF ReaperEffect, Commit
    <3> QED
      BY <1>2, <1>3, <1>4, <1>5, <3>1
  <2> QED
    BY <2>1, <2>2
<1>7. CASE ReaperDrop
  <2>1. PICK d \in SUBSET PooledConn : pool' = pool \/ pool' = [pool EXCEPT !.to_drop = d]
    <3>1. pool.to_drop \in SUBSET PooledConn
      BY <1>2, Fields
    <3>2. \A c : pool.to_drop \ {c} \in SUBSET PooledConn
      BY <3>1
    <3>3. pool' = pool \/ \E c : pool' = [pool EXCEPT !.to_drop = pool.to_drop \ {c}]
      BY <1>7 DEF ReaperDrop, Commit
    <3> QED
      BY <3>1, <3>2, <3>3
  <2>2. rpc = "drop" /\ rpc' # "open"
    BY <1>7 DEF ReaperDrop
  <2> DEFINE s == [pool EXCEPT !.to_drop = d]
  <2>3. PoolType(s) /\ Fits(s, {}, Opening, rpc, {})
    BY <1>2, <1>3, ToDropType, SignalsFit
  <2>4. pool' = pool \/ pool' = s
    BY <2>1
  <2> HIDE DEF s
  <2> QED
    BY <1>2, <1>3, <1>4, <1>5, <2>2, <2>3, <2>4
<1>8. CASE ReaperRest \/ ReaperTick
  <2>1. pool' = pool /\ rpc # "open" /\ rpc' # "open"
    BY <1>8 DEF ReaperRest, ReaperTick, Commit
  <2> QED
    BY <1>2, <1>3, <1>4, <1>5, <2>1
<1>9. CASE ReaperWake
  <2> DEFINE s == [pool EXCEPT !.bg = FALSE]
  <2>1. pool' = s /\ rpc # "open" /\ rpc' # "open"
    BY <1>9 DEF ReaperWake
  <2>2. PoolType(s) /\ Fits(s, {}, Opening, rpc, {})
    BY <1>2, <1>3, SignalsFit DEF PoolType, PoolStates
  <2> HIDE DEF s
  <2> QED
    BY <1>4, <1>5, <2>1, <2>2
<1>10. ASSUME NEW ok \in BOOLEAN, ReaperOpen(ok) PROVE Fits(pool', {}, Opening', rpc', cur')
  <2>1. PICK c \in fresh : pool' = IF ok THEN PostCreateConn(pool, c)
                                   ELSE PostCreateFailed(pool, c.id)
    BY <1>10 DEF ReaperOpen, Commit
  <2>2. rpc = "open" /\ rpc' = "top"
    BY <1>10 DEF ReaperOpen
  <2>3. c \in PooledConn /\ c.cclass = PoolClass /\ Ids(fresh) = {c.id}
    BY <2>1, <2>2, EngineTypes DEF LeakInv, Option, Ids
  <2>4. Fits(pool, {}, {c.id}, rpc, {}) /\ Opening' = {}
    BY <1>3, <2>2, <2>3 DEF Opening
  <2> DEFINE s == PostCreateConn(pool, c)
             u == PostCreateFailed(pool, c.id)
  <2>5. Fits(s, {}, {}, rpc, {}) /\ Fits(u, {}, {}, rpc, {})
    BY <1>2, <2>3, <2>4, PostCreateConnFits, PostCreateFailedFits
  <2>6. PoolType(s) /\ PoolType(u)
    BY <1>2, <2>3, PostCreateConnType, PostCreateFailedType
  <2>7. pool' = s \/ pool' = u
    BY <2>1
  <2> HIDE DEF s, u
  <2> QED
    BY <1>4, <2>4, <2>5, <2>6, <2>7
<1>11. ASSUME NEW list \in {"free_new", "free_used"}, ReaperSweep(list)
       PROVE  Fits(pool', {}, Opening', rpc', cur')
  <2>1. /\ pool[list] # <<>>
        /\ pool' = DropConn([pool EXCEPT ![list] = Tail(@)], Head(pool[list]))
        /\ UNCHANGED <<rpc, cur, fresh>>
    BY <1>11 DEF ReaperSweep, Continue, reaperVars
  <2>2. Fits(DropConn([pool EXCEPT ![list] = Tail(@)], Head(pool[list])), {}, Opening, rpc, cur)
    BY <1>2, <1>3, <2>1, SweepFits
  <2> QED
    BY <2>1, <2>2, QuietFits
<1> QED
  BY <1>6, <1>7, <1>8, <1>9, <1>10, <1>11

\* Observers, close and the settings take and plan nothing.
LEMMA OthersFit ==
    ASSUME TypeOK, OwnershipInv, LeakInv, MaxInv, pool.open, pool'.open, ~Event("mode"),
           \/ Observe \/ SetTimeoutSecs \/ LastHandle \/ ReaperGone
           \/ \E m \in SetModes : SetGetmode(m)
           \/ \E c \in Closers : \/ \E force \in BOOLEAN : CloseRequest(c, force)
                                  \/ CloseTake(c) \/ CloseJoined(c) \/ CloseCancelled(c)
    PROVE  Fits(pool', {}, Opening', rpc', cur')
<1>1. PoolType(pool) /\ Tame(pool.requests, Posting, cur) /\ Fits(pool, {}, Opening, rpc, cur)
  BY OpenPool
<1>2. pool' # ShutDown(pool) /\ ~ReaperGone /\ ~LastHandle
  <2>1. ~ShutDown(pool).open /\ ~CloseAll(pool).open
    BY <1>1, ShutDownKeeps, CloseAllKeeps
  <2>2. ~NotifyBg(CloseAll(pool)).open
    <3>1. PoolType(CloseAll(pool))
      BY <1>1, CloseAllType
    <3> QED
      BY <2>1, <3>1 DEF NotifyBg, PoolType, PoolStates
  <2> QED
    BY <2>1, <2>2 DEF ReaperGone, LastHandle, Commit
<1>3. UNCHANGED <<rpc, cur, fresh>>
  BY <1>2 DEF Observe, SetTimeoutSecs, SetGetmode, CloseRequest, CloseTake, CloseJoined,
         CloseCancelled, reaperVars
<1>4. \/ pool' = WakeWaiters(NotifyBg(pool)) \/ (\E c : pool' = AfterDrain(c))
      \/ pool' = NotifyBg(pool) \/ pool' = pool
      \/ pool' = NotifyBg([pool EXCEPT !.timeout = ~@])
  BY <1>2 DEF Observe, CloseRequest, CloseTake, CloseJoined, CloseCancelled, SetGetmode,
         SetTimeoutSecs, Commit
<1>5. /\ PoolType(NotifyBg(pool)) /\ Fits(NotifyBg(pool), {}, Opening, rpc, cur)
      /\ \A c : Fits(AfterDrain(c), {}, Opening, rpc, cur)
  BY <1>1, NotifyBgType, SignalsFit, OpenPool
<1> DEFINE b == ~pool.timeout
           s == [pool EXCEPT !.timeout = b]
<1>6. b \in BOOLEAN /\ PoolType(s)
  BY <1>1 DEF PoolType, PoolStates
<1>7. Fits(s, {}, Opening, rpc, cur)
  <2> HIDE DEF b
  <2> QED
    BY <1>1, <1>6, SignalsFit
<1>8. s = [pool EXCEPT !.timeout = ~@]
  OBVIOUS
<1> HIDE DEF s
<1>9. Fits(pool', {}, Opening, rpc, cur)
  BY <1>1, <1>4, <1>5, <1>6, <1>7, <1>8, SignalsFit
<1> QED
  BY <1>3, <1>9, QuietFits

\* Every step of a calm engine whose getmode is not switched.
LEMMA NextMax ==
    ASSUME TypeOK, OwnershipInv, LeakInv, Calm, ~Event("mode"), MaxInv, [Next]_vars
    PROVE  MaxInv'
<1>1. ASSUME pool.open, pool'.open PROVE Fits(pool', {}, Opening', rpc', cur')
  <2>1. CASE \E t \in Tasks : TaskStep(t)
    BY <1>1, <2>1, TaskStepFits
  <2>2. CASE ReaperStep
    <3>1. ASSUME NEW t \in Tasks, NEW b \in BOOLEAN PROVE ~ReaperPing(t, b)
      BY DEF LeakInv, ReaperPing
    <3> QED
      BY <1>1, <2>2, <3>1, DrainOneFits, ReaperTopFits, ReaperProcessFits, ReaperCreateFits,
         ReaperPostFits, ReaperAwayFits, OthersFit DEF ReaperStep
  <2>3. CASE (\E c \in Closers : CloserStep(c)) \/ DrainOne(Observer) \/ Observe
    BY <1>1, <2>3, DrainOneFits, OthersFit DEF CloserStep
  <2>4. CASE LastHandle \/ (\E m \in SetModes : SetGetmode(m)) \/ SetTimeoutSecs
    BY <1>1, <2>4, OthersFit
  <2>5. CASE UNCHANGED vars
    <3>1. pool' = pool /\ UNCHANGED <<rpc, cur, fresh>>
      BY <2>5 DEF vars, reaperVars
    <3> QED
      BY <1>1, <3>1, QuietFits DEF MaxInv
  <2> QED
    BY <2>1, <2>2, <2>3, <2>4, <2>5 DEF Next
<1>2. rpc' = "create" => fresh' # {}
  <2>1. SUFFICES ASSUME rpc' = "create" PROVE fresh' # {}
    OBVIOUS
  <2>2. CASE \E t \in Tasks : ReaperProcess(t)
    BY <2>1, <2>2 DEF ReaperProcess
  <2>3. CASE ~\E t \in Tasks : ReaperProcess(t)
    <3>1. UNCHANGED <<rpc, fresh>>
      <4>1. ReaperStep => UNCHANGED <<rpc, fresh>>
        BY <2>1, <2>3 DEF ReaperStep, DrainOne, ReaperTop, ReaperPing, ReaperCreate, ReaperPost,
           ReaperEffect, ReaperOpen, ReaperDrop, ReaperSweep, ReaperRest, ReaperWake, ReaperTick,
           ReaperGone, reaperVars
      <4>2. (\E t \in Tasks : TaskStep(t)) => UNCHANGED <<rpc, fresh>>
        BY DEF TaskStep, DrainOne, Acquire, PollFails, PollCompleted, PollPending, ScanUnfit,
           ScanNeedsPing, ScanFit, ScanExhausted, AbortWait, CancelWait, Timeout, Abandon, Release,
           DropFromPool, DropGuard, reaperVars
      <4>3. ~ReaperStep /\ ~(\E t \in Tasks : TaskStep(t)) => UNCHANGED <<rpc, fresh>>
        BY DEF Next, CloserStep, CloseRequest, CloseTake, CloseJoined, CloseCancelled, DrainOne,
           Observe, LastHandle, SetGetmode, SetTimeoutSecs, reaperVars, vars
      <4> QED
        BY <4>1, <4>2, <4>3
    <3> QED
      BY <2>1, <3>1 DEF MaxInv
  <2> QED
    BY <2>2, <2>3
<1>3. pool'.open => pool.open
  BY ClosedForGood
<1> QED
  BY <1>1, <1>2, <1>3, MaxStep

\* A pool that has just been started plans its minimum.
LEMMA InitMax ==
    ASSUME Init, InitMode # "FORCEGET"
    PROVE  MaxInv
<1> DEFINE f == [i \in 1..PoolMin |-> 1 + i - 1]
           G == {f[i] : i \in 1..PoolMin}
<1>1. /\ pool.free_new = <<>> /\ pool.free_used = <<>> /\ pool.busy = {}
      /\ pool.requests = <<>> /\ pool.in_flight = {} /\ pool.mode = InitMode
      /\ pool.open_effects = <<>> \o f /\ rpc = "top" /\ cur = {} /\ fresh = {}
  BY DEF Init, StartState, ScheduleOpenEffects
<1>2. PoolMin \in Nat /\ PoolMax \in Nat /\ PoolMin <= PoolMax
  BY SizeAssumption
<1>3. f \in Seq(Nat) /\ DOMAIN f = 1..PoolMin
  <2>1. \A i \in 1..PoolMin : 1 + i - 1 \in Nat
    BY <1>2
  <2> HIDE DEF f
  <2>2. f \in [1..PoolMin -> Nat] /\ DOMAIN f = 1..PoolMin
    BY <2>1 DEF f
  <2> QED
    BY <1>2, <2>2, FcnIsSeq
<1> HIDE DEF f
<1>4. pool.open_effects = f
  BY <1>1, <1>3
<1>5. Seats(pool) = G
  BY <1>1, <1>3, <1>4, EmptyIds DEF Seats, Planned, ToSet
<1>6. IsFiniteSet(G) /\ Cardinality(G) <= PoolMin /\ Cardinality(G) \in Nat
  <2>1. \A y \in G : \E i \in 1..PoolMin : y = f[i]
    OBVIOUS
  <2> HIDE DEF G
  <2> QED
    BY <1>2, <2>1, ListedSize, FS_CardinalityType
<1>7. DOMAIN pool.requests = {}
  BY <1>1
<1>8. Promises(pool.requests, rpc, cur) = {} /\ Plain(pool.requests, rpc, cur)
  BY <1>7 DEF Promises, Plain
<1> HIDE DEF G
<1>9. Room(pool, {}, rpc, cur)
  <2>1. Seats(pool) \cup {} = G
    BY <1>5
  <2>2. Cardinality(Promises(pool.requests, rpc, cur)) = 0
    BY <1>8, FS_EmptySet
  <2>3. Cardinality(G) + 0 <= PoolMax
    BY <1>2, <1>6
  <2> QED
    BY <1>6, <2>1, <2>2, <2>3 DEF Room
<1>10. Opening = {}
  BY <1>1 DEF Opening
<1> QED
  BY <1>1, <1>8, <1>9, <1>10 DEF MaxInv, Fits

-----------------------------------------------------------------------------
(* After the close: what a request still has. *)

\* when only ReaperGone is left to run, one request at most has a connection
LastInv == ~handles /\ rpc = "top" => \E t : Shut(pool, {t}, TRUE)

\* What a step must do to keep it.
LEMMA LastStep ==
    ASSUME ~handles' /\ rpc' = "top" => \E t : Shut(pool', {t}, TRUE)
    PROVE  LastInv'
  BY DEF LastInv, Shut, ShutReq

\* In a closed pool one request at most has a connection.
LEMMA ClosedOne ==
    ASSUME TypeOK, LeakInv, ShutInv, LastInv, ~pool.open
    PROVE  \E t : Shut(pool, {t}, ~handles)
<1>1. Shut(pool, Keepers, ~handles) /\ cur \in Option(Tasks)
  BY CalmPool DEF ShutInv
<1>2. CASE ~handles /\ rpc = "top"
  <2>1. PICK t : Shut(pool, {t}, TRUE)
    BY <1>2 DEF LastInv
  <2>2. Shut(pool, {t}, ~handles)
    BY <1>2, <2>1 DEF Shut, ShutReq
  <2> QED
    BY <2>2
<1>3. CASE ~(~handles /\ rpc = "top")
  <2>1. \E t : Keepers \subseteq {t}
    BY <1>1, <1>3 DEF Keepers, Option
  <2>2. PICK t : Keepers \subseteq {t}
    BY <2>1
  <2>3. Shut(pool, {t}, ~handles)
    BY <1>1, <2>2, ShutWeaker
  <2> QED
    BY <2>3
<1> QED
  BY <1>2, <1>3

\* The steps that leave the requests of a closed pool what they have.
LEMMA ShutKept ==
    ASSUME PoolType(pool), NEW C, NEW w, Shut(pool, C, w),
           \/ \E t \in Tasks : TaskStep(t)
           \/ Observe \/ (\E p : DrainOne(p)) \/ UNCHANGED vars
           \/ ReaperDrop \/ ReaperRest \/ ReaperWake \/ ReaperTick
           \/ \E ok \in BOOLEAN : ReaperOpen(ok)
           \/ \E list \in {"free_new", "free_used"} : ReaperSweep(list)
           \/ \E c \in Closers : \/ \E force \in BOOLEAN : CloseRequest(c, force)
                                 \/ CloseTake(c) \/ CloseJoined(c) \/ CloseCancelled(c)
           \/ \E m \in SetModes : SetGetmode(m)
           \/ SetTimeoutSecs
    PROVE  Shut(pool', C, w)
<1>1. ~pool.open /\ pool.free_new = <<>> /\ pool.free_used = <<>>
  BY DEF Shut
<1>2. CASE \E t \in Tasks : TaskStep(t)
  BY <1>2, TaskStaysShut DEF StaysShut
<1>3. CASE Observe \/ (\E p : DrainOne(p)) \/ UNCHANGED vars
  <2>1. pool' = pool \/ pool' = WakeWaiters(pool)
    BY <1>1, <1>3 DEF Observe, AfterDrain, Commit, DrainOne, Continue, Drained, vars
  <2> QED
    BY <2>1, SignalsShut DEF StaysShut
<1>4. CASE ReaperDrop \/ ReaperRest \/ ReaperWake \/ ReaperTick
           \/ (\E list \in {"free_new", "free_used"} : ReaperSweep(list))
  <2>1. \/ pool' = pool \/ pool' = [pool EXCEPT !.bg = FALSE]
        \/ \E d : pool' = [pool EXCEPT !.to_drop = d]
    BY <1>1, <1>4 DEF ReaperDrop, ReaperRest, ReaperWake, ReaperTick, ReaperSweep, Commit
  <2> QED
    BY <2>1, SignalsShut DEF StaysShut
<1>5. CASE \E ok \in BOOLEAN : ReaperOpen(ok)
  <2>1. \E c : pool' = PostCreateConn(pool, c) \/ pool' = PostCreateFailed(pool, c.id)
    BY <1>5 DEF ReaperOpen, Commit
  <2> QED
    BY <2>1, PostCreateShut
<1>6. CASE \/ \E c \in Closers : \/ \E force \in BOOLEAN : CloseRequest(c, force)
                                 \/ CloseTake(c) \/ CloseJoined(c) \/ CloseCancelled(c)
           \/ \E m \in SetModes : SetGetmode(m)
           \/ SetTimeoutSecs
  <2>1. \/ pool' = WakeWaiters(NotifyBg(pool)) \/ pool' = NotifyBg(pool) \/ pool' = pool
        \/ \E m : pool' = [pool EXCEPT !.mode = m]
        \/ pool' = NotifyBg([pool EXCEPT !.timeout = ~@])
    BY <1>1, <1>6 DEF CloseRequest, CloseTake, CloseJoined, CloseCancelled, SetGetmode,
       SetTimeoutSecs, Commit
  <2> QED
    BY <2>1, SignalsShut DEF StaysShut
<1> QED
  BY <1>2, <1>3, <1>4, <1>5, <1>6

\* Every step of a calm engine.
LEMMA NextLast ==
    ASSUME TypeOK, LeakInv, Calm, ShutInv, LastInv, [Next]_vars
    PROVE  LastInv'
<1>1. SUFFICES ASSUME ~handles', rpc' = "top" PROVE \E t : Shut(pool', {t}, TRUE)
  BY LastStep
<1>2. PoolType(pool) /\ Tame(pool.requests, Posting, Working) /\ cur \in Option(Tasks)
  BY CalmPool
<1>3. CASE LastHandle
  <2> DEFINE s == CloseAll(pool)
  <2>1. pool' = NotifyBg(s)
    BY <1>3 DEF LastHandle, Commit
  <2>2. /\ ~s.open /\ s.free_new = <<>> /\ s.free_used = <<>> /\ s.busy = {}
        /\ \A i \in DOMAIN s.requests : s.requests[i].conn = {}
    BY <1>2, CloseAllKeeps
  <2>3. PoolType(s)
    BY <1>2, CloseAllType
  <2> HIDE DEF s
  <2>4. \A t : Shut(s, {t}, TRUE)
    BY <2>2, BareIsShut
  <2>5. \A t : Shut(NotifyBg(s), {t}, TRUE)
    BY <2>3, <2>4, SignalsShut DEF StaysShut
  <2> QED
    BY <2>1, <2>5
<1>4. CASE ~LastHandle
  <2>1. ~handles
    <3>1. (\E t \in Tasks : TaskStep(t)) => handles' = handles
      BY DEF TaskStep, DrainOne, Acquire, PollFails, PollCompleted, PollPending, ScanUnfit,
         ScanNeedsPing, ScanFit, ScanExhausted, AbortWait, CancelWait, Timeout, Abandon, Release,
         DropFromPool, DropGuard, closeVars
    <3>2. ReaperStep => handles' = handles
      BY DEF ReaperStep, DrainOne, ReaperTop, ReaperProcess, ReaperPing, ReaperCreate, ReaperPost,
         ReaperEffect, ReaperOpen, ReaperDrop, ReaperSweep, ReaperRest, ReaperWake, ReaperTick,
         ReaperGone, closeVars
    <3>3. ~ReaperStep /\ ~(\E t \in Tasks : TaskStep(t)) => handles' = handles
      BY <1>4 DEF Next, CloserStep, CloseRequest, CloseTake, CloseJoined, CloseCancelled, DrainOne,
         Observe, SetGetmode, SetTimeoutSecs, closeVars, vars
    <3> QED
      BY <1>1, <3>1, <3>2, <3>3
  <2>2. ~pool.open
    BY <2>1 DEF ShutInv
  <2>3. PICK t : Shut(pool, {t}, TRUE)
    <3>1. PICK t : Shut(pool, {t}, ~handles)
      BY <2>2, ClosedOne
    <3>2. Shut(pool, {t}, TRUE)
      BY <3>1 DEF Shut, ShutReq
    <3> QED
      BY <3>2
  <2>4. CASE \E u \in Tasks : ReaperPost(u)
    <3>1. PICK u \in Tasks : ReaperPost(u)
      BY <2>4
    <3> DEFINE s == PostProcessRequest(pool, u)
    <3>2. rpc = "post" /\ u \in cur /\ pool' = GetNextRequest(s)
      BY <3>1 DEF ReaperPost, Commit
    <3>3. cur = {u}
      BY <1>2, <3>2 DEF Option
    <3>4. Posting = {u} /\ Working = {u} /\ Keepers = {u}
      BY <3>2, <3>3 DEF Posting, Working, Keepers
    <3>5. Shut(pool, {u}, TRUE)
      BY <2>2, <3>4 DEF ShutInv, Shut, ShutReq
    <3>6. PoolType(s) /\ Shut(s, {u}, TRUE)
      <4>1. Shut(s, IF TRUE THEN {u} ELSE {}, TRUE)
        BY <1>2, <3>4, <3>5, PostProcessShut
      <4> QED
        BY <1>2, <4>1, PostProcessRequestType
    <3> HIDE DEF s
    <3>7. Shut(GetNextRequest(s), {u}, TRUE)
      BY <3>6, GetNextShut
    <3> QED
      BY <3>2, <3>7
  <2>5. CASE ~\E u \in Tasks : ReaperPost(u)
    <3>1. ~ReaperTop /\ ~ReaperGone /\ ~ReaperEffect
      BY <1>1 DEF ReaperTop, ReaperGone, ReaperEffect
    <3>2. \A u \in Tasks : /\ ~ReaperProcess(u)
                           /\ \A b \in BOOLEAN : ~ReaperPing(u, b) /\ ~ReaperCreate(u, b)
      BY <1>1 DEF ReaperProcess, ReaperPing, ReaperCreate
    <3>3. Shut(pool', {t}, TRUE)
      BY <1>2, <1>4, <2>3, <2>5, <3>1, <3>2, ShutKept DEF Next, ReaperStep, CloserStep
    <3> QED
      BY <3>3
  <2> QED
    BY <2>4, <2>5
<1> QED
  BY <1>3, <1>4

-----------------------------------------------------------------------------
(* What the invariant says. *)

\* An open pool that has room is within its maximum.
LEMMA OpenWithinMax ==
    ASSUME TypeOK, OwnershipInv, LeakInv, MaxInv, pool.open
    PROVE  Cardinality({c \in InService : ~c.is_pool_extra}) <= PoolMax
<1> DEFINE S == {c \in InService : ~c.is_pool_extra}
<1>1. PoolType(pool) /\ Tidy(pool) /\ Room(pool, {}, rpc, cur)
  BY OpenPool DEF Fits
<1>2. S \subseteq OwnedConns(pool) \ pool.to_drop
  BY DEF InService, LeakInv
<1>3. UniqueIds(S)
  BY <1>1, <1>2, OwnedUnique DEF UniqueIds
<1>4. Ids(S) \subseteq Seats(pool)
  BY <1>2 DEF OwnedConns, Seats, SeqIds, ReqIds, Ids, ToSet
<1> HIDE DEF S
<1> DEFINE A == Seats(pool)
           M == Promises(pool.requests, rpc, cur)
<1>5. IsFiniteSet(A) /\ Cardinality(A) + Cardinality(M) <= PoolMax
  <2>1. Seats(pool) \cup {} = A
    OBVIOUS
  <2> QED
    BY <1>1, <2>1 DEF Room
<1>6. IsFiniteSet(M) /\ Cardinality(M) \in Nat
  BY <1>1, PromisesFinite, Fields, FS_CardinalityType
<1> HIDE DEF A, M
<1>7. /\ IsFiniteSet(Ids(S)) /\ Cardinality(Ids(S)) <= Cardinality(A)
      /\ Cardinality(Ids(S)) \in Nat /\ Cardinality(A) \in Nat
  BY <1>4, <1>5, FS_Subset, FS_CardinalityType DEF A
<1>8. Cardinality(S) = Cardinality(Ids(S))
  BY <1>3, <1>7, IdsSize
<1>9. Cardinality(S) <= PoolMax
  BY <1>5, <1>6, <1>7, <1>8, SizeAssumption
<1> QED
  BY <1>9 DEF S

\* A closed pool has one connection in service at most.
LEMMA ClosedWithinMax ==
    ASSUME TypeOK, LeakInv, ShutInv, LastInv, ~pool.open
    PROVE  Cardinality({c \in InService : ~c.is_pool_extra}) <= PoolMax
<1> DEFINE S == {c \in InService : ~c.is_pool_extra}
<1>1. PoolType(pool) /\ Tame(pool.requests, Posting, Working)
  BY CalmPool
<1>2. PICK t : Shut(pool, {t}, ~handles)
  BY ClosedOne
<1>3. S \subseteq UNION {pool.requests[i].conn : i \in DOMAIN pool.requests}
  BY <1>2, EmptyIds DEF InService, LeakInv, OwnedConns, Shut
<1>4. \A i \in DOMAIN pool.requests :
         /\ pool.requests[i].conn # {} => pool.requests[i].task = t
         /\ \A c, d \in pool.requests[i].conn : c = d
  <2>1. pool.requests \in Seq(Request)
    BY <1>1, Fields
  <2> QED
    BY <1>2, <2>1, RequestFields DEF Shut, ShutReq, Option
<1>5. \A c, d \in S : c = d
  BY <1>1, <1>3, <1>4 DEF Tame
<1> HIDE DEF S
<1>6. IsFiniteSet(S) /\ Cardinality(S) <= 1 /\ Cardinality(S) \in Nat
  <2>1. CASE S = {}
    <3>1. IsFiniteSet(S) /\ Cardinality(S) = 0
      BY <2>1, FS_EmptySet
    <3> QED
      BY <3>1
  <2>2. CASE S # {}
    <3>1. PICK c : c \in S
      BY <2>2
    <3>2. S = {c}
      BY <1>5, <3>1
    <3>3. IsFiniteSet(S) /\ Cardinality(S) = 1
      BY <3>2, FS_Singleton
    <3> QED
      BY <3>3
  <2> QED
    BY <2>1, <2>2
<1>7. Cardinality(S) <= PoolMax
  BY <1>6, SizeAssumption
<1> QED
  BY <1>7 DEF S

\* The pool stays within its maximum, for every maximum, minimum and increment
\* and every number of tasks: an open is planned, a connection retired for a
\* replacement or a request post-processed only when what is in service, what
\* is planned and what is owed to waiting requests fits (ReservedOpenCount in
\* fulfill and ensure_min_connections).  The hypotheses are needed: under
\* FORCEGET an extra connection is kept on its return although opens are
\* planned, and a pinged connection, or a cancelled request of another class,
\* is not reserved.
THEOREM StaysWithinMax ==
    ASSUME InitMode # "FORCEGET"
    PROVE  Spec => [](~Event("ping") /\ ~Event("class") => WithinMax)
<1> DEFINE Inv == Calm /\ ~Event("mode") => LeakInv /\ ShutInv /\ LastInv /\ MaxInv
<1>1. Init => Inv
  BY InitLeaks, InitShut, InitMax DEF Init, LastInv
<1>2. TypeOK /\ OwnershipInv /\ Inv /\ [Next]_vars => Inv'
  <2>1. SUFFICES ASSUME TypeOK, OwnershipInv, Inv, [Next]_vars, (Calm /\ ~Event("mode"))'
                 PROVE  (LeakInv /\ ShutInv /\ LastInv /\ MaxInv)'
    OBVIOUS
  <2>2. Calm /\ ~Event("mode")
    BY <2>1, CalmKept DEF Calm, Event
  <2>3. LeakInv /\ ShutInv /\ LastInv /\ MaxInv
    BY <2>1, <2>2
  <2> QED
    BY <2>1, <2>2, <2>3, NextLeaks, NextShut, NextLast, NextMax
<1>3. TypeOK /\ OwnershipInv /\ Inv => (~Event("ping") /\ ~Event("class") => WithinMax)
  BY OpenWithinMax, ClosedWithinMax DEF Calm, WithinMax
<1> QED
  BY <1>1, <1>2, <1>3, OwnershipHolds, PTL DEF Spec
=============================================================================
