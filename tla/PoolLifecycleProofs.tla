------------------------ MODULE PoolLifecycleProofs ------------------------
(***************************************************************************)
(* Proofs about PoolLifecycle, for every min, max and number of waiters    *)
(* and every order of completions, cancellations, failures and closes: the *)
(* machine and its driver agree on what is outstanding, waiters and slots  *)
(* stay consistent, and a waiter is only left in the queue when a slot is  *)
(* owed to it.                                                             *)
(***************************************************************************)
EXTENDS PoolLifecycle, FiniteSetTheorems, SequenceTheorems, TLAPS

-----------------------------------------------------------------------------
(* Numbers and positions *)

\* The lesser of two numbers.
LEMMA MinTwo ==
    ASSUME NEW a \in Int, NEW b \in Int
    PROVE  Min({a, b}) = IF a <= b THEN a ELSE b
<1> DEFINE m == IF a <= b THEN a ELSE b
<1>1. m \in {a, b} /\ \A y \in {a, b} : m <= y
  OBVIOUS
<1>2. \A x \in {a, b} : (\A y \in {a, b} : x <= y) => x = m
  OBVIOUS
<1> HIDE DEF m
<1>3. (CHOOSE x \in {a, b} : \A y \in {a, b} : x <= y) = m
  BY <1>1, <1>2
<1> QED
  BY <1>3 DEF Min, m

\* The greater of two numbers.
LEMMA MaxTwo ==
    ASSUME NEW a \in Int, NEW b \in Int
    PROVE  Max({a, b}) = IF a >= b THEN a ELSE b
<1> DEFINE m == IF a >= b THEN a ELSE b
<1>1. m \in {a, b} /\ \A y \in {a, b} : m >= y
  OBVIOUS
<1>2. \A x \in {a, b} : (\A y \in {a, b} : x >= y) => x = m
  OBVIOUS
<1> HIDE DEF m
<1>3. (CHOOSE x \in {a, b} : \A y \in {a, b} : x >= y) = m
  BY <1>1, <1>2
<1> QED
  BY <1>3 DEF Max, m

Rank(S, k) == Cardinality({j \in S : j <= k})

\* Positions are finitely many, and so are the ones up to one of them.
LEMMA Positions ==
    ASSUME NEW n \in Nat, NEW S \in SUBSET (1..n)
    PROVE  /\ IsFiniteSet(S) /\ Cardinality(S) \in Nat
           /\ \A k \in S : /\ IsFiniteSet({j \in S : j <= k})
                           /\ Rank(S, k) \in 1..Cardinality(S)
<1>1. IsFiniteSet(1..n)
  BY FS_Interval
<1>2. IsFiniteSet(S)
  BY <1>1, FS_Subset
<1>3. Cardinality(S) \in Nat
  BY <1>2, FS_CardinalityType
<1>4. ASSUME NEW k \in S
      PROVE  IsFiniteSet({j \in S : j <= k}) /\ Rank(S, k) \in 1..Cardinality(S)
  <2> DEFINE T == {j \in S : j <= k}
  <2>1. T \in SUBSET S /\ T # {}
    OBVIOUS
  <2>2. IsFiniteSet(T) /\ Cardinality(T) <= Cardinality(S)
    BY <1>2, <2>1, FS_Subset
  <2>3. Cardinality(T) \in Nat /\ Cardinality(T) # 0
    BY <2>1, <2>2, FS_CardinalityType, FS_EmptySet
  <2> QED
    BY <1>3, <2>2, <2>3 DEF Rank
<1> QED
  BY <1>2, <1>3, <1>4

\* Later positions have higher ranks.
LEMMA RankGrows ==
    ASSUME NEW n \in Nat, NEW S \in SUBSET (1..n), NEW a \in S, NEW b \in S, a < b
    PROVE  Rank(S, a) # Rank(S, b)
<1> DEFINE A == {j \in S : j <= a}
           B == {j \in S : j <= b}
<1>1. A \in SUBSET B /\ b \in B /\ b \notin A
  <2>1. a \in Int /\ b \in Int /\ \A j \in S : j \in Int
    OBVIOUS
  <2>2. \A j \in S : j <= a => j <= b
    BY <2>1
  <2>3. b <= b /\ ~(b <= a)
    BY <2>1
  <2> QED
    BY <2>2, <2>3
<1>2. IsFiniteSet(B)
  BY Positions
<1>3. Cardinality(B) # Cardinality(A)
  BY <1>1, <1>2, FS_Subset
<1> QED
  BY <1>3 DEF Rank

\* q lists every member of S once
Lists(q, S) ==
    /\ Len(q) \in Nat /\ Len(q) = Cardinality(S) /\ DOMAIN q = 1..Len(q)
    /\ \A r \in 1..Len(q) : q[r] \in S
    /\ \A r, u \in 1..Len(q) : q[r] = q[u] => r = u
    /\ \A k \in S : \E r \in 1..Len(q) : q[r] = k

\* InOrder lists every position once.
LEMMA InOrderFacts ==
    ASSUME NEW n \in Nat, NEW S \in SUBSET (1..n), NEW q, q = InOrder(S)
    PROVE  Lists(q, S)
<1> DEFINE c == Cardinality(S)
           f == [k \in S |-> Rank(S, k)]
<1>1. IsFiniteSet(S) /\ c \in Nat /\ \A k \in S : Rank(S, k) \in 1..c
  BY Positions
<1>2. f \in [S -> 1..c]
  BY <1>1
<1>3. \A a, b \in S : f[a] = f[b] => a = b
  <2>1. \A a, b \in S : a < b => Rank(S, a) # Rank(S, b)
    BY RankGrows
  <2> QED
    BY <2>1
<1>4. IsFiniteSet(1..c) /\ Cardinality(1..c) = c
  BY <1>1, FS_Interval
<1>5. \A r \in 1..c : \E k \in S : f[k] = r
  <2>1. f \in Injection(S, 1..c)
    BY <1>2, <1>3 DEF Injection, IsInjective
  <2>2. f \in Surjection(S, 1..c)
    BY <1>4, <2>1, FS_Injection
  <2> QED
    BY <2>2 DEF Surjection
<1>6. q = [r \in 1..c |-> CHOOSE k \in S : Rank(S, k) = r]
  BY DEF InOrder, Rank
<1>7. \A r \in 1..c : q[r] \in S /\ Rank(S, q[r]) = r
  <2> TAKE r \in 1..c
  <2>1. \E k \in S : Rank(S, k) = r
    BY <1>5
  <2>2. q[r] = CHOOSE k \in S : Rank(S, k) = r
    BY <1>6
  <2> QED
    BY <2>1, <2>2
<1>8. DOMAIN q = 1..c
  BY <1>6
<1>9. q \in Seq(S) /\ Len(q) = c
  <2>1. q \in [1..c -> S]
    BY <1>6, <1>7, <1>8
  <2> QED
    BY <1>1, <2>1
<1>10. \A k \in S : \E r \in 1..c : q[r] = k
  <2> TAKE k \in S
  <2>1. Rank(S, k) \in 1..c
    BY <1>1
  <2>2. q[Rank(S, k)] \in S /\ Rank(S, q[Rank(S, k)]) = Rank(S, k)
    BY <1>7, <2>1
  <2>3. q[Rank(S, k)] = k
    BY <1>3, <2>2
  <2> QED
    BY <2>1, <2>3
<1> QED
  BY <1>1, <1>7, <1>8, <1>9, <1>10 DEF Lists

OneToOne(q) == \A i, j \in DOMAIN q : q[i] = q[j] => i = j

\* VecDeque::retain removes the waiter, keeps the others and repeats none.
LEMMA WithoutFacts ==
    ASSUME NEW S, NEW q \in Seq(S), OneToOne(q), NEW w, NEW r, r = Without(q, w)
    PROVE  /\ r \in Seq(S) /\ OneToOne(r) /\ ToSet(r) = ToSet(q) \ {w}
           /\ Len(r) <= Len(q)
<1> DEFINE K == {j \in DOMAIN q : q[j] # w}
           at == InOrder(K)
<1>1. DOMAIN q = 1..Len(q) /\ Len(q) \in Nat /\ \A j \in DOMAIN q : q[j] \in S
  OBVIOUS
<1>2. K \in SUBSET (1..Len(q))
  BY <1>1
<1>a. Len(at) = Cardinality(K)
  BY <1>1, <1>2, InOrderFacts DEF Lists
<1>3. /\ Len(at) \in Nat /\ DOMAIN at = 1..Len(at)
      /\ \A k \in 1..Len(at) : at[k] \in K
      /\ \A k, u \in 1..Len(at) : at[k] = at[u] => k = u
      /\ \A j \in K : \E k \in 1..Len(at) : at[k] = j
  <2>1. Lists(at, K)
    BY <1>1, <1>2, InOrderFacts
  <2> QED
    BY <2>1 DEF Lists
<1>4. r = [k \in DOMAIN at |-> q[at[k]]]
  BY DEF Without
<1> HIDE DEF at
<1>5. r = [k \in 1..Len(at) |-> q[at[k]]]
  BY <1>3, <1>4
<1>6. r \in Seq(S) /\ DOMAIN r = 1..Len(at)
  <2>1. r \in [1..Len(at) -> S]
    BY <1>1, <1>3, <1>5
  <2> QED
    BY <1>3, <2>1
<1>7. OneToOne(r)
  BY <1>3, <1>5, <1>6 DEF OneToOne
<1>8. ToSet(r) = ToSet(q) \ {w}
  <2>1. ToSet(r) = {q[at[k]] : k \in 1..Len(at)}
    BY <1>5, <1>6 DEF ToSet
  <2>2. ToSet(q) = {q[j] : j \in DOMAIN q}
    BY DEF ToSet
  <2> QED
    BY <1>3, <2>1, <2>2
<1>9. Len(r) <= Len(q)
  <2>1. Len(r) = Cardinality(K)
    BY <1>a, <1>3, <1>6
  <2>2. IsFiniteSet(1..Len(q)) /\ Cardinality(1..Len(q)) = Len(q)
    BY <1>1, FS_Interval
  <2>3. Cardinality(K) <= Cardinality(1..Len(q))
    BY <1>2, <2>2, FS_Subset
  <2> QED
    BY <2>1, <2>2, <2>3
<1> QED
  BY <1>6, <1>7, <1>8, <1>9

-----------------------------------------------------------------------------
(* The inductive invariant *)

Kinds == {"Open", "Ping", "Close"}
Effects == [kind : Kinds, slot : Nat]
SlotRecs == [st : SlotStates, waiter : SUBSET WaiterIds]
LcStates == [slots : Seq(SlotRecs), waiters : Seq(WaiterIds),
             effects : Seq(Effects), closing : BOOLEAN]

\* the effect a slot in state st waits for
Asks(st, k) ==
    \/ st = "Opening" /\ k = "Open"
    \/ st = "Validating" /\ k = "Ping"
    \/ st \in {"Retiring", "Closing"} /\ k = "Close"

\* What is asked for (T) or being performed (O) is what the slots wait for; the
\* slots in X wait for nothing: their effect has just been answered.
Matched(slots, T, O, X) ==
    \A k \in Kinds, i \in Nat :
        Effect(k, i) \in T \cup O <=> i \in DOMAIN slots \ X /\ Asks(slots[i].st, k)

\* a waiter is carried by one slot and is not queued then
Carried(slots, Q, a) ==
    /\ \A i \in DOMAIN slots :
        /\ slots[i].waiter \subseteq 1..a /\ slots[i].waiter \cap Q = {}
        /\ \A x, y \in slots[i].waiter : x = y
    /\ \A i, j \in DOMAIN slots :
        (\E x \in slots[i].waiter : x \in slots[j].waiter) => i = j

Sound(s, a, O, X) ==
    /\ s \in LcStates /\ a \in 0..MaxWaiters /\ O \subseteq Effects
    /\ Matched(s.slots, ToSet(s.effects), O, X)
    /\ OneToOne(s.effects) /\ ToSet(s.effects) \cap O = {}
    /\ OneToOne(s.waiters) /\ ToSet(s.waiters) \subseteq 1..a
    /\ Carried(s.slots, ToSet(s.waiters), a)
    /\ s.closing => s.waiters = <<>>
    /\ Cardinality(Live(s)) <= SlotMax

\* at least min slots, unless the pool is closing
Enough(s) == ~s.closing => Cardinality(Live(s)) >= SlotMin

\* after drive_waiters a waiter is left over only if the pool is full and busy
Driven(s) ==
    s.waiters # <<>> => In(s, {"Idle"}) = {} /\ Cardinality(Live(s)) = SlotMax

\* a waiter that could be served is owed the close of a retiring slot
Owed(s) ==
    \/ Len(s.waiters) <= Cardinality(In(s, {"Retiring"}))
    \/ Cardinality(In(s, {"Idle"})) + (SlotMax - Cardinality(Live(s)))
            <= Cardinality(In(s, {"Retiring"}))

LifecycleInv ==
    /\ Sound(lc, asked, inflight, {}) /\ Enough(lc) /\ Owed(lc)
    /\ faults \in 0..MaxFaults

-----------------------------------------------------------------------------
(* One slot changes *)

\* The fields of a state.
LEMMA LcFields ==
    ASSUME NEW s \in LcStates
    PROVE  /\ s.slots \in Seq(SlotRecs) /\ s.waiters \in Seq(WaiterIds)
           /\ s.effects \in Seq(Effects) /\ s.closing \in BOOLEAN
           /\ DOMAIN s.slots = 1..Len(s.slots) /\ Len(s.slots) \in Nat
           /\ DOMAIN s.waiters = 1..Len(s.waiters) /\ Len(s.waiters) \in Nat
           /\ DOMAIN s.effects = 1..Len(s.effects) /\ Len(s.effects) \in Nat
           /\ \A i \in DOMAIN s.slots : s.slots[i] \in SlotRecs
                /\ s.slots[i].st \in SlotStates /\ s.slots[i].waiter \in SUBSET WaiterIds
<1>1. /\ s.slots \in Seq(SlotRecs) /\ s.waiters \in Seq(WaiterIds)
      /\ s.effects \in Seq(Effects) /\ s.closing \in BOOLEAN
  BY DEF LcStates
<1>2. \A i \in DOMAIN s.slots : s.slots[i] \in SlotRecs
  BY <1>1
<1>3. \A r \in SlotRecs : r.st \in SlotStates /\ r.waiter \in SUBSET WaiterIds
  BY DEF SlotRecs
<1> QED
  BY <1>1, <1>2, <1>3

\* The slots that are not closed, as a finite set.
LEMMA LiveFacts ==
    ASSUME NEW s \in LcStates
    PROVE  /\ Live(s) = {i \in DOMAIN s.slots : s.slots[i].st # "Closed"}
           /\ Live(s) \subseteq 1..Len(s.slots)
           /\ IsFiniteSet(Live(s)) /\ Cardinality(Live(s)) \in Nat
<1>1. Live(s) = {i \in DOMAIN s.slots : s.slots[i].st # "Closed"}
  BY LcFields DEF Live, In, SlotStates
<1>2. Live(s) \in SUBSET (1..Len(s.slots)) /\ Len(s.slots) \in Nat
  BY <1>1, LcFields
<1>3. IsFiniteSet(Live(s)) /\ Cardinality(Live(s)) \in Nat
  BY <1>2, Positions
<1> QED
  BY <1>1, <1>2, <1>3

\* So are the slots in given states.
LEMMA InFacts ==
    ASSUME NEW s \in LcStates, NEW X
    PROVE  IsFiniteSet(In(s, X)) /\ Cardinality(In(s, X)) \in Nat
<1>1. In(s, X) \in SUBSET (1..Len(s.slots)) /\ Len(s.slots) \in Nat
  BY LcFields DEF In
<1> QED
  BY <1>1, Positions

\* A driven queue is owed nothing.
LEMMA DrivenIsOwed ==
    ASSUME NEW s \in LcStates, Driven(s)
    PROVE  Owed(s)
<1>1. Cardinality(In(s, {"Retiring"})) \in Nat /\ SlotMax \in Nat
  BY InFacts, LifecycleAssumption
<1>2. CASE s.waiters = <<>>
  BY <1>1, <1>2 DEF Owed
<1>3. CASE In(s, {"Idle"}) = {} /\ Cardinality(Live(s)) = SlotMax
  <2>1. Cardinality(In(s, {"Idle"})) = 0
    BY <1>3, FS_EmptySet
  <2>2. Cardinality(In(s, {"Idle"})) + (SlotMax - Cardinality(Live(s))) = 0
    BY <1>1, <1>3, <2>1
  <2> QED
    BY <1>1, <2>2 DEF Owed
<1> QED
  BY <1>2, <1>3 DEF Driven

\* A queue that does not grow is owed no more than before.
LEMMA OwedKept ==
    ASSUME NEW s \in LcStates, NEW r \in LcStates, Owed(s), Live(r) = Live(s),
           In(r, {"Idle"}) = In(s, {"Idle"}), In(r, {"Retiring"}) = In(s, {"Retiring"}),
           Len(r.waiters) <= Len(s.waiters)
    PROVE  Owed(r)
<1>1. /\ Len(r.waiters) \in Nat /\ Len(s.waiters) \in Nat
      /\ Cardinality(In(s, {"Retiring"})) \in Nat
  BY LcFields, InFacts
<1> QED
  BY <1>1 DEF Owed

\* An empty queue is owed nothing.
LEMMA NoneOwed ==
    ASSUME NEW s \in LcStates, s.waiters = <<>>
    PROVE  Owed(s)
<1>1. Cardinality(In(s, {"Retiring"})) \in Nat
  BY InFacts
<1> QED
  BY <1>1 DEF Owed

\* A slot that retires pays for one more waiter.
LEMMA RetiredOwed ==
    ASSUME NEW s \in LcStates, NEW r \in LcStates, Owed(s), Live(r) = Live(s),
           In(r, {"Idle"}) \subseteq In(s, {"Idle"}), NEW i, i \notin In(s, {"Retiring"}),
           In(r, {"Retiring"}) = In(s, {"Retiring"}) \cup {i},
           Len(r.waiters) <= Len(s.waiters) + 1
    PROVE  Owed(r)
<1>1. /\ Len(r.waiters) \in Nat /\ Len(s.waiters) \in Nat /\ SlotMax \in Nat
      /\ IsFiniteSet(In(s, {"Retiring"})) /\ Cardinality(In(s, {"Retiring"})) \in Nat
      /\ IsFiniteSet(In(s, {"Idle"})) /\ Cardinality(In(s, {"Idle"})) \in Nat
      /\ Cardinality(In(r, {"Idle"})) \in Nat /\ Cardinality(Live(s)) \in Nat
  BY LcFields, InFacts, LiveFacts, LifecycleAssumption
<1>2. Cardinality(In(r, {"Retiring"})) = Cardinality(In(s, {"Retiring"})) + 1
  BY <1>1, FS_AddElement
<1>3. Cardinality(In(r, {"Idle"})) <= Cardinality(In(s, {"Idle"}))
  BY <1>1, FS_Subset
<1> QED
  BY <1>1, <1>2, <1>3 DEF Owed

\* One slot is replaced.
LEMMA SetSlotFacts ==
    ASSUME NEW s \in LcStates, NEW i \in DOMAIN s.slots,
           NEW st \in SlotStates, s.slots[i].st # "Closed" \/ s.slots[i].st = st,
           NEW w \in SUBSET WaiterIds, NEW r, r = SetSlot(s, i, st, w)
    PROVE  /\ r \in LcStates /\ r.waiters = s.waiters /\ r.effects = s.effects
           /\ r.closing = s.closing /\ DOMAIN r.slots = DOMAIN s.slots
           /\ r.slots[i].st = st /\ r.slots[i].waiter = w
           /\ \A j \in DOMAIN s.slots : j # i => r.slots[j] = s.slots[j]
           /\ Live(r) = IF st = "Closed" THEN Live(s) \ {i} ELSE Live(s)
<1>1. Slot(st, w) \in SlotRecs
  BY DEF Slot, SlotRecs
<1>2. s.slots \in Seq(SlotRecs)
  BY LcFields
<1> DEFINE z == [s.slots EXCEPT ![i] = Slot(st, w)]
<1>3. /\ z \in Seq(SlotRecs) /\ DOMAIN z = DOMAIN s.slots
      /\ z[i] = Slot(st, w) /\ \A j \in DOMAIN s.slots : j # i => z[j] = s.slots[j]
  BY <1>1, <1>2
<1>4. r = [s EXCEPT !.slots = z]
  BY DEF SetSlot, LcStates
<1> HIDE DEF z
<1>5. /\ r \in LcStates /\ r.waiters = s.waiters /\ r.effects = s.effects
      /\ r.closing = s.closing /\ r.slots = z
  BY <1>3, <1>4 DEF LcStates
<1>6. z[i].st = st /\ z[i].waiter = w
  BY <1>3 DEF Slot
<1>7. /\ Live(r) = {k \in DOMAIN z : z[k].st # "Closed"}
      /\ Live(s) = {k \in DOMAIN s.slots : s.slots[k].st # "Closed"}
  BY <1>5, LiveFacts
<1>8. Live(r) = IF st = "Closed" THEN Live(s) \ {i} ELSE Live(s)
  BY <1>3, <1>6, <1>7
<1> QED
  BY <1>3, <1>5, <1>6, <1>8

\* One effect is asked for.
LEMMA EmitFacts ==
    ASSUME NEW s \in LcStates, NEW k \in Kinds, NEW i \in Nat,
           NEW r, r = Emit(s, k, i)
    PROVE  /\ r \in LcStates /\ r.waiters = s.waiters /\ r.slots = s.slots
           /\ r.closing = s.closing /\ Live(r) = Live(s)
           /\ ToSet(r.effects) = ToSet(s.effects) \cup {Effect(k, i)}
           /\ OneToOne(s.effects) /\ Effect(k, i) \notin ToSet(s.effects)
                => OneToOne(r.effects)
<1> DEFINE e == Effect(k, i)
           z == Append(s.effects, e)
<1>1. e \in Effects
  BY DEF Effect, Effects
<1>2. s.effects \in Seq(Effects)
  BY LcFields
<1>3. r = [s EXCEPT !.effects = z]
  BY DEF Emit, LcStates
<1> HIDE DEF e
<1>4. /\ z \in Seq(Effects) /\ DOMAIN z = DOMAIN s.effects \cup {Len(s.effects) + 1}
      /\ z[Len(s.effects) + 1] = e
      /\ \A j \in DOMAIN s.effects : z[j] = s.effects[j] /\ j # Len(s.effects) + 1
  BY <1>1, <1>2
<1> HIDE DEF z
<1>5. /\ r \in LcStates /\ r.waiters = s.waiters /\ r.effects = z
      /\ r.closing = s.closing /\ r.slots = s.slots
  BY <1>3, <1>4 DEF LcStates
<1>6. ToSet(z) = ToSet(s.effects) \cup {e}
  BY <1>4 DEF ToSet
<1>7. ASSUME OneToOne(s.effects), e \notin ToSet(s.effects)
      PROVE  OneToOne(z)
  <2>1. \A j \in DOMAIN s.effects : s.effects[j] # e
    BY <1>7 DEF ToSet
  <2> QED
    BY <1>4, <1>7, <2>1 DEF OneToOne
<1>8. Live(r) = Live(s)
  BY <1>5, LiveFacts
<1> QED
  BY <1>5, <1>6, <1>7, <1>8 DEF e

\* A slot that waits for nothing may be changed at will.
LEMMA QuietSlot ==
    ASSUME NEW s, NEW a, NEW O, Sound(s, a, O, {}), NEW i \in DOMAIN s.slots,
           s.slots[i].st \in {"Idle", "CheckedOut", "Closed"}
    PROVE  Sound(s, a, O, {i})
<1>1. \A k \in Kinds : ~Asks(s.slots[i].st, k)
  BY DEF Asks
<1>2. Matched(s.slots, ToSet(s.effects), O, {})
  BY DEF Sound
<1>3. Matched(s.slots, ToSet(s.effects), O, {i})
  BY <1>1, <1>2 DEF Matched
<1> QED
  BY <1>3 DEF Sound

\* An answered effect: its slot waits for nothing any more.
LEMMA AnsweredSlot ==
    ASSUME NEW s, NEW a, NEW O, Sound(s, a, O, {}), NEW k \in Kinds, NEW i \in Nat,
           Effect(k, i) \in O
    PROVE  /\ i \in DOMAIN s.slots /\ Asks(s.slots[i].st, k)
           /\ Sound(s, a, O \ {Effect(k, i)}, {i})
<1> DEFINE e == Effect(k, i)
           T == ToSet(s.effects)
<1>1. Matched(s.slots, T, O, {}) /\ T \cap O = {} /\ O \subseteq Effects
  BY DEF Sound
<1>2. i \in DOMAIN s.slots /\ Asks(s.slots[i].st, k)
  BY <1>1 DEF Matched
<1>3. \A m \in Kinds : Asks(s.slots[i].st, m) => m = k
  BY <1>2 DEF Asks
<1>4. \A m \in Kinds, j \in Nat : Effect(m, j) = e <=> m = k /\ j = i
  BY DEF Effect
<1>5. e \notin T
  BY <1>1
<1> HIDE DEF e, T
<1>6. Matched(s.slots, T, O \ {e}, {i})
  <2> SUFFICES ASSUME NEW m \in Kinds, NEW j \in Nat
               PROVE  Effect(m, j) \in T \cup (O \ {e})
                        <=> j \in DOMAIN s.slots \ {i} /\ Asks(s.slots[j].st, m)
    BY DEF Matched
  <2>1. Effect(m, j) \in T \cup O <=> j \in DOMAIN s.slots /\ Asks(s.slots[j].st, m)
    BY <1>1 DEF Matched
  <2> QED
    BY <1>2, <1>3, <1>4, <1>5, <2>1
<1>7. T \cap (O \ {e}) = {} /\ O \ {e} \subseteq Effects
  BY <1>1
<1> QED
  BY <1>2, <1>6, <1>7 DEF Sound, e, T

\* The limit on slots after one of them changed.
LEMMA LimitKept ==
    ASSUME NEW s \in LcStates, Cardinality(Live(s)) <= SlotMax, NEW r, NEW i,
           Live(r) = Live(s) \ {i} \/ Live(r) = Live(s)
    PROVE  Cardinality(Live(r)) <= SlotMax
<1>1. IsFiniteSet(Live(s)) /\ Cardinality(Live(s)) \in Nat /\ SlotMax \in Nat
  BY LiveFacts, LifecycleAssumption
<1>2. Live(r) \in SUBSET Live(s)
  OBVIOUS
<1>3. IsFiniteSet(Live(r)) /\ Cardinality(Live(r)) <= Cardinality(Live(s))
  BY <1>1, <1>2, FS_Subset
<1>4. Cardinality(Live(r)) \in Nat
  BY <1>3, FS_CardinalityType
<1> QED
  BY <1>1, <1>3, <1>4

\* The waiters after one slot let its waiter go or kept it.
LEMMA CarriedKept ==
    ASSUME NEW p, NEW q, NEW Q, NEW a, Carried(p, Q, a), NEW i \in DOMAIN p,
           DOMAIN q = DOMAIN p, q[i].waiter \subseteq p[i].waiter,
           \A j \in DOMAIN p : j # i => q[j] = p[j]
    PROVE  Carried(q, Q, a)
<1>1. \A j \in DOMAIN p : q[j].waiter \subseteq p[j].waiter
  OBVIOUS
<1> QED
  BY <1>1 DEF Carried

\* A slot comes to rest: it is idle, handed out or closed.
LEMMA SlotRests ==
    ASSUME NEW s, NEW a, NEW O, NEW i, Sound(s, a, O, {i}), i \in DOMAIN s.slots,
           s.slots[i].st # "Closed", NEW st \in {"Idle", "CheckedOut", "Closed"},
           NEW w, w = {} \/ w = s.slots[i].waiter, NEW r, r = SetSlot(s, i, st, w)
    PROVE  Sound(r, a, O, {})
<1>1. s \in LcStates
  BY DEF Sound
<1>2. st \in SlotStates /\ w \in SUBSET WaiterIds /\ w \subseteq s.slots[i].waiter
  BY <1>1, LcFields DEF SlotStates
<1>3. /\ r \in LcStates /\ r.waiters = s.waiters /\ r.effects = s.effects
      /\ r.closing = s.closing /\ DOMAIN r.slots = DOMAIN s.slots
      /\ r.slots[i].st = st /\ r.slots[i].waiter = w
      /\ \A j \in DOMAIN s.slots : j # i => r.slots[j] = s.slots[j]
      /\ Live(r) = IF st = "Closed" THEN Live(s) \ {i} ELSE Live(s)
  BY <1>1, <1>2, SetSlotFacts
<1>4. Matched(r.slots, ToSet(r.effects), O, {})
  <2>1. \A k \in Kinds : ~Asks(r.slots[i].st, k)
    BY <1>3 DEF Asks
  <2>2. Matched(s.slots, ToSet(s.effects), O, {i})
    BY DEF Sound
  <2> QED
    BY <1>3, <2>1, <2>2 DEF Matched
<1>5. Carried(r.slots, ToSet(r.waiters), a)
  <2>1. Carried(s.slots, ToSet(s.waiters), a)
    BY DEF Sound
  <2> QED
    BY <1>2, <1>3, <2>1, CarriedKept
<1>6. Cardinality(Live(r)) <= SlotMax
  <2>1. Cardinality(Live(s)) <= SlotMax
    BY DEF Sound
  <2> QED
    BY <1>1, <1>3, <2>1, LimitKept
<1> QED
  BY <1>3, <1>4, <1>5, <1>6 DEF Sound

\* r is s, where slot i waits to be closed
Closes(r, s, i, st) ==
    /\ r.waiters = s.waiters /\ r.closing = s.closing
    /\ Live(r) = Live(s) /\ DOMAIN r.slots = DOMAIN s.slots
    /\ r.slots[i].st = st /\ r.slots[i].waiter = {}
    /\ \A j \in DOMAIN s.slots : j # i => r.slots[j] = s.slots[j]

\* A slot is to be closed.
LEMMA SlotCloses ==
    ASSUME NEW s, NEW a, NEW O, NEW i, Sound(s, a, O, {i}), i \in DOMAIN s.slots,
           s.slots[i].st # "Closed", NEW st \in {"Retiring", "Closing"},
           NEW r, r = Emit(SetSlot(s, i, st, {}), "Close", i)
    PROVE  Sound(r, a, O, {}) /\ Closes(r, s, i, st)
<1> DEFINE m == SetSlot(s, i, st, {})
<1>1. s \in LcStates
  BY DEF Sound
<1>2. st \in SlotStates /\ {} \in SUBSET WaiterIds
  BY DEF SlotStates
<1>3. /\ m \in LcStates /\ m.waiters = s.waiters /\ m.effects = s.effects
      /\ m.closing = s.closing /\ DOMAIN m.slots = DOMAIN s.slots
      /\ m.slots[i].st = st /\ m.slots[i].waiter = {}
      /\ \A j \in DOMAIN s.slots : j # i => m.slots[j] = s.slots[j]
      /\ Live(m) = Live(s)
  BY <1>1, <1>2, SetSlotFacts
<1>4. r = Emit(m, "Close", i)
  OBVIOUS
<1> HIDE DEF m
<1>5. i \in Nat /\ "Close" \in Kinds
  BY <1>1, LcFields DEF Kinds
<1>6. Matched(s.slots, ToSet(s.effects), O, {i}) /\ ToSet(s.effects) \cap O = {}
      /\ OneToOne(s.effects)
  BY DEF Sound
<1>7. Effect("Close", i) \notin ToSet(s.effects) \cup O
  BY <1>5, <1>6 DEF Matched
<1>8. /\ r \in LcStates /\ r.waiters = m.waiters /\ r.slots = m.slots
      /\ r.closing = m.closing /\ Live(r) = Live(m)
      /\ ToSet(r.effects) = ToSet(s.effects) \cup {Effect("Close", i)}
      /\ OneToOne(r.effects)
  <2>1. PICK k \in Kinds : k = "Close"
    BY <1>5
  <2>2. r = Emit(m, k, i)
    BY <1>4, <2>1
  <2>3. /\ r \in LcStates /\ r.waiters = m.waiters /\ r.slots = m.slots
        /\ r.closing = m.closing /\ Live(r) = Live(m)
        /\ ToSet(r.effects) = ToSet(m.effects) \cup {Effect(k, i)}
    <3>1. m \in LcStates /\ i \in Nat
      BY <1>3, <1>5
    <3>2. r \in LcStates /\ r.waiters = m.waiters /\ r.slots = m.slots
      BY ONLY <3>1, <2>2, EmitFacts
    <3>3. r.closing = m.closing /\ Live(r) = Live(m)
      BY ONLY <3>1, <2>2, EmitFacts
    <3>4. ToSet(r.effects) = ToSet(m.effects) \cup {Effect(k, i)}
      BY ONLY <3>1, <2>2, EmitFacts
    <3> QED
      BY <3>2, <3>3, <3>4
  <2>4. OneToOne(m.effects) /\ Effect(k, i) \notin ToSet(m.effects)
            => OneToOne(r.effects)
    BY <1>3, <1>5, <2>2, EmitFacts
  <2> QED
    BY <1>3, <1>6, <1>7, <2>1, <2>3, <2>4
<1>9. Matched(r.slots, ToSet(r.effects), O, {})
  <2> SUFFICES ASSUME NEW k \in Kinds, NEW j \in Nat
               PROVE  Effect(k, j) \in ToSet(r.effects) \cup O
                        <=> j \in DOMAIN r.slots /\ Asks(r.slots[j].st, k)
    BY DEF Matched
  <2>1. Effect(k, j) \in ToSet(s.effects) \cup O
          <=> j \in DOMAIN s.slots \ {i} /\ Asks(s.slots[j].st, k)
    BY <1>6 DEF Matched
  <2>2. Effect(k, j) = Effect("Close", i) <=> k = "Close" /\ j = i
    BY DEF Effect
  <2>3. Asks(st, k) <=> k = "Close"
    BY DEF Asks
  <2> QED
    BY <1>3, <1>8, <2>1, <2>2, <2>3
<1>10. ToSet(r.effects) \cap O = {}
  BY <1>6, <1>7, <1>8
<1>11. Carried(r.slots, ToSet(r.waiters), a)
  <2>1. Carried(s.slots, ToSet(s.waiters), a)
    BY DEF Sound
  <2> QED
    BY <1>3, <1>8, <2>1, CarriedKept
<1> QED
  <2>1. Sound(r, a, O, {})
    BY <1>3, <1>8, <1>9, <1>10, <1>11 DEF Sound
  <2>2. Closes(r, s, i, st)
    BY <1>3, <1>8 DEF Closes
  <2> QED
    BY <2>1, <2>2

-----------------------------------------------------------------------------
(* The queue, and new slots *)

\* r is q with x in front
Prepended(r, x, q, S) ==
    r \in Seq(S) /\ OneToOne(r) /\ ToSet(r) = {x} \cup ToSet(q)

\* The members of a sequence that grows in front.
LEMMA PrependFacts ==
    ASSUME NEW S, NEW q \in Seq(S), OneToOne(q), NEW x \in S, x \notin ToSet(q),
           NEW r, r = <<x>> \o q
    PROVE  Prepended(r, x, q, S)
<1>1. Len(q) \in Nat /\ DOMAIN q = 1..Len(q)
  OBVIOUS
<1>2. /\ r \in Seq(S) /\ DOMAIN r = 1..(Len(q) + 1) /\ r[1] = x
      /\ \A j \in 1..Len(q) : r[j + 1] = q[j]
  BY <1>1
<1>3. \A j \in DOMAIN r : j # 1 => j - 1 \in 1..Len(q) /\ r[j] = q[j - 1]
  <2> TAKE j \in DOMAIN r
  <2> HAVE j # 1
  <2>1. j - 1 \in 1..Len(q) /\ (j - 1) + 1 = j
    BY <1>1, <1>2
  <2> QED
    BY <1>2, <2>1
<1>4. \A j \in 1..Len(q) : q[j] # x
  BY <1>1 DEF ToSet
<1>5. OneToOne(r)
  <2> SUFFICES ASSUME NEW i \in DOMAIN r, NEW j \in DOMAIN r, r[i] = r[j]
               PROVE  i = j
    BY DEF OneToOne
  <2>1. CASE i = 1 \/ j = 1
    BY <1>2, <1>3, <1>4, <2>1
  <2>2. CASE i # 1 /\ j # 1
    <3>1. q[i - 1] = q[j - 1] /\ i - 1 \in DOMAIN q /\ j - 1 \in DOMAIN q
      BY <1>1, <1>3, <2>2
    <3>2. i - 1 = j - 1
      BY <3>1 DEF OneToOne
    <3> QED
      BY <1>1, <1>2, <3>2
  <2> QED
    BY <2>1, <2>2
<1>6. ToSet(r) = {x} \cup ToSet(q)
  <2>1. ASSUME NEW y \in ToSet(r) PROVE y \in {x} \cup ToSet(q)
    <3>1. PICK j \in DOMAIN r : r[j] = y
      BY DEF ToSet
    <3> QED
      BY <1>1, <1>2, <1>3, <3>1 DEF ToSet
  <2>2. x \in ToSet(r)
    BY <1>1, <1>2 DEF ToSet
  <2>3. ASSUME NEW y \in ToSet(q) PROVE y \in ToSet(r)
    <3>1. PICK j \in 1..Len(q) : q[j] = y
      BY <1>1 DEF ToSet
    <3>2. j + 1 \in DOMAIN r
      BY <1>1, <1>2
    <3> QED
      BY <1>2, <3>1, <3>2 DEF ToSet
  <2> QED
    BY <2>1, <2>2, <2>3
<1> QED
  BY <1>2, <1>5, <1>6 DEF Prepended

\* A waiter goes back to the front of the queue.
LEMMA RequeueSound ==
    ASSUME NEW s, NEW a, NEW O, Sound(s, a, O, {}), NEW w, w \subseteq 1..a,
           \A x, y \in w : x = y, w \cap ToSet(s.waiters) = {},
           \A j \in DOMAIN s.slots : s.slots[j].waiter \cap w = {},
           NEW r, r = Requeue(s, w)
    PROVE  /\ Sound(r, a, O, {}) /\ r.slots = s.slots /\ r.closing = s.closing
           /\ Live(r) = Live(s) /\ Len(r.waiters) <= Len(s.waiters) + 1
<1>1. CASE s.closing \/ w = {}
  <2>1. r = s /\ Len(s.waiters) \in Nat
    BY <1>1, LcFields DEF Requeue, Sound
  <2> QED
    BY <2>1
<1>2. CASE ~s.closing /\ w # {}
  <2> DEFINE x == CHOOSE y \in w : TRUE
             z == <<x>> \o s.waiters
  <2>1. x \in w /\ w = {x}
    BY <1>2
  <2>2. r = [s EXCEPT !.waiters = z]
    BY <1>2 DEF Requeue, Sound, LcStates
  <2> HIDE DEF x
  <2>3. s \in LcStates /\ OneToOne(s.waiters) /\ a \in 0..MaxWaiters
    BY DEF Sound
  <2>4. s.waiters \in Seq(WaiterIds) /\ x \in WaiterIds /\ x \notin ToSet(s.waiters)
    BY <2>1, <2>3, LcFields, LifecycleAssumption DEF WaiterIds
  <2>a. Len(z) = Len(s.waiters) + 1 /\ Len(s.waiters) \in Nat
    BY <2>4
  <2>5. z \in Seq(WaiterIds) /\ OneToOne(z) /\ ToSet(z) = {x} \cup ToSet(s.waiters)
    <3>1. z = <<x>> \o s.waiters
      OBVIOUS
    <3> HIDE DEF z
    <3>2. Prepended(z, x, s.waiters, WaiterIds)
      BY ONLY <2>3, <2>4, <3>1, PrependFacts
    <3> QED
      BY <3>2 DEF Prepended
  <2> HIDE DEF z
  <2>6. /\ r \in LcStates /\ r.waiters = z /\ r.effects = s.effects
        /\ r.closing = s.closing /\ r.slots = s.slots
    BY <2>2, <2>3, <2>5 DEF LcStates
  <2>7. Live(r) = Live(s)
    BY <2>6 DEF Live, In
  <2>8. Carried(r.slots, ToSet(r.waiters), a)
    <3>1. Carried(s.slots, ToSet(s.waiters), a)
      BY DEF Sound
    <3>2. \A j \in DOMAIN s.slots : s.slots[j].waiter \cap ({x} \cup ToSet(s.waiters)) = {}
      BY <2>1, <3>1 DEF Carried
    <3> QED
      BY <2>5, <2>6, <3>1, <3>2 DEF Carried
  <2>9. ToSet(r.waiters) \subseteq 1..a
    BY <2>1, <2>5, <2>6 DEF Sound
  <2> QED
    BY <1>2, <2>a, <2>5, <2>6, <2>7, <2>8, <2>9 DEF Sound
<1> QED
  BY <1>1, <1>2

\* A finite interval of new positions.
LEMMA GrownSize ==
    ASSUME NEW S, IsFiniteSet(S), NEW n \in Nat, S \subseteq 1..n, NEW m \in Nat
    PROVE  /\ IsFiniteSet(S \cup ((n + 1)..(n + m)))
           /\ Cardinality(S \cup ((n + 1)..(n + m))) = Cardinality(S) + m
<1> DEFINE N == (n + 1)..(n + m)
<1>1. IsFiniteSet(N) /\ Cardinality(N) = m
  BY FS_Interval
<1>2. S \cap N = {}
  OBVIOUS
<1> HIDE DEF N
<1>3. IsFiniteSet(S \cup N)
      /\ Cardinality(S \cup N) = Cardinality(S) + Cardinality(N) - Cardinality(S \cap N)
  BY <1>1, FS_Union
<1>4. Cardinality(S \cap N) = 0 /\ Cardinality(S) \in Nat
  BY <1>2, FS_EmptySet, FS_CardinalityType
<1> QED
  BY <1>1, <1>3, <1>4 DEF N

\* r is p followed by q
Joined(r, p, n, q, m) ==
    /\ n \in Nat /\ m \in Nat
    /\ DOMAIN r = 1..(n + m) /\ DOMAIN p = 1..n /\ DOMAIN q = 1..m
    /\ \A j \in 1..n : r[j] = p[j] /\ j \in DOMAIN r
    /\ \A k \in 1..m : r[n + k] = q[k] /\ n + k \in DOMAIN r /\ n + k \notin 1..n
    /\ \A j \in DOMAIN r : j \notin 1..n => \E k \in 1..m : j = n + k
    /\ \A k, u \in 1..m : n + k = n + u => k = u

\* The positions of a concatenation.
LEMMA ConcatFacts ==
    ASSUME NEW S, NEW p \in Seq(S), NEW q \in Seq(S),
           NEW n, n = Len(p), NEW m, m = Len(q), NEW r, r = p \o q
    PROVE  r \in Seq(S) /\ Joined(r, p, n, q, m)
<1>1. n \in Nat /\ m \in Nat /\ DOMAIN p = 1..n /\ DOMAIN q = 1..m
  OBVIOUS
<1>2. r \in Seq(S) /\ DOMAIN r = 1..(n + m)
  BY <1>1
<1>3. \A j \in 1..n : r[j] = p[j]
  BY <1>1
<1>4. \A k \in 1..m : r[n + k] = q[k]
  BY <1>1
<1>5. \A j \in 1..n : j \in 1..(n + m)
  BY <1>1
<1>6. \A k \in 1..m : n + k \in 1..(n + m) /\ n + k \notin 1..n
  BY <1>1
<1>7. \A j \in 1..(n + m) : j \notin 1..n => \E k \in 1..m : j = n + k
  <2> TAKE j \in 1..(n + m)
  <2> HAVE j \notin 1..n
  <2>1. j - n \in 1..m /\ j = n + (j - n)
    BY <1>1
  <2> QED
    BY <2>1
<1>8. \A k, u \in 1..m : n + k = n + u => k = u
  BY <1>1
<1> QED
  BY <1>1, <1>2, <1>3, <1>4, <1>5, <1>6, <1>7, <1>8 DEF Joined

\* r is s, which had n slots, with a new slot for each element of ws
Opened(r, s, n, ws) ==
    /\ r \in LcStates /\ r.waiters = s.waiters /\ r.closing = s.closing
    /\ DOMAIN r.slots = 1..(n + Len(ws))
    /\ \A j \in 1..n : r.slots[j] = s.slots[j]
    /\ \A k \in 1..Len(ws) :
         r.slots[n + k].st = "Opening" /\ r.slots[n + k].waiter = ws[k]
    /\ ToSet(r.effects)
         = ToSet(s.effects) \cup {Effect("Open", n + k) : k \in 1..Len(ws)}
    /\ OneToOne(s.effects)
         /\ (\A k \in 1..Len(ws) : Effect("Open", n + k) \notin ToSet(s.effects))
         => OneToOne(r.effects)

\* What open_slot does, once for each element of ws.
LEMMA OpenSlotsFacts ==
    ASSUME NEW s \in LcStates, NEW ws \in Seq(SUBSET WaiterIds), NEW n, n = Len(s.slots),
           NEW r, r = OpenSlots(s, ws)
    PROVE  Opened(r, s, n, ws)
<1> DEFINE m == Len(ws)
           new == [k \in DOMAIN ws |-> Slot("Opening", ws[k])]
           ask == [k \in DOMAIN ws |-> Effect("Open", Len(s.slots) + k)]
           p == s.slots \o new
           e == s.effects \o ask
<1>1. /\ s.slots \in Seq(SlotRecs) /\ s.effects \in Seq(Effects)
      /\ n \in Nat /\ DOMAIN s.slots = 1..n
      /\ Len(s.effects) \in Nat /\ DOMAIN s.effects = 1..Len(s.effects)
  BY LcFields
<1>2. DOMAIN ws = 1..m /\ m \in Nat /\ \A k \in 1..m : ws[k] \in SUBSET WaiterIds
  OBVIOUS
<1>3. /\ new \in Seq(SlotRecs) /\ Len(new) = m /\ DOMAIN new = 1..m
      /\ \A k \in 1..m : new[k] = Slot("Opening", ws[k])
  <2>1. \A k \in 1..m : Slot("Opening", ws[k]) \in SlotRecs
    BY <1>2 DEF Slot, SlotRecs, SlotStates
  <2>2. new \in [1..m -> SlotRecs]
    BY <1>2, <2>1
  <2> QED
    BY <1>2, <2>2
<1>4. /\ ask \in Seq(Effects) /\ Len(ask) = m /\ DOMAIN ask = 1..m
      /\ \A k \in 1..m : ask[k] = Effect("Open", n + k)
  <2>1. \A k \in 1..m : Effect("Open", n + k) \in Effects
    BY <1>1, <1>2 DEF Effect, Effects, Kinds
  <2>2. ask \in [1..m -> Effects]
    BY <1>2, <2>1
  <2> QED
    BY <1>2, <2>2
<1>5. r = [s EXCEPT !.slots = p, !.effects = e]
  BY DEF OpenSlots, LcStates
<1> DEFINE l == Len(s.effects)
<1>c. n = Len(s.slots) /\ m = Len(new) /\ l = Len(s.effects) /\ m = Len(ask)
      /\ p = s.slots \o new /\ e = s.effects \o ask
  BY <1>3, <1>4
<1> HIDE DEF new, ask, m, p, e, l
<1>6. /\ p \in Seq(SlotRecs) /\ DOMAIN p = 1..(n + m)
      /\ \A j \in 1..n : p[j] = s.slots[j]
      /\ \A k \in 1..m : p[n + k] = new[k]
  <2>1. p \in Seq(SlotRecs) /\ Joined(p, s.slots, n, new, m)
    BY ONLY <1>1, <1>3, <1>c, ConcatFacts
  <2> QED
    BY <2>1 DEF Joined
<1>7. /\ l \in Nat /\ e \in Seq(Effects) /\ DOMAIN s.effects = 1..l
      /\ \A j \in 1..l : e[j] = s.effects[j] /\ j \in DOMAIN e
      /\ \A k \in 1..m : e[l + k] = ask[k] /\ l + k \in DOMAIN e
      /\ \A j \in DOMAIN e : j \notin 1..l => \E k \in 1..m : j = l + k
  <2>1. e \in Seq(Effects) /\ Joined(e, s.effects, l, ask, m)
    BY ONLY <1>1, <1>4, <1>c, ConcatFacts
  <2> QED
    BY <2>1 DEF Joined
<1>8. /\ r \in LcStates /\ r.waiters = s.waiters /\ r.effects = e
      /\ r.closing = s.closing /\ r.slots = p
  BY <1>5, <1>6, <1>7 DEF LcStates
<1>9. \A k \in 1..m : p[n + k].st = "Opening" /\ p[n + k].waiter = ws[k]
  BY <1>3, <1>6 DEF Slot
<1>10. \A j \in DOMAIN e : j \notin 1..l =>
          \E k \in 1..m : j = l + k /\ e[j] = Effect("Open", n + k)
  BY <1>4, <1>7
<1>11. ToSet(e) = ToSet(s.effects) \cup {Effect("Open", n + k) : k \in 1..m}
  <2>1. ASSUME NEW y \in ToSet(e)
        PROVE  y \in ToSet(s.effects) \cup {Effect("Open", n + k) : k \in 1..m}
    <3>1. PICK j \in DOMAIN e : e[j] = y
      BY DEF ToSet
    <3>2. CASE j \in 1..l
      BY <1>7, <3>1, <3>2 DEF ToSet
    <3>3. CASE j \notin 1..l
      BY <1>10, <3>1, <3>3
    <3> QED
      BY <3>2, <3>3
  <2>2. ASSUME NEW y \in ToSet(s.effects) PROVE y \in ToSet(e)
    <3>1. PICK j \in 1..l : s.effects[j] = y
      BY <1>7 DEF ToSet
    <3>2. j \in DOMAIN e /\ e[j] = y
      BY <1>7, <3>1
    <3> QED
      BY <3>2 DEF ToSet
  <2>3. ASSUME NEW k \in 1..m PROVE Effect("Open", n + k) \in ToSet(e)
    <3>1. l + k \in DOMAIN e /\ e[l + k] = Effect("Open", n + k)
      BY <1>4, <1>7
    <3> QED
      BY <3>1 DEF ToSet
  <2> QED
    BY <2>1, <2>2, <2>3
<1>12. ASSUME OneToOne(s.effects),
              \A k \in 1..m : Effect("Open", n + k) \notin ToSet(s.effects)
       PROVE  OneToOne(e)
  <2> SUFFICES ASSUME NEW i \in DOMAIN e, NEW j \in DOMAIN e, e[i] = e[j]
               PROVE  i = j
    BY DEF OneToOne
  <2>1. \A x \in DOMAIN e : x \in 1..l =>
          /\ e[x] = s.effects[x]
          /\ \A k \in 1..m : Effect("Open", n + k) # e[x]
    BY <1>7, <1>12 DEF ToSet
  <2>2. CASE i \in 1..l /\ j \in 1..l
    BY <1>7, <1>12, <2>1, <2>2 DEF OneToOne
  <2>3. CASE i \in 1..l /\ j \notin 1..l
    BY <1>10, <2>1, <2>3
  <2>4. CASE i \notin 1..l /\ j \in 1..l
    BY <1>10, <2>1, <2>4
  <2>5. CASE i \notin 1..l /\ j \notin 1..l
    <3>1. PICK k \in 1..m : i = l + k /\ e[i] = Effect("Open", n + k)
      BY <1>10, <2>5
    <3>2. PICK u \in 1..m : j = l + u /\ e[j] = Effect("Open", n + u)
      BY <1>10, <2>5
    <3>3. n + k = n + u
      BY <3>1, <3>2 DEF Effect
    <3>4. k = u
      BY <1>1, <1>2, <3>3
    <3> QED
      BY <3>1, <3>2, <3>4
  <2> QED
    BY <2>2, <2>3, <2>4, <2>5
<1> QED
  BY <1>6, <1>8, <1>9, <1>11, <1>12 DEF m, Opened

\* New slots for waiters that are nowhere else, or for none, while there is room.
LEMMA OpenSlotsSound ==
    ASSUME NEW s, NEW a, NEW O, Sound(s, a, O, {}), NEW ws \in Seq(SUBSET WaiterIds),
           \A k \in 1..Len(ws) :
              /\ ws[k] \subseteq 1..a /\ ws[k] \cap ToSet(s.waiters) = {}
              /\ \A x, y \in ws[k] : x = y
              /\ \A j \in DOMAIN s.slots : s.slots[j].waiter \cap ws[k] = {},
           \A k, u \in 1..Len(ws) : (\E x \in ws[k] : x \in ws[u]) => k = u,
           Cardinality(Live(s)) + Len(ws) <= SlotMax,
           NEW r, r = OpenSlots(s, ws)
    PROVE  /\ Sound(r, a, O, {}) /\ r.waiters = s.waiters /\ r.closing = s.closing
           /\ Cardinality(Live(r)) = Cardinality(Live(s)) + Len(ws)
           /\ In(r, {"Idle"}) = In(s, {"Idle"})
<1> DEFINE n == Len(s.slots)
           m == Len(ws)
<1>1. s \in LcStates /\ m \in Nat
  BY DEF Sound
<1>2. n \in Nat /\ DOMAIN s.slots = 1..n
  BY <1>1, LcFields
<1>a. Opened(r, s, n, ws)
  BY <1>1, OpenSlotsFacts
<1>3. /\ r \in LcStates /\ r.waiters = s.waiters /\ r.closing = s.closing
      /\ DOMAIN r.slots = 1..(n + m)
      /\ \A j \in 1..n : r.slots[j] = s.slots[j]
      /\ \A k \in 1..m : r.slots[n + k].st = "Opening" /\ r.slots[n + k].waiter = ws[k]
      /\ ToSet(r.effects) = ToSet(s.effects) \cup {Effect("Open", n + k) : k \in 1..m}
  BY <1>a DEF Opened
<1>4. OneToOne(s.effects)
        /\ (\A k \in 1..m : Effect("Open", n + k) \notin ToSet(s.effects))
        => OneToOne(r.effects)
  BY <1>a DEF Opened
<1>5. Matched(s.slots, ToSet(s.effects), O, {}) /\ Carried(s.slots, ToSet(s.waiters), a)
      /\ ToSet(s.effects) \cap O = {} /\ OneToOne(s.effects)
  BY DEF Sound
<1> HIDE DEF n, m
<1>6. /\ \A k \in 1..m : n + k \notin 1..n /\ n + k \in Nat /\ n + k \in 1..(n + m)
      /\ \A k, u \in 1..m : n + k = n + u => k = u
      /\ \A j \in 1..n : j \in 1..(n + m) /\ j \in Nat
      /\ \A j \in 1..(n + m) : j \notin 1..n => \E k \in 1..m : j = n + k
  <2>1. \A k \in 1..m : n + k \notin 1..n /\ n + k \in Nat /\ n + k \in 1..(n + m)
    BY <1>1, <1>2
  <2>2. \A k, u \in 1..m : n + k = n + u => k = u
    BY <1>1, <1>2
  <2>3. \A j \in 1..n : j \in 1..(n + m) /\ j \in Nat
    BY <1>1, <1>2
  <2>4. \A j \in 1..(n + m) : j \notin 1..n => \E k \in 1..m : j = n + k
    <3> TAKE j \in 1..(n + m)
    <3> HAVE j \notin 1..n
    <3>1. j - n \in 1..m /\ j = n + (j - n)
      BY <1>1, <1>2
    <3> QED
      BY <3>1
  <2> QED
    BY <2>1, <2>2, <2>3, <2>4
<1>7. \A k \in 1..m : Effect("Open", n + k) \notin ToSet(s.effects) \cup O
  BY <1>2, <1>5, <1>6 DEF Matched, Kinds
<1>8. Matched(r.slots, ToSet(r.effects), O, {})
  <2> SUFFICES ASSUME NEW k \in Kinds, NEW j \in Nat
               PROVE  Effect(k, j) \in ToSet(r.effects) \cup O
                        <=> j \in DOMAIN r.slots /\ Asks(r.slots[j].st, k)
    BY DEF Matched
  <2>1. Effect(k, j) \in ToSet(s.effects) \cup O
          <=> j \in DOMAIN s.slots /\ Asks(s.slots[j].st, k)
    BY <1>5 DEF Matched
  <2>2. \A i : Effect(k, j) = Effect("Open", i) <=> k = "Open" /\ j = i
    BY DEF Effect
  <2>3. Asks("Opening", k) <=> k = "Open"
    BY DEF Asks
  <2>4. CASE j \in 1..n
    BY <1>2, <1>3, <1>6, <2>1, <2>2, <2>4
  <2>5. CASE j \notin 1..n
    <3>1. Effect(k, j) \notin ToSet(s.effects) \cup O
      BY <1>2, <2>1, <2>5
    <3>2. CASE j \in 1..(n + m)
      <4>1. PICK u \in 1..m : j = n + u
        BY <1>6, <2>5, <3>2
      <4> QED
        BY <1>3, <2>2, <2>3, <3>1, <3>2, <4>1
    <3>3. CASE j \notin 1..(n + m)
      BY <1>3, <1>6, <2>2, <3>1, <3>3
    <3> QED
      BY <3>2, <3>3
  <2> QED
    BY <2>4, <2>5
<1>9. ToSet(r.effects) \cap O = {} /\ OneToOne(r.effects)
  BY <1>3, <1>4, <1>5, <1>7
<1>10. Carried(r.slots, ToSet(r.waiters), a)
  <2>1. \A j \in 1..n : r.slots[j].waiter = s.slots[j].waiter
    BY <1>3
  <2>2. \A j \in 1..(n + m) :
          /\ r.slots[j].waiter \subseteq 1..a /\ r.slots[j].waiter \cap ToSet(r.waiters) = {}
          /\ \A x, y \in r.slots[j].waiter : x = y
    <3> TAKE j \in 1..(n + m)
    <3>1. CASE j \in 1..n
      BY <1>2, <1>3, <1>5, <2>1, <3>1 DEF Carried
    <3>2. CASE j \notin 1..n
      <4>1. PICK u \in 1..m : j = n + u
        BY <1>6, <3>2
      <4>2. r.slots[j].waiter = ws[u]
        BY <1>3, <4>1
      <4> QED
        BY <1>3, <4>2 DEF m
    <3> QED
      BY <3>1, <3>2
  <2>3. ASSUME NEW i \in 1..(n + m), NEW j \in 1..(n + m), NEW x,
               x \in r.slots[i].waiter, x \in r.slots[j].waiter
        PROVE  i = j
    <3>1. CASE i \in 1..n /\ j \in 1..n
      BY <1>2, <1>5, <2>1, <2>3, <3>1 DEF Carried
    <3>2. CASE i \in 1..n /\ j \notin 1..n
      <4>1. PICK u \in 1..m : j = n + u
        BY <1>6, <3>2
      <4>2. x \in ws[u] /\ x \in s.slots[i].waiter
        BY <1>3, <2>1, <2>3, <3>2, <4>1
      <4> QED
        BY <1>2, <3>2, <4>2 DEF m
    <3>3. CASE i \notin 1..n /\ j \in 1..n
      <4>1. PICK u \in 1..m : i = n + u
        BY <1>6, <3>3
      <4>2. x \in ws[u] /\ x \in s.slots[j].waiter
        BY <1>3, <2>1, <2>3, <3>3, <4>1
      <4> QED
        BY <1>2, <3>3, <4>2 DEF m
    <3>4. CASE i \notin 1..n /\ j \notin 1..n
      <4>1. PICK u \in 1..m : i = n + u
        BY <1>6, <3>4
      <4>2. PICK v \in 1..m : j = n + v
        BY <1>6, <3>4
      <4>3. x \in ws[u] /\ x \in ws[v]
        BY <1>3, <2>3, <4>1, <4>2
      <4>4. u = v
        BY <4>3 DEF m
      <4> QED
        BY <4>1, <4>2, <4>4
    <3> QED
      BY <3>1, <3>2, <3>3, <3>4
  <2> QED
    BY <1>3, <2>2, <2>3 DEF Carried
<1>11. Live(r) = Live(s) \cup ((n + 1)..(n + m))
  <2>1. /\ Live(r) = {i \in DOMAIN r.slots : r.slots[i].st # "Closed"}
        /\ Live(s) = {i \in DOMAIN s.slots : s.slots[i].st # "Closed"}
    BY <1>1, <1>3, LiveFacts
  <2>2. (n + 1)..(n + m) = (1..(n + m)) \ (1..n)
    BY <1>1, <1>2
  <2>3. \A j \in (1..(n + m)) \ (1..n) : r.slots[j].st = "Opening"
    BY <1>3, <1>6
  <2> QED
    BY <1>2, <1>3, <1>6, <2>1, <2>2, <2>3
<1>12. Cardinality(Live(r)) = Cardinality(Live(s)) + m
  <2>1. IsFiniteSet(Live(s)) /\ Live(s) \subseteq 1..n
    BY <1>1, LiveFacts DEF n
  <2>2. \A S : IsFiniteSet(S) /\ S \subseteq 1..n =>
            Cardinality(S \cup ((n + 1)..(n + m))) = Cardinality(S) + m
    BY <1>1, <1>2, GrownSize DEF m
  <2> QED
    BY <1>11, <2>1, <2>2
<1>13. In(r, {"Idle"}) = In(s, {"Idle"})
  <2>1. \A j \in (1..(n + m)) \ (1..n) : r.slots[j].st = "Opening"
    BY <1>3, <1>6
  <2> QED
    BY <1>2, <1>3, <1>6, <2>1 DEF In
<1>14. Cardinality(Live(r)) <= SlotMax
  BY <1>12 DEF m
<1> QED
  BY <1>3, <1>8, <1>9, <1>10, <1>12, <1>13, <1>14 DEF Sound, m

\* ensure_min_opening keeps the pool sound and restores min.
LEMMA EnsureMinSound ==
    ASSUME NEW s, NEW a, NEW O, Sound(s, a, O, {}), Driven(s),
           NEW r, r = EnsureMinOpening(s)
    PROVE  Sound(r, a, O, {}) /\ Driven(r) /\ Enough(r)
<1>1. CASE s.closing
  BY <1>1 DEF EnsureMinOpening, Enough
<1>2. CASE ~s.closing
  <2> DEFINE L == Cardinality(Live(s))
             m == Max({0, SlotMin - L})
             ws == [k \in 1..m |-> {}]
  <2>1. s \in LcStates /\ L <= SlotMax
    BY DEF Sound
  <2>2. L \in Nat /\ SlotMin \in Nat /\ SlotMax \in Nat /\ SlotMin <= SlotMax
    BY <2>1, LiveFacts, LifecycleAssumption
  <2>3. m = IF 0 >= SlotMin - L THEN 0 ELSE SlotMin - L
    BY <2>2, MaxTwo
  <2>4. r = OpenSlots(s, ws)
    BY <1>2 DEF EnsureMinOpening
  <2> HIDE DEF L, m
  <2>5. m \in Nat /\ L + m <= SlotMax /\ L + m >= SlotMin
    BY <2>1, <2>2, <2>3
  <2>6. ws \in Seq(SUBSET WaiterIds) /\ Len(ws) = m /\ \A k \in 1..m : ws[k] = {}
    <3>1. ws \in [1..m -> SUBSET WaiterIds]
      OBVIOUS
    <3> QED
      BY <2>5, <3>1
  <2> HIDE DEF ws
  <2>7. /\ Sound(r, a, O, {}) /\ r.waiters = s.waiters /\ r.closing = s.closing
        /\ Cardinality(Live(r)) = L + m /\ In(r, {"Idle"}) = In(s, {"Idle"})
    BY <2>4, <2>5, <2>6, OpenSlotsSound DEF L
  <2>8. Enough(r)
    BY <2>5, <2>7 DEF Enough
  <2>9. Driven(r)
    <3> SUFFICES ASSUME r.waiters # <<>>
                 PROVE  In(r, {"Idle"}) = {} /\ Cardinality(Live(r)) = SlotMax
      BY DEF Driven
    <3>1. In(s, {"Idle"}) = {} /\ L = SlotMax
      BY <2>7 DEF Driven, L
    <3>2. m = 0
      BY <2>2, <2>3, <3>1
    <3> QED
      BY <2>2, <2>7, <3>1, <3>2
  <2> QED
    BY <2>7, <2>8, <2>9
<1> QED
  BY <1>1, <1>2

-----------------------------------------------------------------------------
(* drive_waiters *)

\* the idle slots that are pinged, how many, and how many slots are opened
IdleSlots(s) == InOrder(In(s, {"Idle"}))
Reuse(s) == Min({Len(s.waiters), Len(IdleSlots(s))})
Fresh(s) == Min({Len(s.waiters) - Reuse(s), Max({0, SlotMax - Cardinality(Live(s))})})
Taken(s) == {IdleSlots(s)[j] : j \in 1..Reuse(s)}
Ping(s, k) == CHOOSE j \in 1..Reuse(s) : IdleSlots(s)[j] = k
Pinged(s) ==
    [s EXCEPT
        !.slots = [k \in DOMAIN s.slots |->
            IF k \in Taken(s) THEN Slot("Validating", {s.waiters[Ping(s, k)]})
                              ELSE s.slots[k]],
        !.effects = s.effects \o [j \in 1..Reuse(s) |-> Effect("Ping", IdleSlots(s)[j])],
        !.waiters = SubSeq(s.waiters, Reuse(s) + Fresh(s) + 1, Len(s.waiters))]
Opens(s) == [k \in 1..Fresh(s) |-> {s.waiters[Reuse(s) + k]}]

\* drive_waiters in two parts.
LEMMA DriveParts ==
    ASSUME NEW s \in LcStates, ~s.closing
    PROVE  DriveWaiters(s) = OpenSlots(Pinged(s), Opens(s))
BY DEF DriveWaiters, Pinged, Opens, Ping, Taken, Fresh, Reuse, IdleSlots, LcStates

\* How many waiters are served, and when some are left.
LEMMA DriveCounts ==
    ASSUME NEW s \in LcStates, Cardinality(Live(s)) <= SlotMax
    PROVE  /\ Reuse(s) \in Nat /\ Fresh(s) \in Nat
           /\ Reuse(s) <= Len(IdleSlots(s)) /\ Reuse(s) + Fresh(s) <= Len(s.waiters)
           /\ Cardinality(Live(s)) + Fresh(s) <= SlotMax
           /\ Reuse(s) + Fresh(s) < Len(s.waiters) =>
                /\ Reuse(s) = Len(IdleSlots(s))
                /\ Cardinality(Live(s)) + Fresh(s) = SlotMax
<1> DEFINE n == Len(s.waiters)
           c == Len(IdleSlots(s))
           L == Cardinality(Live(s))
<1>1. n \in Nat /\ L \in Nat /\ SlotMax \in Nat
  BY LcFields, LiveFacts, LifecycleAssumption
<1>2. c \in Nat
  <2>1. In(s, {"Idle"}) \in SUBSET (1..Len(s.slots)) /\ Len(s.slots) \in Nat
    BY LcFields DEF In
  <2>2. Lists(IdleSlots(s), In(s, {"Idle"}))
    BY <2>1, InOrderFacts DEF IdleSlots
  <2> QED
    BY <2>2 DEF Lists
<1>3. Reuse(s) = IF n <= c THEN n ELSE c
  BY <1>1, <1>2, MinTwo DEF Reuse
<1>4. Max({0, SlotMax - L}) = SlotMax - L
  <2>1. Max({0, SlotMax - L}) = IF 0 >= SlotMax - L THEN 0 ELSE SlotMax - L
    BY <1>1, MaxTwo
  <2> QED
    BY <1>1, <2>1
<1>5. Reuse(s) \in Nat /\ Reuse(s) <= c /\ Reuse(s) <= n
  BY <1>1, <1>2, <1>3
<1>6. Fresh(s) = IF n - Reuse(s) <= SlotMax - L THEN n - Reuse(s) ELSE SlotMax - L
  <2>1. Fresh(s) = Min({n - Reuse(s), SlotMax - L})
    BY <1>4 DEF Fresh
  <2>2. n - Reuse(s) \in Int /\ SlotMax - L \in Int
    BY <1>1, <1>5
  <2> QED
    BY <2>1, <2>2, MinTwo
<1> HIDE DEF n, c, L
<1>7. Fresh(s) \in Nat /\ Reuse(s) + Fresh(s) <= n /\ L + Fresh(s) <= SlotMax
  BY <1>1, <1>5, <1>6 DEF L
<1>8. Reuse(s) + Fresh(s) < n => Reuse(s) = c /\ L + Fresh(s) = SlotMax
  BY <1>1, <1>2, <1>3, <1>5, <1>6, <1>7 DEF L
<1> QED
  BY <1>5, <1>7, <1>8 DEF n, c, L

\* The idle slots, one by one.
LEMMA IdleFacts ==
    ASSUME NEW s \in LcStates
    PROVE  LET idle == IdleSlots(s) IN
           /\ Len(idle) \in Nat
           /\ \A j \in 1..Len(idle) : /\ idle[j] \in DOMAIN s.slots /\ idle[j] \in Nat
                                      /\ s.slots[idle[j]].st = "Idle"
           /\ \A j, u \in 1..Len(idle) : idle[j] = idle[u] => j = u
           /\ \A k \in In(s, {"Idle"}) : \E j \in 1..Len(idle) : idle[j] = k
<1> DEFINE I == In(s, {"Idle"})
<1>1. I = {i \in DOMAIN s.slots : s.slots[i].st = "Idle"}
  BY DEF In
<1>2. I \in SUBSET (1..Len(s.slots)) /\ Len(s.slots) \in Nat
      /\ DOMAIN s.slots = 1..Len(s.slots)
  BY <1>1, LcFields
<1> HIDE DEF I
<1>3. Lists(InOrder(I), I)
  BY <1>2, InOrderFacts
<1>4. IdleSlots(s) = InOrder(I)
  BY DEF IdleSlots, I
<1>5. \A k \in I : k \in DOMAIN s.slots /\ k \in Nat /\ s.slots[k].st = "Idle"
  BY <1>1, <1>2
<1> QED
  BY <1>3, <1>4, <1>5 DEF I, Lists

\* The slots pinged: each has a waiter of its own.
LEMMA TakenFacts ==
    ASSUME NEW s \in LcStates, Cardinality(Live(s)) <= SlotMax
    PROVE  /\ Taken(s) \subseteq In(s, {"Idle"})
           /\ \A k \in Taken(s) :
                /\ k \in DOMAIN s.slots /\ k \in Nat /\ s.slots[k].st = "Idle"
                /\ Ping(s, k) \in 1..Reuse(s) /\ IdleSlots(s)[Ping(s, k)] = k
           /\ \A k, u \in Taken(s) : Ping(s, k) = Ping(s, u) => k = u
           /\ Reuse(s) = Len(IdleSlots(s)) => Taken(s) = In(s, {"Idle"})
<1>1. Reuse(s) \in Nat /\ Reuse(s) <= Len(IdleSlots(s)) /\ Len(IdleSlots(s)) \in Nat
  BY DriveCounts, IdleFacts
<1>2. \A j \in 1..Reuse(s) : j \in 1..Len(IdleSlots(s))
  BY <1>1
<1>3. \A j \in 1..Reuse(s) : /\ IdleSlots(s)[j] \in DOMAIN s.slots /\ IdleSlots(s)[j] \in Nat
                             /\ s.slots[IdleSlots(s)[j]].st = "Idle"
  BY <1>2, IdleFacts
<1>4. \A k \in Taken(s) : Ping(s, k) \in 1..Reuse(s) /\ IdleSlots(s)[Ping(s, k)] = k
  BY DEF Taken, Ping
<1>5. \A k \in Taken(s) : k \in DOMAIN s.slots /\ k \in Nat /\ s.slots[k].st = "Idle"
  BY <1>3 DEF Taken
<1>6. \A k, u \in Taken(s) : Ping(s, k) = Ping(s, u) => k = u
  BY <1>4
<1>7. Taken(s) \subseteq In(s, {"Idle"})
  BY <1>5 DEF In
<1>8. Reuse(s) = Len(IdleSlots(s)) => Taken(s) = In(s, {"Idle"})
  <2>1. \A k \in In(s, {"Idle"}) : \E j \in 1..Len(IdleSlots(s)) : IdleSlots(s)[j] = k
    BY IdleFacts
  <2> QED
    BY <1>7, <2>1 DEF Taken
<1> QED
  BY <1>4, <1>5, <1>6, <1>7, <1>8

\* r is what is left of q without its first x members
Rest(r, q, x, S) ==
    /\ r \in Seq(S) /\ OneToOne(r) /\ ToSet(r) \subseteq ToSet(q)
    /\ \A j \in 1..x : q[j] \notin ToSet(r) /\ q[j] \in ToSet(q)
    /\ r # <<>> => x < Len(q)

\* The waiters that stay in the queue.
LEMMA RestFacts ==
    ASSUME NEW S, NEW q \in Seq(S), OneToOne(q), NEW x \in Nat, x <= Len(q),
           NEW r, r = SubSeq(q, x + 1, Len(q))
    PROVE  Rest(r, q, x, S)
<1>1. PICK n \in Nat : n = Len(q) /\ DOMAIN q = 1..n /\ x <= n
  OBVIOUS
<1>2. /\ r \in Seq(S) /\ Len(r) = n - x /\ DOMAIN r = 1..(n - x)
      /\ \A j \in 1..(n - x) : r[j] = q[x + j]
  <2>1. \A i \in (x + 1)..n : q[i] \in S
    BY <1>1
  <2>2. /\ r \in Seq(S)
        /\ Len(r) = IF x + 1 <= n THEN n - (x + 1) + 1 ELSE 0
        /\ \A i \in 1..(n - (x + 1) + 1) : r[i] = q[(x + 1) + i - 1]
    BY <1>1, <2>1, SubSeqProperties, SMTT(40)
  <2>3. (IF x + 1 <= n THEN n - (x + 1) + 1 ELSE 0) = n - x
        /\ n - (x + 1) + 1 = n - x /\ n - x \in Nat
    BY ONLY <1>1, x \in Nat
  <2>4. \A i \in 1..(n - x) : (x + 1) + i - 1 = x + i
    BY ONLY <1>1, x \in Nat
  <2>5. \A i \in 1..(n - x) : r[i] = q[x + i]
    BY <2>2, <2>3, <2>4
  <2> QED
    BY <2>2, <2>3, <2>5
<1>3. \A j \in DOMAIN r : x + j \in DOMAIN q /\ r[j] = q[x + j] /\ x + j \notin 1..x
  <2>1. \A j \in 1..(n - x) : x + j \in 1..n /\ x + j \notin 1..x
    BY ONLY <1>1, x \in Nat
  <2> QED
    BY <1>1, <1>2, <2>1
<1>4. OneToOne(r)
  <2> SUFFICES ASSUME NEW i \in DOMAIN r, NEW j \in DOMAIN r, r[i] = r[j]
               PROVE  i = j
    BY DEF OneToOne
  <2>1. x + i = x + j
    BY <1>3 DEF OneToOne
  <2> QED
    BY <1>1, <1>2, <2>1
<1>5. ToSet(r) \subseteq ToSet(q)
  BY <1>3 DEF ToSet
<1>6. \A j \in 1..x : j \in DOMAIN q
  BY <1>1
<1>7. \A j \in 1..x : q[j] \notin ToSet(r) /\ q[j] \in ToSet(q)
  <2> TAKE j \in 1..x
  <2>1. \A i \in DOMAIN r : r[i] # q[j]
    BY <1>3, <1>6 DEF OneToOne
  <2> QED
    BY <1>6, <2>1 DEF ToSet
<1>8. ASSUME r # <<>> PROVE x < Len(q)
  <2>1. Len(r) # 0
    BY <1>2, <1>8
  <2>2. n - x # 0
    BY <1>2, <2>1
  <2>3. x < n
    BY ONLY <1>1, x \in Nat, <2>2
  <2> QED
    BY <1>1, <2>3
<1> QED
  BY <1>2, <1>4, <1>5, <1>7, <1>8 DEF Rest

\* r is s with the first waiters on their way to idle slots
PingedFacts(r, s) ==
    /\ r \in LcStates /\ r.closing = s.closing /\ DOMAIN r.slots = DOMAIN s.slots
    /\ \A k \in DOMAIN s.slots :
        IF k \in Taken(s)
        THEN r.slots[k].st = "Validating" /\ r.slots[k].waiter = {s.waiters[Ping(s, k)]}
        ELSE r.slots[k] = s.slots[k]
    /\ ToSet(r.effects) = ToSet(s.effects) \cup {Effect("Ping", k) : k \in Taken(s)}
    /\ OneToOne(r.effects)
    /\ OneToOne(r.waiters) /\ ToSet(r.waiters) \subseteq ToSet(s.waiters)
    /\ \A j \in 1..(Reuse(s) + Fresh(s)) :
        s.waiters[j] \notin ToSet(r.waiters) /\ s.waiters[j] \in ToSet(s.waiters)
    /\ r.waiters # <<>> => Reuse(s) + Fresh(s) < Len(s.waiters)

\* The state after the pings, field by field.
LEMMA PingedFields ==
    ASSUME NEW s, NEW a, NEW O, Sound(s, a, O, {}), NEW r, r = Pinged(s)
    PROVE  PingedFacts(r, s)
<1> DEFINE f == Reuse(s)
           g == Fresh(s)
           q == s.waiters
           z == [k \in DOMAIN s.slots |->
                    IF k \in Taken(s) THEN Slot("Validating", {q[Ping(s, k)]})
                                      ELSE s.slots[k]]
           ask == [j \in 1..f |-> Effect("Ping", IdleSlots(s)[j])]
           e == s.effects \o ask
           y == SubSeq(q, f + g + 1, Len(q))
<1>1. s \in LcStates /\ Cardinality(Live(s)) <= SlotMax /\ OneToOne(q)
      /\ OneToOne(s.effects)
  BY DEF Sound
<1>2. /\ f \in Nat /\ g \in Nat /\ f + g \in Nat /\ f <= Len(IdleSlots(s))
      /\ f + g <= Len(q)
  BY <1>1, DriveCounts
<1>3. /\ s.slots \in Seq(SlotRecs) /\ q \in Seq(WaiterIds) /\ s.effects \in Seq(Effects)
      /\ DOMAIN s.slots = 1..Len(s.slots) /\ Len(s.slots) \in Nat
      /\ Len(q) \in Nat /\ DOMAIN q = 1..Len(q)
      /\ \A i \in DOMAIN s.slots : s.slots[i] \in SlotRecs
  BY <1>1, LcFields
<1>4. \A k \in Taken(s) :
        /\ k \in DOMAIN s.slots /\ k \in Nat /\ s.slots[k].st = "Idle"
        /\ Ping(s, k) \in 1..f /\ IdleSlots(s)[Ping(s, k)] = k
  BY <1>1, TakenFacts
<1>5. \A j \in 1..f : j \in DOMAIN q /\ q[j] \in WaiterIds
  <2>1. \A j \in 1..f : j \in 1..Len(q)
    BY <1>2, <1>3
  <2> QED
    BY <1>3, <2>1
<1>6. r = [s EXCEPT !.slots = z, !.effects = e, !.waiters = y]
  BY DEF Pinged
<1>7. z \in Seq(SlotRecs) /\ DOMAIN z = DOMAIN s.slots
  <2>1. \A k \in Taken(s) : Slot("Validating", {q[Ping(s, k)]}) \in SlotRecs
    BY <1>4, <1>5 DEF Slot, SlotRecs, SlotStates
  <2>2. z \in [1..Len(s.slots) -> SlotRecs]
    BY <1>3, <2>1
  <2> QED
    BY <1>3, <2>2
<1>8. \A k \in DOMAIN s.slots :
        IF k \in Taken(s)
        THEN z[k].st = "Validating" /\ z[k].waiter = {q[Ping(s, k)]}
        ELSE z[k] = s.slots[k]
  BY DEF Slot
<1>9. \A j \in 1..f : IdleSlots(s)[j] \in Taken(s)
  BY DEF Taken
<1>10. ask \in Seq(Effects) /\ Len(ask) = f /\ DOMAIN ask = 1..f
  <2>1. \A j \in 1..f : Effect("Ping", IdleSlots(s)[j]) \in Effects
    BY <1>4, <1>9 DEF Effect, Effects, Kinds
  <2>2. ask \in [1..f -> Effects]
    BY <2>1
  <2> QED
    BY <1>2, <2>2
<1>11. \A j \in 1..f : ask[j] = Effect("Ping", IdleSlots(s)[j])
  OBVIOUS
<1>12. PICK l : l = Len(s.effects)
  OBVIOUS
<1> HIDE DEF f, g, z, ask
<1>13. e \in Seq(Effects) /\ Joined(e, s.effects, l, ask, f)
  BY <1>3, <1>10, <1>12, ConcatFacts
<1>14. /\ y \in Seq(WaiterIds) /\ OneToOne(y) /\ ToSet(y) \subseteq ToSet(q)
       /\ \A j \in 1..(f + g) : q[j] \notin ToSet(y) /\ q[j] \in ToSet(q)
       /\ y # <<>> => f + g < Len(q)
  <2>1. PICK x \in Nat : x = f + g
    BY <1>2
  <2>2. x <= Len(q) /\ y = SubSeq(q, x + 1, Len(q))
    BY <1>2, <2>1
  <2> HIDE DEF y
  <2>3. q \in Seq(WaiterIds) /\ OneToOne(q)
    BY <1>1, <1>3
  <2>4. Rest(y, q, x, WaiterIds)
    BY ONLY <2>2, <2>3, x \in Nat, RestFacts
  <2> QED
    BY <2>1, <2>4 DEF Rest
<1> HIDE DEF e, y
<1>15. /\ r \in LcStates /\ r.waiters = y /\ r.effects = e /\ r.slots = z
       /\ r.closing = s.closing
  BY <1>1, <1>6, <1>7, <1>13, <1>14 DEF LcStates
<1>16. \A j \in DOMAIN e : j \notin 1..l =>
         \E k \in 1..f : j = l + k /\ e[j] = Effect("Ping", IdleSlots(s)[k])
  <2> TAKE j \in DOMAIN e
  <2> HAVE j \notin 1..l
  <2>1. PICK k \in 1..f : j = l + k
    BY <1>13 DEF Joined
  <2>2. e[l + k] = ask[k]
    BY <1>13 DEF Joined
  <2> QED
    BY <1>11, <2>1, <2>2
<1>17. ToSet(e) = ToSet(s.effects) \cup {Effect("Ping", k) : k \in Taken(s)}
  <2>1. ASSUME NEW x \in ToSet(e)
        PROVE  x \in ToSet(s.effects) \cup {Effect("Ping", k) : k \in Taken(s)}
    <3>1. PICK j \in DOMAIN e : e[j] = x
      BY DEF ToSet
    <3>2. CASE j \in 1..l
      BY <1>13, <3>1, <3>2 DEF ToSet, Joined
    <3>3. CASE j \notin 1..l
      BY <1>9, <1>16, <3>1, <3>3
    <3> QED
      BY <3>2, <3>3
  <2>2. ASSUME NEW x \in ToSet(s.effects) PROVE x \in ToSet(e)
    <3>1. PICK j \in 1..l : s.effects[j] = x
      BY <1>13 DEF ToSet, Joined
    <3>2. j \in DOMAIN e /\ e[j] = x
      BY <1>13, <3>1 DEF Joined
    <3> QED
      BY <3>2 DEF ToSet
  <2>3. ASSUME NEW k \in Taken(s) PROVE Effect("Ping", k) \in ToSet(e)
    <3>1. Ping(s, k) \in 1..f /\ IdleSlots(s)[Ping(s, k)] = k
      BY <1>4
    <3>2. l + Ping(s, k) \in DOMAIN e /\ e[l + Ping(s, k)] = Effect("Ping", k)
      BY <1>11, <1>13, <3>1 DEF Joined
    <3> QED
      BY <3>2 DEF ToSet
  <2> QED
    BY <2>1, <2>2, <2>3
<1>18. \A k \in Taken(s) : Effect("Ping", k) \notin ToSet(s.effects)
  <2> TAKE k \in Taken(s)
  <2>1. Matched(s.slots, ToSet(s.effects), O, {})
    BY DEF Sound
  <2>2. k \in Nat /\ s.slots[k].st = "Idle" /\ "Ping" \in Kinds
    BY <1>4 DEF Kinds
  <2>3. ~Asks(s.slots[k].st, "Ping")
    BY <2>2 DEF Asks
  <2> QED
    BY <2>1, <2>2, <2>3 DEF Matched
<1>19. OneToOne(e)
  <2> SUFFICES ASSUME NEW i \in DOMAIN e, NEW j \in DOMAIN e, e[i] = e[j]
               PROVE  i = j
    BY DEF OneToOne
  <2>1. \A x \in DOMAIN e : x \in 1..l =>
          /\ e[x] = s.effects[x]
          /\ \A k \in 1..f : Effect("Ping", IdleSlots(s)[k]) # e[x]
    BY <1>9, <1>13, <1>18 DEF ToSet, Joined
  <2>2. CASE i \in 1..l /\ j \in 1..l
    BY <1>1, <1>13, <2>1, <2>2 DEF OneToOne, Joined
  <2>3. CASE i \in 1..l /\ j \notin 1..l
    <3>1. PICK k \in 1..f : e[j] = Effect("Ping", IdleSlots(s)[k])
      BY <1>16, <2>3
    <3> QED
      BY <2>1, <2>3, <3>1
  <2>4. CASE i \notin 1..l /\ j \in 1..l
    <3>1. PICK k \in 1..f : e[i] = Effect("Ping", IdleSlots(s)[k])
      BY <1>16, <2>4
    <3> QED
      BY <2>1, <2>4, <3>1
  <2>5. CASE i \notin 1..l /\ j \notin 1..l
    <3>1. PICK k \in 1..f : i = l + k /\ e[i] = Effect("Ping", IdleSlots(s)[k])
      BY <1>16, <2>5
    <3>2. PICK u \in 1..f : j = l + u /\ e[j] = Effect("Ping", IdleSlots(s)[u])
      BY <1>16, <2>5
    <3>3. IdleSlots(s)[k] = IdleSlots(s)[u]
      BY <3>1, <3>2 DEF Effect
    <3>4. k \in 1..Len(IdleSlots(s)) /\ u \in 1..Len(IdleSlots(s))
      <4>1. Len(IdleSlots(s)) \in Nat
        BY <1>1, IdleFacts
      <4> QED
        BY <1>2, <4>1 DEF f
    <3>5. k = u
      BY <1>1, <3>3, <3>4, IdleFacts
    <3> QED
      BY <3>1, <3>2, <3>5
  <2> QED
    BY <2>2, <2>3, <2>4, <2>5
<1> QED
  BY <1>7, <1>8, <1>14, <1>15, <1>17, <1>19 DEF PingedFacts, f, g

\* The pool is sound after the pings.
LEMMA PingedSound ==
    ASSUME NEW s, NEW a, NEW O, Sound(s, a, O, {}), ~s.closing, NEW r, r = Pinged(s)
    PROVE  /\ Sound(r, a, O, {}) /\ Live(r) = Live(s)
           /\ In(r, {"Idle"}) = In(s, {"Idle"}) \ Taken(s)
<1>1. PingedFacts(r, s)
  BY PingedFields
<1>2. /\ s \in LcStates /\ Cardinality(Live(s)) <= SlotMax
      /\ Matched(s.slots, ToSet(s.effects), O, {}) /\ ToSet(s.effects) \cap O = {}
      /\ OneToOne(s.waiters) /\ Carried(s.slots, ToSet(s.waiters), a)
      /\ ToSet(s.waiters) \subseteq 1..a
  BY DEF Sound
<1>3. /\ Taken(s) \subseteq In(s, {"Idle"})
      /\ \A k \in Taken(s) :
            /\ k \in DOMAIN s.slots /\ k \in Nat /\ s.slots[k].st = "Idle"
            /\ Ping(s, k) \in 1..Reuse(s)
      /\ \A k, u \in Taken(s) : Ping(s, k) = Ping(s, u) => k = u
  BY <1>2, TakenFacts
<1>4. r \in LcStates /\ DOMAIN r.slots = DOMAIN s.slots
      /\ \A k \in DOMAIN s.slots :
          IF k \in Taken(s)
          THEN r.slots[k].st = "Validating" /\ r.slots[k].waiter = {s.waiters[Ping(s, k)]}
          ELSE r.slots[k] = s.slots[k]
  BY <1>1 DEF PingedFacts
<1>5. ToSet(r.effects) = ToSet(s.effects) \cup {Effect("Ping", k) : k \in Taken(s)}
  BY <1>1 DEF PingedFacts
<1>6. Matched(r.slots, ToSet(r.effects), O, {})
  <2> SUFFICES ASSUME NEW k \in Kinds, NEW j \in Nat
               PROVE  Effect(k, j) \in ToSet(r.effects) \cup O
                        <=> j \in DOMAIN r.slots /\ Asks(r.slots[j].st, k)
    BY DEF Matched
  <2>1. Effect(k, j) \in ToSet(s.effects) \cup O
          <=> j \in DOMAIN s.slots /\ Asks(s.slots[j].st, k)
    BY <1>2 DEF Matched
  <2>2. \A i : Effect(k, j) = Effect("Ping", i) <=> k = "Ping" /\ j = i
    BY DEF Effect
  <2>3. (Asks("Validating", k) <=> k = "Ping") /\ ~Asks("Idle", k)
    BY DEF Asks
  <2>4. CASE j \in Taken(s)
    BY <1>3, <1>4, <1>5, <2>1, <2>2, <2>3, <2>4
  <2>5. CASE j \notin Taken(s)
    BY <1>4, <1>5, <2>1, <2>2, <2>5
  <2> QED
    BY <2>4, <2>5
<1>7. ToSet(r.effects) \cap O = {}
  <2>1. \A k \in Taken(s) : Effect("Ping", k) \notin O
    <3> TAKE k \in Taken(s)
    <3>1. k \in Nat /\ ~Asks(s.slots[k].st, "Ping") /\ "Ping" \in Kinds
      BY <1>3 DEF Asks, Kinds
    <3> QED
      BY <1>2, <3>1 DEF Matched
  <2> QED
    BY <1>2, <1>5, <2>1
<1>8. /\ ToSet(r.waiters) \subseteq ToSet(s.waiters) /\ OneToOne(r.waiters)
      /\ OneToOne(r.effects) /\ r.closing = s.closing
      /\ \A j \in 1..(Reuse(s) + Fresh(s)) :
            s.waiters[j] \notin ToSet(r.waiters) /\ s.waiters[j] \in ToSet(s.waiters)
  BY <1>1 DEF PingedFacts
<1>9. \A j \in 1..Reuse(s) :
        /\ s.waiters[j] \notin ToSet(r.waiters) /\ s.waiters[j] \in ToSet(s.waiters)
        /\ j \in DOMAIN s.waiters
  <2>1. Reuse(s) \in Nat /\ Fresh(s) \in Nat /\ Reuse(s) + Fresh(s) <= Len(s.waiters)
        /\ DOMAIN s.waiters = 1..Len(s.waiters) /\ Len(s.waiters) \in Nat
    BY <1>2, DriveCounts, LcFields
  <2>2. \A j \in 1..Reuse(s) : j \in 1..(Reuse(s) + Fresh(s)) /\ j \in 1..Len(s.waiters)
    BY <2>1
  <2> QED
    BY <1>8, <2>1, <2>2
<1>10. Carried(r.slots, ToSet(r.waiters), a)
  <2>1. \A i \in DOMAIN s.slots :
          /\ r.slots[i].waiter \subseteq 1..a /\ r.slots[i].waiter \cap ToSet(r.waiters) = {}
          /\ \A x, y \in r.slots[i].waiter : x = y
    <3> TAKE i \in DOMAIN s.slots
    <3>1. CASE i \in Taken(s)
      BY <1>2, <1>3, <1>4, <1>9, <3>1
    <3>2. CASE i \notin Taken(s)
      <4>1. r.slots[i] = s.slots[i]
        BY <1>4, <3>2
      <4> QED
        BY <1>2, <1>8, <4>1 DEF Carried
    <3> QED
      BY <3>1, <3>2
  <2>2. ASSUME NEW i \in DOMAIN s.slots, NEW j \in DOMAIN s.slots, NEW x,
               x \in r.slots[i].waiter, x \in r.slots[j].waiter
        PROVE  i = j
    <3>1. \A k \in Taken(s) : x \in r.slots[k].waiter =>
            /\ x = s.waiters[Ping(s, k)] /\ x \in ToSet(s.waiters)
            /\ Ping(s, k) \in DOMAIN s.waiters
      BY <1>3, <1>4, <1>9
    <3>2. \A k \in DOMAIN s.slots : k \notin Taken(s) /\ x \in r.slots[k].waiter =>
            x \in s.slots[k].waiter /\ x \notin ToSet(s.waiters)
      BY <1>2, <1>4 DEF Carried
    <3>3. CASE i \in Taken(s) /\ j \in Taken(s)
      <4>1. s.waiters[Ping(s, i)] = s.waiters[Ping(s, j)]
            /\ Ping(s, i) \in DOMAIN s.waiters /\ Ping(s, j) \in DOMAIN s.waiters
        BY <2>2, <3>1, <3>3
      <4>2. Ping(s, i) = Ping(s, j)
        BY <1>2, <4>1 DEF OneToOne
      <4> QED
        BY <1>3, <3>3, <4>2
    <3>4. CASE i \notin Taken(s) /\ j \notin Taken(s)
      BY <1>2, <2>2, <3>2, <3>4 DEF Carried
    <3> QED
      BY <2>2, <3>1, <3>2, <3>3, <3>4
  <2> QED
    BY <1>4, <2>1, <2>2 DEF Carried
<1>11. Live(r) = Live(s)
  <2>1. /\ Live(r) = {i \in DOMAIN r.slots : r.slots[i].st # "Closed"}
        /\ Live(s) = {i \in DOMAIN s.slots : s.slots[i].st # "Closed"}
    BY <1>2, <1>4, LiveFacts
  <2>2. \A i \in DOMAIN s.slots : r.slots[i].st # "Closed" <=> s.slots[i].st # "Closed"
    BY <1>3, <1>4
  <2> QED
    BY <1>4, <2>1, <2>2
<1>12. In(r, {"Idle"}) = In(s, {"Idle"}) \ Taken(s)
  BY <1>3, <1>4 DEF In
<1> QED
  BY <1>2, <1>4, <1>6, <1>7, <1>8, <1>10, <1>11, <1>12 DEF Sound

\* drive_waiters keeps the pool sound and leaves a waiter only if it is full.
LEMMA DriveSound ==
    ASSUME NEW s, NEW a, NEW O, Sound(s, a, O, {}), NEW r, r = DriveWaiters(s)
    PROVE  /\ Sound(r, a, O, {}) /\ Driven(r) /\ (Enough(s) => Enough(r))
           /\ r.closing = s.closing
<1>1. CASE s.closing
  BY <1>1 DEF DriveWaiters, Sound, Driven
<1>2. CASE ~s.closing
  <2> DEFINE p == Pinged(s)
             ws == Opens(s)
             L == Cardinality(Live(s))
  <2>1. s \in LcStates /\ L <= SlotMax /\ OneToOne(s.waiters) /\ a \in 0..MaxWaiters
        /\ ToSet(s.waiters) \subseteq 1..a /\ Carried(s.slots, ToSet(s.waiters), a)
    BY DEF Sound
  <2>2. r = OpenSlots(p, ws)
    BY <1>2, <2>1, DriveParts
  <2>3. PingedFacts(p, s)
    BY PingedFields
  <2>4. Sound(p, a, O, {}) /\ Live(p) = Live(s)
        /\ In(p, {"Idle"}) = In(s, {"Idle"}) \ Taken(s)
    BY <1>2, PingedSound
  <2>5. /\ Reuse(s) \in Nat /\ Fresh(s) \in Nat
        /\ Reuse(s) + Fresh(s) <= Len(s.waiters) /\ L + Fresh(s) <= SlotMax
        /\ Reuse(s) + Fresh(s) < Len(s.waiters) =>
                Reuse(s) = Len(IdleSlots(s)) /\ L + Fresh(s) = SlotMax
        /\ Len(s.waiters) \in Nat /\ DOMAIN s.waiters = 1..Len(s.waiters)
    BY <2>1, DriveCounts, LcFields
  <2>6. \A k \in 1..Fresh(s) :
          /\ Reuse(s) + k \in 1..(Reuse(s) + Fresh(s)) /\ Reuse(s) + k \in DOMAIN s.waiters
          /\ Reuse(s) + k \notin 1..Reuse(s)
    <3>1. \A k \in 1..Fresh(s) :
            /\ Reuse(s) + k \in 1..(Reuse(s) + Fresh(s)) /\ Reuse(s) + k \in 1..Len(s.waiters)
            /\ Reuse(s) + k \notin 1..Reuse(s)
      BY <2>5
    <3> QED
      BY <2>5, <3>1
  <2>7. \A k \in 1..Fresh(s) :
          /\ s.waiters[Reuse(s) + k] \notin ToSet(p.waiters)
          /\ s.waiters[Reuse(s) + k] \in ToSet(s.waiters)
          /\ s.waiters[Reuse(s) + k] \in 1..a /\ s.waiters[Reuse(s) + k] \in WaiterIds
    <3>1. \A x \in 1..a : x \in WaiterIds
      BY <2>1, LifecycleAssumption DEF WaiterIds
    <3> QED
      BY <2>1, <2>3, <2>6, <3>1 DEF PingedFacts
  <2>8. ws \in Seq(SUBSET WaiterIds) /\ Len(ws) = Fresh(s)
        /\ \A k \in 1..Fresh(s) : ws[k] = {s.waiters[Reuse(s) + k]}
    <3>1. ws \in [1..Fresh(s) -> SUBSET WaiterIds]
      BY <2>7 DEF Opens
    <3>2. \A k \in 1..Fresh(s) : ws[k] = {s.waiters[Reuse(s) + k]}
      BY DEF Opens
    <3> QED
      BY <2>5, <3>1, <3>2
  <2>9. \A k \in 1..Fresh(s), j \in DOMAIN p.slots :
          s.waiters[Reuse(s) + k] \notin p.slots[j].waiter
    <3> TAKE k \in 1..Fresh(s), j \in DOMAIN p.slots
    <3>1. j \in DOMAIN s.slots
      BY <2>3 DEF PingedFacts
    <3>2. CASE j \in Taken(s)
      <4>1. p.slots[j].waiter = {s.waiters[Ping(s, j)]}
        BY <2>3, <3>1, <3>2 DEF PingedFacts
      <4>2. Ping(s, j) \in 1..Reuse(s)
        BY <2>1, <3>2, TakenFacts
      <4>3. Ping(s, j) \in DOMAIN s.waiters /\ Ping(s, j) # Reuse(s) + k
        <5>1. \A i \in 1..Reuse(s) : i \in 1..Len(s.waiters)
          BY <2>5
        <5> QED
          BY <2>5, <2>6, <4>2, <5>1
      <4>4. s.waiters[Ping(s, j)] # s.waiters[Reuse(s) + k]
        BY <2>1, <2>6, <4>3 DEF OneToOne
      <4> QED
        BY <4>1, <4>4
    <3>3. CASE j \notin Taken(s)
      <4>1. p.slots[j] = s.slots[j]
        BY <2>3, <3>1, <3>3 DEF PingedFacts
      <4> QED
        BY <2>1, <2>7, <3>1, <4>1 DEF Carried
    <3> QED
      BY <3>2, <3>3
  <2>10. \A k, u \in 1..Fresh(s) : s.waiters[Reuse(s) + k] = s.waiters[Reuse(s) + u] => k = u
    <3> TAKE k, u \in 1..Fresh(s)
    <3> HAVE s.waiters[Reuse(s) + k] = s.waiters[Reuse(s) + u]
    <3>1. Reuse(s) + k = Reuse(s) + u
      BY <2>1, <2>6 DEF OneToOne
    <3> QED
      BY <2>5, <3>1
  <2> HIDE DEF p, ws, L
  <2>11. \A k \in 1..Len(ws) :
              /\ ws[k] \subseteq 1..a /\ ws[k] \cap ToSet(p.waiters) = {}
              /\ \A x, y \in ws[k] : x = y
              /\ \A j \in DOMAIN p.slots : p.slots[j].waiter \cap ws[k] = {}
    BY <2>7, <2>8, <2>9
  <2>12. \A k, u \in 1..Len(ws) : (\E x \in ws[k] : x \in ws[u]) => k = u
    BY <2>8, <2>10
  <2>13. Cardinality(Live(p)) + Len(ws) <= SlotMax
    BY <2>4, <2>5, <2>8 DEF L
  <2>14. /\ Sound(r, a, O, {}) /\ r.waiters = p.waiters /\ r.closing = p.closing
         /\ Cardinality(Live(r)) = Cardinality(Live(p)) + Len(ws)
         /\ In(r, {"Idle"}) = In(p, {"Idle"})
    BY <2>2, <2>4, <2>8, <2>11, <2>12, <2>13, OpenSlotsSound
  <2>15. Cardinality(Live(r)) = L + Fresh(s)
    BY <2>4, <2>8, <2>14 DEF L
  <2>16. r.closing = s.closing
    BY <2>3, <2>14 DEF PingedFacts
  <2>17. Driven(r)
    <3> SUFFICES ASSUME r.waiters # <<>>
                 PROVE  In(r, {"Idle"}) = {} /\ Cardinality(Live(r)) = SlotMax
      BY DEF Driven
    <3>1. Reuse(s) + Fresh(s) < Len(s.waiters)
      BY <2>3, <2>14 DEF PingedFacts
    <3>2. Taken(s) = In(s, {"Idle"})
      BY <2>1, <2>5, <3>1, TakenFacts DEF L
    <3> QED
      BY <2>4, <2>5, <2>14, <2>15, <3>1, <3>2
  <2>18. Enough(s) => Enough(r)
    <3>1. L \in Nat /\ SlotMin \in Nat
      BY <2>1, LiveFacts, LifecycleAssumption DEF L
    <3>2. L >= SlotMin => L + Fresh(s) >= SlotMin
      BY <2>5, <3>1
    <3> QED
      BY <2>15, <2>16, <3>2 DEF Enough, L
  <2> QED
    BY <2>14, <2>16, <2>17, <2>18
<1> QED
  BY <1>1, <1>2

-----------------------------------------------------------------------------
(* The operations, one by one *)

\* new: an empty pool that opens its min slots.
LEMMA NewSound ==
    Sound(New, 0, {}, {}) /\ Driven(New) /\ Enough(New)
<1> DEFINE s == [slots |-> <<>>, waiters |-> <<>>, effects |-> <<>>, closing |-> FALSE]
<1>1. s \in LcStates
  BY DEF LcStates
<1>2. s.slots = <<>> /\ s.waiters = <<>> /\ s.effects = <<>> /\ s.closing = FALSE
  OBVIOUS
<1> HIDE DEF s
<1>3. ToSet(<<>>) = {} /\ DOMAIN <<>> = {}
  BY DEF ToSet
<1>4. Live(s) = {}
  BY <1>2, <1>3 DEF Live, In
<1>5. Cardinality(Live(s)) <= SlotMax
  BY <1>4, FS_EmptySet, LifecycleAssumption
<1>6. Matched(s.slots, ToSet(s.effects), {}, {})
  BY <1>2, <1>3 DEF Matched
<1>7. Carried(s.slots, ToSet(s.waiters), 0)
  BY <1>2, <1>3 DEF Carried
<1>8. OneToOne(s.effects) /\ OneToOne(s.waiters)
  BY <1>2, <1>3 DEF OneToOne
<1>9. 0 \in 0..MaxWaiters /\ {} \subseteq Effects
  BY LifecycleAssumption
<1>10. Sound(s, 0, {}, {})
  BY <1>1, <1>2, <1>3, <1>5, <1>6, <1>7, <1>8, <1>9 DEF Sound
<1>11. Driven(s)
  BY <1>2 DEF Driven
<1>12. New = EnsureMinOpening(s)
  BY DEF New, s
<1> QED
  BY <1>10, <1>11, <1>12, EnsureMinSound

\* What an operation is to do: it leaves a sound pool with enough slots that
\* owes its queue a slot.
Kept(s, a, O) == Sound(s, a, O, {}) /\ Enough(s) /\ Owed(s)

\* drive_waiters restores the whole invariant.
LEMMA DriveKept ==
    ASSUME NEW s, NEW a, NEW O, Sound(s, a, O, {}), Enough(s)
    PROVE  Kept(DriveWaiters(s), a, O)
<1>1. Sound(DriveWaiters(s), a, O, {}) /\ Driven(DriveWaiters(s)) /\ Enough(DriveWaiters(s))
  BY DriveSound
<1> QED
  BY <1>1, DrivenIsOwed DEF Kept, Sound

\* drive_waiters followed by ensure_min_opening restores it, min included.
LEMMA RefillKept ==
    ASSUME NEW s, NEW a, NEW O, Sound(s, a, O, {})
    PROVE  Kept(EnsureMinOpening(DriveWaiters(s)), a, O)
<1> DEFINE d == DriveWaiters(s)
<1>1. Sound(d, a, O, {}) /\ Driven(d)
  BY DriveSound
<1> HIDE DEF d
<1>2. Sound(EnsureMinOpening(d), a, O, {}) /\ Driven(EnsureMinOpening(d))
      /\ Enough(EnsureMinOpening(d))
  BY <1>1, EnsureMinSound
<1> QED
  BY <1>2, DrivenIsOwed DEF Kept, Sound, d

\* release_slot_at: a slot that was handed out rests again or closes.
LEMMA ReleaseSound ==
    ASSUME NEW s, NEW a, NEW O, Sound(s, a, O, {}), Enough(s), NEW i \in DOMAIN s.slots,
           s.slots[i].st = "CheckedOut", NEW r, r = ReleaseSlotAt(s, i)
    PROVE  Sound(r, a, O, {}) /\ Enough(r)
<1>1. Sound(s, a, O, {i}) /\ s \in LcStates
  BY QuietSlot DEF Sound
<1>2. CASE s.closing
  <2>1. r = Emit(SetSlot(s, i, "Closing", {}), "Close", i)
    BY <1>2 DEF ReleaseSlotAt
  <2>2. PICK st \in {"Retiring", "Closing"} : st = "Closing"
    OBVIOUS
  <2>3. r = Emit(SetSlot(s, i, st, {}), "Close", i)
    BY <2>1, <2>2
  <2>4. Sound(r, a, O, {}) /\ Closes(r, s, i, st)
    BY ONLY <1>1, <2>3, SlotCloses, i \in DOMAIN s.slots, s.slots[i].st = "CheckedOut",
            st \in {"Retiring", "Closing"}
  <2> QED
    BY <1>2, <2>4 DEF Enough, Closes
<1>3. CASE ~s.closing
  <2>1. r = SetSlot(s, i, "Idle", {})
    BY <1>3 DEF ReleaseSlotAt
  <2>2. Sound(r, a, O, {})
    BY <1>1, <2>1, SlotRests
  <2>3. Live(r) = Live(s) /\ r.closing = s.closing
    BY <1>1, <2>1, SetSlotFacts DEF SlotStates
  <2> QED
    BY <2>2, <2>3 DEF Enough
<1> QED
  BY <1>2, <1>3

\* release: the slot serves the queue.
LEMMA ReleaseKept ==
    ASSUME NEW s, NEW a, NEW O, Sound(s, a, O, {}), Enough(s), NEW i \in DOMAIN s.slots,
           s.slots[i].st = "CheckedOut"
    PROVE  Kept(DriveWaiters(ReleaseSlotAt(s, i)), a, O)
<1> DEFINE r == ReleaseSlotAt(s, i)
<1>1. Sound(r, a, O, {}) /\ Enough(r)
  BY ReleaseSound
<1> HIDE DEF r
<1>2. Kept(DriveWaiters(r), a, O)
  BY <1>1, DriveKept
<1> QED
  BY <1>2 DEF r

\* A healthy open or ping: the slot goes to its waiter, to the queue, or is
\* closed if the pool is.
LEMMA GrantedKept ==
    ASSUME NEW s, NEW a, NEW O, NEW i, Sound(s, a, O, {i}), Enough(s), Owed(s),
           i \in DOMAIN s.slots, s.slots[i].st \in {"Opening", "Validating"}
    PROVE  Kept(Granted(s, i), a, O)
<1> DEFINE w == s.slots[i].waiter
           r == Granted(s, i)
<1>1. s \in LcStates /\ s.slots[i].st # "Closed" /\ w \in SUBSET WaiterIds
  BY LcFields DEF Sound
<1>2. CASE s.closing
  <2>1. r = Emit(SetSlot(s, i, "Closing", {}), "Close", i)
    BY <1>2 DEF Granted
  <2> HIDE DEF r
  <2>2. PICK st \in {"Retiring", "Closing"} : st = "Closing"
    OBVIOUS
  <2>3. r = Emit(SetSlot(s, i, st, {}), "Close", i)
    BY <2>1, <2>2
  <2>4. Sound(r, a, O, {}) /\ Closes(r, s, i, st)
    BY ONLY <1>1, <2>3, SlotCloses, i \in DOMAIN s.slots, Sound(s, a, O, {i}),
            st \in {"Retiring", "Closing"}
  <2>5. r.waiters = <<>>
    BY <1>2, <2>4 DEF Sound, Closes
  <2> QED
    BY <1>2, <2>4, <2>5, NoneOwed DEF Kept, Sound, Enough, Closes, r
<1>3. CASE ~s.closing /\ w # {}
  <2>1. r = SetSlot(s, i, "CheckedOut", w)
    BY <1>3 DEF Granted
  <2> HIDE DEF r
  <2>2. Sound(r, a, O, {})
    BY <1>1, <2>1, SlotRests
  <2>3. /\ Live(r) = Live(s) /\ r.closing = s.closing /\ r.waiters = s.waiters
        /\ DOMAIN r.slots = DOMAIN s.slots /\ r.slots[i].st = "CheckedOut"
        /\ \A j \in DOMAIN s.slots : j # i => r.slots[j] = s.slots[j]
    <3>1. PICK st \in SlotStates : st = "CheckedOut"
      BY DEF SlotStates
    <3>2. r = SetSlot(s, i, st, w)
      BY <2>1, <3>1
    <3> HIDE DEF w
    <3>3. /\ r.closing = s.closing /\ r.waiters = s.waiters
          /\ DOMAIN r.slots = DOMAIN s.slots /\ r.slots[i].st = st
          /\ \A j \in DOMAIN s.slots : j # i => r.slots[j] = s.slots[j]
      BY ONLY <1>1, <3>2, SetSlotFacts, i \in DOMAIN s.slots, st \in SlotStates
    <3>4. Live(r) = IF st = "Closed" THEN Live(s) \ {i} ELSE Live(s)
      BY ONLY <1>1, <3>2, SetSlotFacts, i \in DOMAIN s.slots, st \in SlotStates
    <3> QED
      BY <3>1, <3>3, <3>4
  <2>4. In(r, {"Retiring"}) = In(s, {"Retiring"}) /\ In(r, {"Idle"}) = In(s, {"Idle"})
    BY <2>3 DEF In
  <2> QED
    <3>1. r \in LcStates /\ Len(r.waiters) = Len(s.waiters) /\ Len(s.waiters) \in Nat
      BY <1>1, <2>2, <2>3, LcFields DEF Sound
    <3>2. Owed(r)
      BY <1>1, <2>3, <2>4, <3>1, OwedKept
    <3> QED
      BY <2>2, <2>3, <3>2 DEF Kept, Enough, r
<1>4. CASE ~s.closing /\ w = {}
  <2> DEFINE m == SetSlot(s, i, "Idle", {})
  <2>1. r = DriveWaiters(m)
    BY <1>4 DEF Granted
  <2>2. Sound(m, a, O, {})
    BY <1>1, SlotRests
  <2>3. Live(m) = Live(s) /\ m.closing = s.closing
    BY <1>1, SetSlotFacts DEF SlotStates
  <2> HIDE DEF m
  <2>4. Enough(m)
    BY <2>3 DEF Enough
  <2> QED
    BY <2>1, <2>2, <2>4, DriveKept
<1> QED
  BY <1>2, <1>3, <1>4

\* What the waiter of a slot is, once the slot has let it go.
LEMMA LetGo ==
    ASSUME NEW s, NEW a, NEW O, NEW X, Sound(s, a, O, X), NEW i \in DOMAIN s.slots,
           NEW r, DOMAIN r.slots = DOMAIN s.slots, r.slots[i].waiter = {},
           \A j \in DOMAIN s.slots : j # i => r.slots[j] = s.slots[j]
    PROVE  LET w == s.slots[i].waiter IN
           /\ w \subseteq 1..a /\ \A x, y \in w : x = y
           /\ w \cap ToSet(s.waiters) = {}
           /\ \A j \in DOMAIN r.slots : r.slots[j].waiter \cap w = {}
<1>1. Carried(s.slots, ToSet(s.waiters), a)
  BY DEF Sound
<1>2. \A j \in DOMAIN s.slots : j # i => s.slots[j].waiter \cap s.slots[i].waiter = {}
  BY <1>1 DEF Carried
<1>3. \A j \in DOMAIN r.slots : r.slots[j].waiter \cap s.slots[i].waiter = {}
  BY <1>2
<1> QED
  BY <1>1, <1>3 DEF Carried

\* A failed open: the slot is gone, its waiter is served first, and min restored.
LEMMA OpenFailedKept ==
    ASSUME NEW s, NEW a, NEW O, NEW i, Sound(s, a, O, {i}), i \in DOMAIN s.slots,
           s.slots[i].st # "Closed"
    PROVE  Kept(OpenFailed(s, i), a, O)
<1> DEFINE w == s.slots[i].waiter
           m == SetSlot(s, i, "Closed", {})
           q == Requeue(m, w)
<1>1. s \in LcStates /\ "Closed" \in SlotStates /\ {} \in SUBSET WaiterIds
  BY DEF Sound, SlotStates
<1>2. Sound(m, a, O, {})
  BY SlotRests
<1>3. /\ m.waiters = s.waiters /\ DOMAIN m.slots = DOMAIN s.slots
      /\ m.slots[i].waiter = {}
      /\ \A j \in DOMAIN s.slots : j # i => m.slots[j] = s.slots[j]
  BY <1>1, SetSlotFacts
<1> HIDE DEF m
<1>4. /\ w \subseteq 1..a /\ \A x, y \in w : x = y
      /\ w \cap ToSet(m.waiters) = {}
      /\ \A j \in DOMAIN m.slots : m.slots[j].waiter \cap w = {}
  BY <1>3, LetGo
<1> HIDE DEF w
<1>5. Sound(q, a, O, {})
  BY <1>2, <1>4, RequeueSound
<1> HIDE DEF q
<1>6. Kept(EnsureMinOpening(DriveWaiters(q)), a, O)
  BY <1>5, RefillKept
<1> QED
  BY <1>6 DEF OpenFailed, q, m, w

\* A failed ping: the slot retires, and its close will serve the queue.
LEMMA PingFailedKept ==
    ASSUME NEW s, NEW a, NEW O, NEW i, Sound(s, a, O, {i}), Enough(s), Owed(s),
           i \in DOMAIN s.slots, s.slots[i].st = "Validating"
    PROVE  Kept(PingFailed(s, i), a, O)
<1> DEFINE w == s.slots[i].waiter
           m == Emit(SetSlot(s, i, "Retiring", {}), "Close", i)
           r == Requeue(m, w)
<1>1. PICK st \in {"Retiring", "Closing"} : st = "Retiring"
  OBVIOUS
<1>2. m = Emit(SetSlot(s, i, st, {}), "Close", i)
  BY <1>1
<1>a. r = Requeue(m, w)
  OBVIOUS
<1> HIDE DEF m, r
<1>3. Sound(m, a, O, {}) /\ Closes(m, s, i, st)
  BY ONLY <1>2, SlotCloses, i \in DOMAIN s.slots, Sound(s, a, O, {i}),
          s.slots[i].st = "Validating", st \in {"Retiring", "Closing"}
<1>b. /\ DOMAIN m.slots = DOMAIN s.slots /\ m.slots[i].waiter = {} /\ m.waiters = s.waiters
      /\ \A j \in DOMAIN s.slots : j # i => m.slots[j] = s.slots[j]
  BY <1>3 DEF Closes
<1>4. /\ w \subseteq 1..a /\ \A x, y \in w : x = y
      /\ w \cap ToSet(m.waiters) = {}
      /\ \A j \in DOMAIN m.slots : m.slots[j].waiter \cap w = {}
  BY <1>b, LetGo
<1> HIDE DEF w
<1>5. /\ Sound(r, a, O, {}) /\ r.slots = m.slots /\ r.closing = m.closing
      /\ Live(r) = Live(m) /\ Len(r.waiters) <= Len(m.waiters) + 1
  <2>1. Sound(r, a, O, {})
    BY ONLY <1>a, <1>3, <1>4, RequeueSound
  <2>2. r.slots = m.slots /\ r.closing = m.closing
    BY ONLY <1>a, <1>3 DEF Requeue, Sound, LcStates
  <2>3. Live(r) = Live(m) /\ Len(r.waiters) <= Len(m.waiters) + 1
    BY ONLY <1>a, <1>3, <1>4, RequeueSound
  <2> QED
    BY <2>1, <2>2, <2>3
<1>6. /\ In(r, {"Retiring"}) = In(s, {"Retiring"}) \cup {i} /\ i \notin In(s, {"Retiring"})
      /\ In(r, {"Idle"}) \subseteq In(s, {"Idle"})
  BY <1>1, <1>3, <1>5 DEF In, Closes
<1>c. s \in LcStates /\ r \in LcStates /\ Live(r) = Live(s)
      /\ Len(r.waiters) <= Len(s.waiters) + 1
  BY <1>3, <1>5 DEF Sound, Closes
<1>d. Owed(r)
  BY <1>6, <1>c, RetiredOwed
<1>7. Kept(r, a, O)
  BY <1>3, <1>5, <1>d DEF Kept, Enough, Closes
<1> QED
  BY <1>7 DEF PingFailed, r, m, w

\* complete_close: the slot is gone, the queue is served and min restored.
LEMMA ClosedKept ==
    ASSUME NEW s, NEW a, NEW O, NEW i, Sound(s, a, O, {i}), i \in DOMAIN s.slots,
           s.slots[i].st # "Closed"
    PROVE  Kept(Closed(s, i), a, O)
<1> DEFINE m == SetSlot(s, i, "Closed", {})
<1>1. Sound(m, a, O, {})
  BY SlotRests
<1> HIDE DEF m
<1>2. Kept(EnsureMinOpening(DriveWaiters(m)), a, O)
  BY <1>1, RefillKept
<1> QED
  BY <1>2 DEF Closed, m

\* reap_idle: an idle slot retires.
LEMMA ReapKept ==
    ASSUME NEW s, NEW a, NEW O, Kept(s, a, O), NEW i \in DOMAIN s.slots,
           s.slots[i].st = "Idle", NEW r, r = Emit(SetSlot(s, i, "Retiring", {}), "Close", i)
    PROVE  Kept(r, a, O)
<1>1. Sound(s, a, O, {i}) /\ s \in LcStates /\ Enough(s) /\ Owed(s)
  BY QuietSlot DEF Kept, Sound
<1>2. PICK st \in {"Retiring", "Closing"} : st = "Retiring"
  OBVIOUS
<1>3. r = Emit(SetSlot(s, i, st, {}), "Close", i)
  BY <1>2
<1>4. Sound(r, a, O, {}) /\ Closes(r, s, i, st)
  BY ONLY <1>1, <1>3, SlotCloses, i \in DOMAIN s.slots, s.slots[i].st = "Idle",
          st \in {"Retiring", "Closing"}
<1>5. /\ In(r, {"Retiring"}) = In(s, {"Retiring"}) \cup {i} /\ i \notin In(s, {"Retiring"})
      /\ In(r, {"Idle"}) \subseteq In(s, {"Idle"})
  BY <1>2, <1>4 DEF In, Closes
<1>6. r \in LcStates /\ Live(r) = Live(s) /\ Len(r.waiters) <= Len(s.waiters) + 1
  BY <1>1, <1>4, LcFields DEF Sound, Closes
<1>7. Owed(r)
  BY <1>1, <1>5, <1>6, RetiredOwed
<1> QED
  BY <1>1, <1>4, <1>7 DEF Kept, Enough, Closes

\* request_acquire: a new waiter joins the queue, which is then served.
LEMMA RequestKept ==
    ASSUME NEW s, NEW a, NEW O, Sound(s, a, O, {}), Enough(s), ~s.closing, a < MaxWaiters
    PROVE  Kept(DriveWaiters([s EXCEPT !.waiters = Append(@, a + 1)]), a + 1, O)
<1> DEFINE x == a + 1
           z == Append(s.waiters, x)
           r == [s EXCEPT !.waiters = z]
<1>1. /\ s \in LcStates /\ a \in 0..MaxWaiters /\ ToSet(s.waiters) \subseteq 1..a
      /\ OneToOne(s.waiters) /\ Carried(s.slots, ToSet(s.waiters), a)
  BY DEF Sound
<1>2. /\ x \in WaiterIds /\ x \in 0..MaxWaiters /\ x \in 1..x /\ x \notin 1..a
      /\ \A y \in 1..a : y \in 1..x
  BY <1>1, LifecycleAssumption DEF WaiterIds
<1>3. s.waiters \in Seq(WaiterIds)
  BY <1>1, LcFields
<1> HIDE DEF x
<1>4. /\ z \in Seq(WaiterIds) /\ DOMAIN z = DOMAIN s.waiters \cup {Len(s.waiters) + 1}
      /\ z[Len(s.waiters) + 1] = x
      /\ \A j \in DOMAIN s.waiters : z[j] = s.waiters[j] /\ j # Len(s.waiters) + 1
  BY <1>2, <1>3
<1> HIDE DEF z
<1>5. /\ r \in LcStates /\ r.waiters = z /\ r.effects = s.effects
      /\ r.closing = s.closing /\ r.slots = s.slots
  BY <1>1, <1>4 DEF LcStates
<1> HIDE DEF r
<1>6. ToSet(z) = ToSet(s.waiters) \cup {x}
  BY <1>4 DEF ToSet
<1>7. OneToOne(z)
  <2>1. \A j \in DOMAIN s.waiters : s.waiters[j] # x
    BY <1>1, <1>2 DEF ToSet
  <2> QED
    BY <1>1, <1>4, <2>1 DEF OneToOne
<1>8. ToSet(z) \subseteq 1..x
  BY <1>1, <1>2, <1>6
<1>9. Carried(s.slots, ToSet(z), x)
  <2>1. \A i \in DOMAIN s.slots :
          s.slots[i].waiter \subseteq 1..x /\ s.slots[i].waiter \cap ToSet(z) = {}
    BY <1>1, <1>2, <1>6 DEF Carried
  <2> QED
    BY <1>1, <2>1 DEF Carried
<1>10. Live(r) = Live(s)
  BY <1>1, <1>5, LiveFacts
<1>11. Sound(r, x, O, {})
  BY <1>2, <1>5, <1>7, <1>8, <1>9, <1>10 DEF Sound
<1>12. Enough(r)
  BY <1>5, <1>10 DEF Enough
<1>13. Kept(DriveWaiters(r), x, O)
  BY <1>11, <1>12, DriveKept
<1>14. r = [s EXCEPT !.waiters = Append(@, a + 1)]
  BY <1>1 DEF r, z, x, LcStates
<1> QED
  BY <1>13, <1>14 DEF x

\* The driver takes the effects: what was asked for is now being performed.
LEMMA TakeKept ==
    ASSUME NEW s, NEW a, NEW O, Kept(s, a, O)
    PROVE  Kept([s EXCEPT !.effects = <<>>], a, O \cup ToSet(s.effects))
<1> DEFINE r == [s EXCEPT !.effects = <<>>]
           P == O \cup ToSet(s.effects)
<1>1. Sound(s, a, O, {}) /\ Enough(s) /\ Owed(s) /\ s \in LcStates
  BY DEF Kept, Sound
<1>2. /\ r \in LcStates /\ r.waiters = s.waiters /\ r.effects = <<>>
      /\ r.closing = s.closing /\ r.slots = s.slots
  <2>a. <<>> \in Seq(Effects)
    OBVIOUS
  <2>1. PICK e \in Seq(Effects) : e = <<>>
    BY <2>a
  <2>2. r = [s EXCEPT !.effects = e]
    BY <2>1
  <2> HIDE DEF r
  <2>3. /\ r \in LcStates /\ r.waiters = s.waiters /\ r.effects = e
        /\ r.closing = s.closing /\ r.slots = s.slots
    BY <1>1, <2>2 DEF LcStates
  <2> QED
    BY <2>1, <2>3
<1> HIDE DEF r
<1>3. ToSet(r.effects) = {} /\ OneToOne(r.effects)
  BY <1>2 DEF ToSet, OneToOne
<1>4. P \subseteq Effects
  <2>1. s.effects \in Seq(Effects)
    BY <1>1, LcFields
  <2>2. ToSet(s.effects) \subseteq Effects
    BY <2>1 DEF ToSet
  <2> QED
    BY <1>1, <2>2 DEF Sound
<1>5. Matched(r.slots, ToSet(r.effects), P, {})
  <2>1. Matched(s.slots, ToSet(s.effects), O, {})
    BY <1>1 DEF Sound
  <2>2. ToSet(r.effects) \cup P = ToSet(s.effects) \cup O
    BY <1>3
  <2> QED
    BY <1>2, <2>1, <2>2 DEF Matched
<1>6. Live(r) = Live(s)
  BY <1>1, <1>2, LiveFacts
<1> HIDE DEF P
<1>7. Sound(r, a, P, {})
  BY <1>1, <1>2, <1>3, <1>4, <1>5, <1>6 DEF Sound
<1>8. Enough(r) /\ Owed(r)
  <2>1. \A X : In(r, X) = In(s, X)
    BY <1>2 DEF In
  <2>2. Len(r.waiters) <= Len(s.waiters)
    BY <1>1, <1>2, LcFields
  <2> QED
    BY <1>1, <1>2, <1>6, <2>1, <2>2, OwedKept DEF Enough
<1> QED
  BY <1>7, <1>8 DEF Kept, r, P

\* A slot loses its waiter and stays in its state.
LEMMA ClearedKept ==
    ASSUME NEW s, NEW a, NEW O, Kept(s, a, O), NEW i \in DOMAIN s.slots,
           NEW r, r = [s EXCEPT !.slots[i].waiter = {}]
    PROVE  Kept(r, a, O)
<1> DEFINE st == s.slots[i].st
<1>1. Sound(s, a, O, {}) /\ Enough(s) /\ Owed(s) /\ s \in LcStates
  BY DEF Kept, Sound
<1>2. st \in SlotStates /\ s.slots[i] \in SlotRecs
  BY <1>1, LcFields
<1>3. [s.slots[i] EXCEPT !.waiter = {}] = Slot(st, {})
  BY <1>2 DEF Slot, SlotRecs
<1>4. r = SetSlot(s, i, st, {})
  BY <1>1, <1>3 DEF SetSlot, LcStates
<1>5. PICK x \in SlotStates : x = st
  BY <1>2
<1>6. r = SetSlot(s, i, x, {}) /\ s.slots[i].st = x
  BY <1>4, <1>5
<1> HIDE DEF st
<1>7. {} \in SUBSET WaiterIds
  OBVIOUS
<1>8. /\ r \in LcStates /\ r.waiters = s.waiters /\ r.effects = s.effects
      /\ r.closing = s.closing /\ DOMAIN r.slots = DOMAIN s.slots
      /\ r.slots[i].st = x /\ r.slots[i].waiter = {}
      /\ \A j \in DOMAIN s.slots : j # i => r.slots[j] = s.slots[j]
  BY ONLY <1>1, <1>6, <1>7, SetSlotFacts, i \in DOMAIN s.slots, x \in SlotStates
<1>9. \A j \in DOMAIN s.slots : r.slots[j].st = s.slots[j].st
  BY <1>6, <1>8
<1>10. Matched(r.slots, ToSet(r.effects), O, {})
  <2>1. Matched(s.slots, ToSet(s.effects), O, {})
    BY <1>1 DEF Sound
  <2> QED
    BY <1>8, <1>9, <2>1 DEF Matched
<1>11. Carried(r.slots, ToSet(r.waiters), a)
  <2>1. Carried(s.slots, ToSet(s.waiters), a)
    BY <1>1 DEF Sound
  <2>2. r.slots[i].waiter \subseteq s.slots[i].waiter
    BY <1>8
  <2>3. Carried(r.slots, ToSet(s.waiters), a)
    BY ONLY <1>8, <2>1, <2>2, CarriedKept, i \in DOMAIN s.slots
  <2> QED
    BY <1>8, <2>3
<1>12. \A X : In(r, X) = In(s, X)
  BY <1>8, <1>9 DEF In
<1>13. Live(r) = Live(s)
  BY <1>12 DEF Live
<1>14. Sound(r, a, O, {})
  BY <1>1, <1>8, <1>10, <1>11, <1>13 DEF Sound
<1>15. Enough(r) /\ Owed(r)
  <2>1. Len(r.waiters) <= Len(s.waiters)
    BY <1>1, <1>8, LcFields
  <2> QED
    BY <1>1, <1>8, <1>12, <1>13, <2>1, OwedKept DEF Enough
<1> QED
  BY <1>14, <1>15 DEF Kept

\* A waiter leaves the queue.
LEMMA LeftKept ==
    ASSUME NEW s, NEW a, NEW O, Kept(s, a, O), NEW w,
           NEW r, r = [s EXCEPT !.waiters = Without(@, w)]
    PROVE  Kept(r, a, O) /\ r.slots = s.slots
<1> DEFINE z == Without(s.waiters, w)
<1>1. Sound(s, a, O, {}) /\ Enough(s) /\ Owed(s) /\ s \in LcStates
  BY DEF Kept, Sound
<1>2. s.waiters \in Seq(WaiterIds) /\ OneToOne(s.waiters)
  BY <1>1, LcFields DEF Sound
<1>3. r = [s EXCEPT !.waiters = z]
  BY <1>1 DEF LcStates
<1>4. /\ z \in Seq(WaiterIds) /\ OneToOne(z) /\ ToSet(z) = ToSet(s.waiters) \ {w}
      /\ Len(z) <= Len(s.waiters)
  BY <1>2, WithoutFacts
<1> HIDE DEF z
<1>5. /\ r \in LcStates /\ r.waiters = z /\ r.effects = s.effects
      /\ r.closing = s.closing /\ r.slots = s.slots
  BY <1>1, <1>3, <1>4 DEF LcStates
<1>6. Carried(r.slots, ToSet(r.waiters), a)
  <2>1. Carried(s.slots, ToSet(s.waiters), a)
    BY <1>1 DEF Sound
  <2>2. \A i \in DOMAIN s.slots : s.slots[i].waiter \cap ToSet(z) = {}
    BY <1>4, <2>1 DEF Carried
  <2> QED
    BY <1>5, <2>1, <2>2 DEF Carried
<1>7. \A X : In(r, X) = In(s, X)
  BY <1>5 DEF In
<1>8. Live(r) = Live(s)
  BY <1>7 DEF Live
<1>9. Sound(r, a, O, {})
  <2>1. s.waiters = <<>> => z = <<>>
    BY <1>2, <1>4
  <2> QED
    BY <1>1, <1>4, <1>5, <1>6, <1>8, <2>1 DEF Sound
<1>10. Enough(r) /\ Owed(r)
  BY <1>1, <1>4, <1>5, <1>7, <1>8, OwedKept DEF Enough
<1> QED
  BY <1>5, <1>9, <1>10 DEF Kept

\* cancel_acquire: the waiter is nowhere any more.
LEMMA WithdrawKept ==
    ASSUME NEW s, NEW a, NEW O, Kept(s, a, O), NEW w
    PROVE  Kept(Withdraw(s, w), a, O)
<1> DEFINE held == {i \in DOMAIN s.slots : s.slots[i].waiter = {w}}
           left == [s EXCEPT !.waiters = Without(@, w)]
           i == Min(held)
<1>1. Kept(left, a, O) /\ left.slots = s.slots
  BY LeftKept
<1>2. Withdraw(s, w) =
        IF held = {} THEN left
        ELSE IF s.slots[i].st = "CheckedOut"
             THEN DriveWaiters(ReleaseSlotAt(left, i))
             ELSE [left EXCEPT !.slots[i].waiter = {}]
  BY DEF Withdraw
<1> HIDE DEF left
<1>3. held # {} => i \in DOMAIN s.slots
  <2> SUFFICES ASSUME held # {} PROVE i \in held
    OBVIOUS
  <2>1. Carried(s.slots, ToSet(s.waiters), a) /\ s \in LcStates
    BY DEF Kept, Sound
  <2>2. \A j, k \in held : j = k
    BY <2>1 DEF Carried
  <2>3. PICK j \in held : TRUE
    OBVIOUS
  <2>4. held = {j, j}
    BY <2>2, <2>3
  <2>5. j \in Int
    BY <2>1, <2>3, LcFields
  <2> HIDE DEF held
  <2>6. Min({j, j}) = j
    BY <2>5, MinTwo
  <2> QED
    BY <2>3, <2>4, <2>6
<1> HIDE DEF held, i
<1>4. CASE held = {}
  BY <1>1, <1>2, <1>4
<1>5. CASE held # {} /\ s.slots[i].st = "CheckedOut"
  <2>1. Sound(left, a, O, {}) /\ Enough(left)
    BY <1>1 DEF Kept
  <2>2. Kept(DriveWaiters(ReleaseSlotAt(left, i)), a, O)
    BY <1>1, <1>3, <1>5, <2>1, ReleaseKept
  <2> QED
    BY <1>2, <1>5, <2>2
<1>6. CASE held # {} /\ s.slots[i].st # "CheckedOut"
  <2>1. Kept([left EXCEPT !.slots[i].waiter = {}], a, O)
    BY <1>1, <1>3, <1>6, ClearedKept
  <2> QED
    BY <1>2, <1>6, <2>1
<1> QED
  BY <1>4, <1>5, <1>6

\* r is e and, after it, an effect of one kind for every member of V
Asked(r, e, kind, V) ==
    /\ r \in Seq(Effects) /\ OneToOne(r)
    /\ ToSet(r) = ToSet(e) \cup {Effect(kind, k) : k \in V}

\* The effects after one of the same kind for every member of V.
LEMMA AskAll ==
    ASSUME NEW e \in Seq(Effects), OneToOne(e), NEW kind \in Kinds, NEW V \in SUBSET Nat,
           NEW v, Lists(v, V), \A k \in V : Effect(kind, k) \notin ToSet(e),
           NEW ask, ask = [j \in DOMAIN v |-> Effect(kind, v[j])],
           NEW r, r = e \o ask
    PROVE  Asked(r, e, kind, V)
<1> DEFINE m == Len(v)
<1>1. /\ m \in Nat /\ DOMAIN v = 1..m /\ \A j \in 1..m : v[j] \in V
      /\ \A j, u \in 1..m : v[j] = v[u] => j = u
      /\ \A k \in V : \E j \in 1..m : v[j] = k
  BY DEF Lists
<1>2. ask \in Seq(Effects) /\ Len(ask) = m /\ DOMAIN ask = 1..m
  <2>1. \A j \in 1..m : Effect(kind, v[j]) \in Effects
    BY <1>1 DEF Effect, Effects
  <2>2. ask \in [1..m -> Effects]
    BY <1>1, <2>1
  <2> QED
    BY <1>1, <2>2
<1>3. \A j \in 1..m : ask[j] = Effect(kind, v[j])
  BY <1>1
<1>4. PICK l : l = Len(e)
  OBVIOUS
<1>5. m = Len(ask) /\ r = e \o ask
  BY <1>2
<1> HIDE DEF m
<1>6. r \in Seq(Effects) /\ Joined(r, e, l, ask, m)
  BY ONLY <1>2, <1>4, <1>5, ConcatFacts, e \in Seq(Effects)
<1>7. \A j \in DOMAIN r : j \notin 1..l =>
        \E k \in 1..m : j = l + k /\ r[j] = Effect(kind, v[k])
  <2> TAKE j \in DOMAIN r
  <2> HAVE j \notin 1..l
  <2>1. PICK k \in 1..m : j = l + k
    BY <1>6 DEF Joined
  <2>2. r[l + k] = ask[k]
    BY <1>6 DEF Joined
  <2> QED
    BY <1>3, <2>1, <2>2
<1>8. ToSet(r) = ToSet(e) \cup {Effect(kind, k) : k \in V}
  <2>1. ASSUME NEW x \in ToSet(r)
        PROVE  x \in ToSet(e) \cup {Effect(kind, k) : k \in V}
    <3>1. PICK j \in DOMAIN r : r[j] = x
      BY DEF ToSet
    <3>2. CASE j \in 1..l
      BY <1>6, <3>1, <3>2 DEF ToSet, Joined
    <3>3. CASE j \notin 1..l
      BY <1>1, <1>7, <3>1, <3>3
    <3> QED
      BY <3>2, <3>3
  <2>2. ASSUME NEW x \in ToSet(e) PROVE x \in ToSet(r)
    <3>1. PICK j \in 1..l : e[j] = x
      BY <1>6 DEF ToSet, Joined
    <3>2. j \in DOMAIN r /\ r[j] = x
      BY <1>6, <3>1 DEF Joined
    <3> QED
      BY <3>2 DEF ToSet
  <2>3. ASSUME NEW k \in V PROVE Effect(kind, k) \in ToSet(r)
    <3>1. PICK j \in 1..m : v[j] = k
      BY <1>1
    <3>2. l + j \in DOMAIN r /\ r[l + j] = Effect(kind, k)
      BY <1>3, <1>6, <3>1 DEF Joined
    <3> QED
      BY <3>2 DEF ToSet
  <2> QED
    BY <2>1, <2>2, <2>3
<1>9. OneToOne(r)
  <2> SUFFICES ASSUME NEW i \in DOMAIN r, NEW j \in DOMAIN r, r[i] = r[j]
               PROVE  i = j
    BY DEF OneToOne
  <2>a. \A x \in DOMAIN e : e[x] \in ToSet(e)
    BY DEF ToSet
  <2>b. \A x \in 1..l : r[x] = e[x] /\ x \in DOMAIN e
    BY <1>6 DEF Joined
  <2>c. \A k \in 1..m : Effect(kind, v[k]) \notin ToSet(e)
    BY <1>1
  <2>1. \A x \in DOMAIN r : x \in 1..l =>
          r[x] = e[x] /\ \A k \in 1..m : Effect(kind, v[k]) # r[x]
    BY <2>a, <2>b, <2>c
  <2>2. CASE i \in 1..l /\ j \in 1..l
    BY <1>6, <2>1, <2>2 DEF OneToOne, Joined
  <2>3. CASE i \in 1..l /\ j \notin 1..l
    <3>1. PICK k \in 1..m : r[j] = Effect(kind, v[k])
      BY <1>7, <2>3
    <3> QED
      BY <2>1, <2>3, <3>1
  <2>4. CASE i \notin 1..l /\ j \in 1..l
    <3>1. PICK k \in 1..m : r[i] = Effect(kind, v[k])
      BY <1>7, <2>4
    <3> QED
      BY <2>1, <2>4, <3>1
  <2>5. CASE i \notin 1..l /\ j \notin 1..l
    <3>1. PICK k \in 1..m : i = l + k /\ r[i] = Effect(kind, v[k])
      BY <1>7, <2>5
    <3>2. PICK u \in 1..m : j = l + u /\ r[j] = Effect(kind, v[u])
      BY <1>7, <2>5
    <3>3. v[k] = v[u]
      BY <3>1, <3>2 DEF Effect
    <3>4. k = u
      BY <1>1, <3>3
    <3> QED
      BY <3>1, <3>2, <3>4
  <2> QED
    BY <2>2, <2>3, <2>4, <2>5
<1> QED
  BY <1>6, <1>8, <1>9 DEF Asked

\* begin_close: the slots at rest or handed out are to be closed, and nobody waits.
LEMMA CloseKept ==
    ASSUME NEW s, NEW a, NEW O, Kept(s, a, O)
    PROVE  Kept(CloseState(s), a, O)
<1> DEFINE V == In(s, {"Idle", "CheckedOut"})
           v == InOrder(V)
           z == [k \in DOMAIN s.slots |->
                    IF k \in ToSet(v) THEN Slot("Closing", {}) ELSE s.slots[k]]
           e == s.effects \o [j \in DOMAIN v |-> Effect("Close", v[j])]
           r == CloseState(s)
<1>1. Sound(s, a, O, {}) /\ s \in LcStates
  BY DEF Kept, Sound
<1>2. /\ s.slots \in Seq(SlotRecs) /\ s.effects \in Seq(Effects)
      /\ DOMAIN s.slots = 1..Len(s.slots) /\ Len(s.slots) \in Nat
      /\ \A i \in DOMAIN s.slots : s.slots[i] \in SlotRecs
  BY <1>1, LcFields
<1>3. V \in SUBSET (1..Len(s.slots)) /\ V \in SUBSET Nat
      /\ \A k \in V : k \in DOMAIN s.slots /\ s.slots[k].st \in {"Idle", "CheckedOut"}
  BY <1>2 DEF In
<1> HIDE DEF V
<1>4. Lists(v, V)
  BY <1>2, <1>3, InOrderFacts
<1>5. ToSet(v) = V
  BY <1>4 DEF Lists, ToSet
<1>6. r = [s EXCEPT !.closing = TRUE, !.waiters = <<>>, !.slots = z, !.effects = e]
  BY <1>1 DEF CloseState, LcStates, V
<1> HIDE DEF v
<1>7. z \in Seq(SlotRecs) /\ DOMAIN z = DOMAIN s.slots
  <2>1. Slot("Closing", {}) \in SlotRecs
    BY DEF Slot, SlotRecs, SlotStates
  <2>2. z \in [1..Len(s.slots) -> SlotRecs]
    BY <1>2, <2>1
  <2> QED
    BY <1>2, <2>2
<1>8. \A k \in DOMAIN s.slots :
        IF k \in V THEN z[k].st = "Closing" /\ z[k].waiter = {} ELSE z[k] = s.slots[k]
  BY <1>5 DEF Slot
<1> HIDE DEF z
<1>9. /\ Matched(s.slots, ToSet(s.effects), O, {}) /\ ToSet(s.effects) \cap O = {}
      /\ OneToOne(s.effects) /\ Carried(s.slots, ToSet(s.waiters), a)
      /\ a \in 0..MaxWaiters /\ O \subseteq Effects /\ Cardinality(Live(s)) <= SlotMax
  BY <1>1 DEF Sound
<1>10. \A k \in V : Effect("Close", k) \notin ToSet(s.effects) \cup O
  <2> TAKE k \in V
  <2>1. k \in Nat /\ ~Asks(s.slots[k].st, "Close") /\ "Close" \in Kinds
    BY <1>3 DEF Asks, Kinds
  <2> QED
    BY <1>9, <2>1 DEF Matched
<1>11. /\ e \in Seq(Effects) /\ OneToOne(e)
       /\ ToSet(e) = ToSet(s.effects) \cup {Effect("Close", k) : k \in V}
  <2>1. PICK kind \in Kinds : kind = "Close"
    BY DEF Kinds
  <2>2. PICK ask : ask = [j \in DOMAIN v |-> Effect(kind, v[j])]
    OBVIOUS
  <2>3. e = s.effects \o ask
    BY <2>1, <2>2
  <2> HIDE DEF e
  <2>4. \A k \in V : Effect(kind, k) \notin ToSet(s.effects)
    BY <1>10, <2>1
  <2>5. s.effects \in Seq(Effects) /\ OneToOne(s.effects) /\ V \in SUBSET Nat
    BY <1>2, <1>3, <1>9
  <2>6. Asked(e, s.effects, kind, V)
    BY ONLY <1>4, <2>2, <2>3, <2>4, <2>5, AskAll, kind \in Kinds
  <2> QED
    BY <2>1, <2>6 DEF Asked
<1> HIDE DEF e
<1>12. /\ r \in LcStates /\ r.waiters = <<>> /\ r.effects = e
       /\ r.closing = TRUE /\ r.slots = z
  <2>a. <<>> \in Seq(WaiterIds)
    OBVIOUS
  <2>1. PICK q \in Seq(WaiterIds) : q = <<>>
    BY <2>a
  <2>2. r = [s EXCEPT !.closing = TRUE, !.waiters = q, !.slots = z, !.effects = e]
    BY <1>6, <2>1
  <2> HIDE DEF r
  <2>3. /\ r \in LcStates /\ r.waiters = q /\ r.effects = e
        /\ r.closing = TRUE /\ r.slots = z
    BY <1>1, <1>7, <1>11, <2>2 DEF LcStates
  <2> QED
    BY <2>1, <2>3
<1> HIDE DEF r
<1>13. Matched(z, ToSet(e), O, {})
  <2> SUFFICES ASSUME NEW k \in Kinds, NEW j \in Nat
               PROVE  Effect(k, j) \in ToSet(e) \cup O
                        <=> j \in DOMAIN z /\ Asks(z[j].st, k)
    BY DEF Matched
  <2>1. Effect(k, j) \in ToSet(s.effects) \cup O
          <=> j \in DOMAIN s.slots /\ Asks(s.slots[j].st, k)
    BY <1>9 DEF Matched
  <2>2. \A i : Effect(k, j) = Effect("Close", i) <=> k = "Close" /\ j = i
    BY DEF Effect
  <2>3. (Asks("Closing", k) <=> k = "Close") /\ ~Asks("Idle", k) /\ ~Asks("CheckedOut", k)
    BY DEF Asks
  <2>4. CASE j \in V
    BY <1>3, <1>7, <1>8, <1>11, <2>1, <2>2, <2>3, <2>4
  <2>5. CASE j \notin V
    BY <1>7, <1>8, <1>11, <2>1, <2>2, <2>5
  <2> QED
    BY <2>4, <2>5
<1>14. ToSet(e) \cap O = {}
  BY <1>9, <1>10, <1>11
<1>15. Carried(z, {}, a)
  <2>1. \A i \in DOMAIN z : z[i].waiter \subseteq s.slots[i].waiter
    BY <1>7, <1>8
  <2> QED
    BY <1>7, <1>9, <2>1 DEF Carried
<1>16. Live(r) = Live(s)
  <2>1. /\ Live(r) = {i \in DOMAIN r.slots : r.slots[i].st # "Closed"}
        /\ Live(s) = {i \in DOMAIN s.slots : s.slots[i].st # "Closed"}
    BY <1>1, <1>12, LiveFacts
  <2> QED
    BY <1>3, <1>7, <1>8, <1>12, <2>1
<1>17. ToSet(r.waiters) = {} /\ OneToOne(r.waiters)
  BY <1>12 DEF ToSet, OneToOne
<1>18. Sound(r, a, O, {})
  BY <1>9, <1>11, <1>12, <1>13, <1>14, <1>15, <1>16, <1>17 DEF Sound
<1> QED
  BY <1>12, <1>18, NoneOwed DEF Kept, Sound, Enough, r

-----------------------------------------------------------------------------
(* The invariant is inductive *)

\* The pool starts sound.
LEMMA InitInv == Init => LifecycleInv
<1> SUFFICES ASSUME Init PROVE LifecycleInv
  OBVIOUS
<1>1. lc = New /\ asked = 0 /\ inflight = {} /\ faults = 0
  BY DEF Init
<1>2. Sound(New, 0, {}, {}) /\ Driven(New) /\ Enough(New)
  BY NewSound
<1>3. faults \in 0..MaxFaults
  BY <1>1, LifecycleAssumption
<1> QED
  BY <1>1, <1>2, <1>3, DrivenIsOwed DEF LifecycleInv, Sound

\* A completion that is answered, whatever it is, leaves the pool sound.
LEMMA AnswerKept ==
    ASSUME LifecycleInv, NEW i \in DOMAIN lc.slots, CompleteSome(i)
    PROVE  Kept(lc', asked', inflight') /\ faults' \in 0..MaxFaults
<1>1. Sound(lc, asked, inflight, {}) /\ Enough(lc) /\ Owed(lc)
      /\ faults \in 0..MaxFaults
  BY DEF LifecycleInv
<1>2. i \in Nat
  BY <1>1, LcFields DEF Sound
<1>3. ASSUME NEW k \in Kinds, Answer(k, i)
      PROVE  Sound(lc, asked, inflight', {i}) /\ Asks(lc.slots[i].st, k) /\ asked' = asked
  <2>1. Effect(k, i) \in inflight /\ inflight' = inflight \ {Effect(k, i)} /\ asked' = asked
    BY <1>3 DEF Answer
  <2> QED
    BY <1>1, <1>2, <2>1, AnsweredSlot
<1>4. Fault => faults' \in 0..MaxFaults
  BY <1>1, LifecycleAssumption DEF Fault
<1>5. ASSUME NEW healthy \in BOOLEAN, CompleteOpen(i, healthy)
      PROVE  Kept(lc', asked', inflight') /\ faults' \in 0..MaxFaults
  <2>1. Answer("Open", i) /\ lc.slots[i].st = "Opening"
        /\ \/ lc' = Granted(lc, i) /\ faults' = faults
           \/ Fault /\ lc' = OpenFailed(lc, i)
    BY <1>5 DEF CompleteOpen
  <2>2. Sound(lc, asked, inflight', {i}) /\ asked' = asked
    BY <1>3, <2>1 DEF Kinds
  <2>3. Kept(Granted(lc, i), asked, inflight')
    BY <1>1, <2>1, <2>2, GrantedKept
  <2>4. Kept(OpenFailed(lc, i), asked, inflight')
    BY <2>1, <2>2, OpenFailedKept
  <2> QED
    BY <1>1, <1>4, <2>1, <2>2, <2>3, <2>4
<1>6. ASSUME NEW healthy \in BOOLEAN, CompletePing(i, healthy)
      PROVE  Kept(lc', asked', inflight') /\ faults' \in 0..MaxFaults
  <2>1. Answer("Ping", i) /\ lc.slots[i].st = "Validating"
        /\ \/ lc' = Granted(lc, i) /\ faults' = faults
           \/ Fault /\ lc' = PingFailed(lc, i)
    BY <1>6 DEF CompletePing
  <2>2. Sound(lc, asked, inflight', {i}) /\ asked' = asked
    BY <1>3, <2>1 DEF Kinds
  <2>3. Kept(Granted(lc, i), asked, inflight')
    BY <1>1, <2>1, <2>2, GrantedKept
  <2>4. Kept(PingFailed(lc, i), asked, inflight')
    BY <1>1, <2>1, <2>2, PingFailedKept
  <2> QED
    BY <1>1, <1>4, <2>1, <2>2, <2>3, <2>4
<1>7. ASSUME CompleteClose(i)
      PROVE  Kept(lc', asked', inflight') /\ faults' \in 0..MaxFaults
  <2>1. Answer("Close", i) /\ lc.slots[i].st \in {"Retiring", "Closing"}
        /\ lc' = Closed(lc, i) /\ faults' = faults
    BY <1>7 DEF CompleteClose
  <2>2. Sound(lc, asked, inflight', {i}) /\ asked' = asked
    BY <1>3, <2>1 DEF Kinds
  <2>3. Kept(Closed(lc, i), asked, inflight')
    BY <2>1, <2>2, ClosedKept
  <2> QED
    BY <1>1, <2>1, <2>2, <2>3
<1> QED
  BY <1>5, <1>6, <1>7 DEF CompleteSome

\* Every step keeps the invariant.
LEMMA NextInv == LifecycleInv /\ [Next]_vars => LifecycleInv'
<1> SUFFICES ASSUME LifecycleInv, [Next]_vars PROVE LifecycleInv'
  OBVIOUS
<1>1. Sound(lc, asked, inflight, {}) /\ Enough(lc) /\ Owed(lc)
      /\ faults \in 0..MaxFaults /\ Kept(lc, asked, inflight)
  BY DEF LifecycleInv, Kept
<1>2. Kept(lc', asked', inflight') /\ faults' \in 0..MaxFaults => LifecycleInv'
  BY DEF LifecycleInv, Kept, Sound, Enough, Owed, Live, In
<1>3. Fault => faults' \in 0..MaxFaults
  BY <1>1, LifecycleAssumption DEF Fault
<1>4. CASE RequestAcquire
  <2>1. /\ ~lc.closing /\ asked < MaxWaiters /\ asked' = asked + 1
        /\ lc' = DriveWaiters([lc EXCEPT !.waiters = Append(@, asked + 1)])
        /\ inflight' = inflight /\ faults' = faults
    BY <1>4 DEF RequestAcquire
  <2>2. Kept(DriveWaiters([lc EXCEPT !.waiters = Append(@, asked + 1)]),
             asked + 1, inflight)
    BY <1>1, <2>1, RequestKept
  <2> QED
    BY <1>1, <1>2, <2>1, <2>2
<1>5. CASE TakeEffects
  <2>1. /\ inflight' = inflight \cup ToSet(lc.effects)
        /\ lc' = [lc EXCEPT !.effects = <<>>]
        /\ asked' = asked /\ faults' = faults
    BY <1>5 DEF TakeEffects
  <2>2. Kept([lc EXCEPT !.effects = <<>>], asked, inflight \cup ToSet(lc.effects))
    BY <1>1, TakeKept
  <2> QED
    BY <1>1, <1>2, <2>1, <2>2
<1>6. ASSUME NEW w \in WaiterIds, CancelAcquire(w) PROVE LifecycleInv'
  <2>1. lc' = Withdraw(lc, w) /\ asked' = asked /\ inflight' = inflight /\ faults' = faults
    BY <1>6 DEF CancelAcquire
  <2>2. Kept(Withdraw(lc, w), asked, inflight)
    BY <1>1, WithdrawKept
  <2> QED
    BY <1>1, <1>2, <2>1, <2>2
<1>7. CASE Complete
  BY <1>2, <1>7, AnswerKept DEF Complete
<1>8. ASSUME NEW i \in DOMAIN lc.slots, Release(i) PROVE LifecycleInv'
  <2>1. /\ lc.slots[i].st = "CheckedOut" /\ lc' = DriveWaiters(ReleaseSlotAt(lc, i))
        /\ asked' = asked /\ inflight' = inflight /\ faults' = faults
    BY <1>8 DEF Release
  <2>2. Kept(DriveWaiters(ReleaseSlotAt(lc, i)), asked, inflight)
    BY <1>1, <2>1, ReleaseKept
  <2> QED
    BY <1>1, <1>2, <2>1, <2>2
<1>9. ASSUME NEW i \in DOMAIN lc.slots, ReapIdle(i) PROVE LifecycleInv'
  <2>1. /\ lc.slots[i].st = "Idle" /\ Fault
        /\ lc' = Emit(SetSlot(lc, i, "Retiring", {}), "Close", i)
        /\ asked' = asked /\ inflight' = inflight
    BY <1>9 DEF ReapIdle
  <2>2. Kept(Emit(SetSlot(lc, i, "Retiring", {}), "Close", i), asked, inflight)
    BY <1>1, <2>1, ReapKept
  <2> QED
    BY <1>2, <1>3, <2>1, <2>2
<1>10. ASSUME NEW force \in BOOLEAN, BeginClose(force) PROVE LifecycleInv'
  <2>1. lc' = CloseState(lc) /\ asked' = asked /\ inflight' = inflight /\ faults' = faults
    BY <1>10 DEF BeginClose
  <2>2. Kept(CloseState(lc), asked, inflight)
    BY <1>1, CloseKept
  <2> QED
    BY <1>1, <1>2, <2>1, <2>2
<1>11. CASE UNCHANGED vars
  <2>1. lc' = lc /\ asked' = asked /\ inflight' = inflight /\ faults' = faults
    BY <1>11 DEF vars
  <2> QED
    BY <1>1, <1>2, <2>1
<1> QED
  BY <1>4, <1>5, <1>6, <1>7, <1>8, <1>9, <1>10, <1>11 DEF Next, ReleaseSome

-----------------------------------------------------------------------------
(* What the invariant says *)

\* A set all of whose members are equal has at most one.
LEMMA AtMostOne ==
    ASSUME NEW S, \A x, y \in S : x = y
    PROVE  Cardinality(S) \in 0..1 /\ (S = {} => Cardinality(S) = 0)
<1>1. CASE S = {}
  BY <1>1, FS_EmptySet
<1>2. CASE S # {}
  <2>1. PICK x \in S : S = {x}
    BY <1>2
  <2>2. Cardinality({x}) = 1
    BY FS_Singleton
  <2> QED
    BY <1>2, <2>1, <2>2
<1> QED
  BY <1>1, <1>2

\* The slots that are not closed are the ones live_slot_count counts.
LEMMA NotClosedIsLive == LifecycleInv => NotClosed = Live(lc)
BY LiveFacts DEF LifecycleInv, Sound, NotClosed

\* Every field has its type, and what is outstanding names a slot.
LEMMA InvType == LifecycleInv => TypeOK
<1> SUFFICES ASSUME LifecycleInv PROVE TypeOK
  OBVIOUS
<1>1. Sound(lc, asked, inflight, {}) /\ lc \in LcStates /\ faults \in 0..MaxFaults
  BY DEF LifecycleInv, Sound
<1>2. lc.slots \in Seq([st : SlotStates, waiter : SUBSET WaiterIds])
      /\ lc.closing \in BOOLEAN
  BY <1>1, LcFields DEF SlotRecs
<1>3. lc.waiters \in Seq(1..asked)
  <2>1. lc.waiters \in Seq(WaiterIds) /\ ToSet(lc.waiters) \subseteq 1..asked
    BY <1>1, LcFields DEF Sound
  <2>2. \A j \in DOMAIN lc.waiters : lc.waiters[j] \in 1..asked
    BY <2>1 DEF ToSet
  <2>3. lc.waiters \in [1..Len(lc.waiters) -> 1..asked] /\ Len(lc.waiters) \in Nat
    BY <2>1, <2>2
  <2>4. Seq(1..asked) = UNION {[1..n -> 1..asked] : n \in Nat}
    BY SeqDef
  <2> QED
    BY <2>3, <2>4
<1>4. asked \in 0..MaxWaiters
  BY <1>1 DEF Sound
<1>5. Outstanding \subseteq [kind : {"Open", "Ping", "Close"}, slot : DOMAIN lc.slots]
  <2> SUFFICES ASSUME NEW e \in Outstanding
               PROVE  e \in [kind : Kinds, slot : DOMAIN lc.slots]
    BY DEF Kinds
  <2>1. e \in Effects
    <3>1. lc.effects \in Seq(Effects) /\ inflight \subseteq Effects
      BY <1>1, LcFields DEF Sound
    <3> QED
      BY <3>1 DEF Outstanding, ToSet
  <2>2. e.kind \in Kinds /\ e.slot \in Nat /\ e = Effect(e.kind, e.slot)
    BY <2>1 DEF Effects, Effect
  <2>3. Matched(lc.slots, ToSet(lc.effects), inflight, {})
    BY <1>1 DEF Sound
  <2>4. e.slot \in DOMAIN lc.slots
    BY <2>2, <2>3 DEF Matched, Outstanding
  <2> QED
    BY <2>1, <2>4 DEF Effects
<1> QED
  BY <1>1, <1>2, <1>3, <1>4, <1>5 DEF TypeOK

\* The machine and its driver agree on what is outstanding.
LEMMA InvEffects == LifecycleInv => OneEffectPerSlot
<1> SUFFICES ASSUME LifecycleInv PROVE OneEffectPerSlot
  OBVIOUS
<1>1. /\ lc \in LcStates /\ Matched(lc.slots, ToSet(lc.effects), inflight, {})
      /\ OneToOne(lc.effects) /\ ToSet(lc.effects) \cap inflight = {}
      /\ inflight \subseteq Effects
  BY DEF LifecycleInv, Sound
<1>2. Outstanding \subseteq Effects
  <2>1. lc.effects \in Seq(Effects)
    BY <1>1, LcFields
  <2> QED
    BY <1>1, <2>1 DEF Outstanding, ToSet
<1>3. ASSUME NEW i \in DOMAIN lc.slots
      PROVE  {e \in Outstanding : e.slot = i} = Expected(i)
  <2>1. i \in Nat /\ lc.slots[i].st \in SlotStates
    BY <1>1, LcFields
  <2>2. \A k \in Kinds : Effect(k, i) \in Outstanding <=> Asks(lc.slots[i].st, k)
    BY <1>1, <2>1 DEF Matched, Outstanding
  <2>3. \A e \in Outstanding : e.slot = i => e.kind \in Kinds /\ e = Effect(e.kind, i)
    BY <1>2 DEF Effects, Effect
  <2>4. \A k : Effect(k, i).slot = i /\ Effect(k, i).kind = k
    BY DEF Effect
  <2>5. {e \in Outstanding : e.slot = i}
            = {Effect(k, i) : k \in {m \in Kinds : Asks(lc.slots[i].st, m)}}
    BY <2>2, <2>3, <2>4
  <2>6. Expected(i) = {Effect(k, i) : k \in {m \in Kinds : Asks(lc.slots[i].st, m)}}
    <3> DEFINE K == {m \in Kinds : Asks(lc.slots[i].st, m)}
    <3>1. CASE lc.slots[i].st = "Opening"
      <4>1. K = {"Open"}
        BY <3>1 DEF Asks, Kinds
      <4>2. Expected(i) = {Effect("Open", i)}
        BY <3>1 DEF Expected
      <4> QED
        BY <4>1, <4>2
    <3>2. CASE lc.slots[i].st = "Validating"
      <4>1. K = {"Ping"}
        BY <3>2 DEF Asks, Kinds
      <4>2. Expected(i) = {Effect("Ping", i)}
        BY <3>2 DEF Expected
      <4> QED
        BY <4>1, <4>2
    <3>3. CASE lc.slots[i].st \in {"Retiring", "Closing"}
      <4>1. K = {"Close"}
        BY <3>3 DEF Asks, Kinds
      <4>2. Expected(i) = {Effect("Close", i)}
        BY <3>3 DEF Expected
      <4> QED
        BY <4>1, <4>2
    <3>4. CASE lc.slots[i].st \in {"Idle", "CheckedOut", "Closed"}
      <4>1. K = {}
        BY <3>4 DEF Asks, Kinds
      <4>2. Expected(i) = {}
        BY <3>4 DEF Expected
      <4> QED
        BY <4>1, <4>2
    <3> QED
      BY <2>1, <3>1, <3>2, <3>3, <3>4 DEF SlotStates
  <2> QED
    BY <2>5, <2>6
<1> QED
  BY <1>1, <1>3 DEF OneEffectPerSlot, OneToOne

\* A waiter is queued once or carried by one slot.
LEMMA InvWaiters == LifecycleInv => OnePlacePerWaiter
<1> SUFFICES ASSUME LifecycleInv, NEW w \in WaiterIds
             PROVE  Cardinality({j \in DOMAIN lc.waiters : lc.waiters[j] = w})
                      + Cardinality({i \in DOMAIN lc.slots : w \in lc.slots[i].waiter}) <= 1
  BY DEF OnePlacePerWaiter
<1> DEFINE Q == {j \in DOMAIN lc.waiters : lc.waiters[j] = w}
           C == {i \in DOMAIN lc.slots : w \in lc.slots[i].waiter}
<1>1. OneToOne(lc.waiters) /\ Carried(lc.slots, ToSet(lc.waiters), asked)
  BY DEF LifecycleInv, Sound
<1>2. \A x, y \in Q : x = y
  BY <1>1 DEF OneToOne
<1>3. \A x, y \in C : x = y
  BY <1>1 DEF Carried
<1>4. Q = {} \/ C = {}
  <2>1. Q # {} => w \in ToSet(lc.waiters)
    BY DEF ToSet
  <2>2. C # {} => w \notin ToSet(lc.waiters)
    BY <1>1 DEF Carried
  <2> QED
    BY <2>1, <2>2
<1> HIDE DEF Q, C
<1>5. /\ Cardinality(Q) \in 0..1 /\ (Q = {} => Cardinality(Q) = 0)
      /\ Cardinality(C) \in 0..1 /\ (C = {} => Cardinality(C) = 0)
  BY <1>2, <1>3, AtMostOne
<1>6. Cardinality(Q) + Cardinality(C) <= 1
  BY <1>4, <1>5
<1> QED
  BY <1>6 DEF Q, C

\* The number of slots stays between min and max.
LEMMA InvLimits == LifecycleInv => WithinLimits
BY NotClosedIsLive DEF LifecycleInv, Sound, Enough, WithinLimits

\* PurePoolState and its driver agree on what is outstanding in every order of
\* completions, failures, cancellations and closes: every effect is the one its
\* slot waits for and is asked for once, a waiter is in one place, and the
\* slots stay between min and max (complete_open, complete_ping,
\* complete_close, cancel_acquire, begin_close).
THEOREM SlotsStayConsistent == Spec => []SlotsConsistent
<1>1. LifecycleInv => SlotsConsistent
  BY InvType, InvEffects, InvWaiters, InvLimits DEF SlotsConsistent
<1> QED
  BY <1>1, InitInv, NextInv, PTL DEF Spec

\* The waiters left in the queue that an idle slot or a new one could serve are
\* never more than the slots that retire, whose complete_close will serve them:
\* no operation of PurePoolState but complete_ping and reap_idle leaves a waiter
\* that could be served.
THEOREM QueueStaysOwed == Spec => []QueueIsOwed
<1>1. LifecycleInv => QueueIsOwed
  BY NotClosedIsLive DEF LifecycleInv, Owed, QueueIsOwed
<1> QED
  BY <1>1, InitInv, NextInv, PTL DEF Spec
=============================================================================
