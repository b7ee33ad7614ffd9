-------------------------- MODULE RowPagingProofs --------------------------
(***************************************************************************)
(* Proofs about RowPaging: for every table, every array size, limit and    *)
(* page split, and with a failure, a deadline or a drop anywhere, the five *)
(* readers deliver the result set and leave the connection clean.          *)
(*                                                                         *)
(* The first part is about the codec: parsing a page of n rows that were   *)
(* compressed against the row before them gives back those rows, by both   *)
(* decoders.  The loops of the decoders are recursive functions of the     *)
(* number of messages read; what they compute is shown by induction, with  *)
(* a least counterexample.  The second part is the invariant of a reader   *)
(* and its server, one lemma per action.                                   *)
(***************************************************************************)
EXTENDS RowPaging, SequenceTheorems, WellFoundedInduction, TLAPS

\* A non-empty set of naturals has a least element.
LEMMA LeastNat ==
    ASSUME NEW S \in SUBSET Nat, S # {}
    PROVE  \E m \in S : \A k \in S : m <= k
<1> DEFINE R == OpToRel(<, Nat)
<1>1. IsWellFoundedOn(R, Nat)
  BY NatLessThanWellFounded
<1>2. \A k, m \in Nat : k < m => <<k, m>> \in R
  BY DEF OpToRel
<1> HIDE DEF R
<1>3. \E m \in S : \A k \in S : ~(<<k, m>> \in R)
  BY <1>1, WFMin
<1>4. PICK m \in S : \A k \in S : ~(<<k, m>> \in R)
  BY <1>3
<1>5. ASSUME NEW k \in S PROVE m <= k
  <2>1. ~(k < m) BY <1>2, <1>4
  <2>2. QED BY <2>1
<1>6. QED BY <1>5

\* Sequences of the same length with the same elements are equal.
LEMMA SameSequence ==
    ASSUME NEW M, NEW s \in Seq(M), NEW t \in Seq(M), Len(s) = Len(t),
           \A i \in 1..Len(s) : s[i] = t[i]
    PROVE  s = t
  OBVIOUS

\* The loop of parse_query_response has a state after each message.
LEMMA ParseLoop ==
    ASSUME NEW msgs, Len(msgs) \in Nat, NEW seed
    PROVE  \E f : /\ f = [k \in 0..Len(msgs) |->
                            IF k = 0 THEN NoPage ELSE ParseMessage(f[k - 1], msgs[k], seed)]
                  /\ Parse(msgs, seed) = f[Len(msgs)]
<1> DEFINE Loop(f, n) == f = [k \in 0..n |->
               IF k = 0 THEN NoPage ELSE ParseMessage(f[k - 1], msgs[k], seed)]
           T == {n \in Nat : ~\E f : Loop(f, n)}
<1>1. T = {}
  <2> SUFFICES ASSUME T # {} PROVE FALSE
    OBVIOUS
  <2>1. PICK m \in T : \A k \in T : m <= k
    BY LeastNat
  <2>2. CASE m = 0
    <3>1. Loop([k \in 0..0 |-> NoPage], 0)
      OBVIOUS
    <3> QED
      BY <2>2, <3>1
  <2>3. CASE m # 0
    <3>0. m \in Nat
      OBVIOUS
    <3>1. m - 1 \in Nat /\ m - 1 \notin T
      <4> HIDE DEF T
      <4> QED
        BY <2>1, <2>3, <3>0
    <3>2. PICK f : Loop(f, m - 1)
      BY <3>1
    <3> DEFINE h == [k \in 0..m |-> IF k = m THEN ParseMessage(f[m - 1], msgs[m], seed)
                                    ELSE f[k]]
    <3>3. ASSUME NEW k \in 0..m
          PROVE  h[k] = IF k = 0 THEN NoPage ELSE ParseMessage(h[k - 1], msgs[k], seed)
      <4>1. CASE k = m
        <5>1. h[k - 1] = f[m - 1]
          BY <2>3, <3>1, <4>1
        <5>2. h[k] = ParseMessage(f[m - 1], msgs[m], seed)
          BY <4>1
        <5> QED
          BY <2>3, <4>1, <5>1, <5>2
      <4>2. CASE k # m
        <5>1. k \in 0..(m - 1) /\ h[k] = f[k]
          BY <3>1, <4>2
        <5>2. f[k] = IF k = 0 THEN NoPage ELSE ParseMessage(f[k - 1], msgs[k], seed)
          BY <3>2, <5>1
        <5>3. k # 0 => h[k - 1] = f[k - 1]
          BY <5>1, <3>1
        <5> QED
          BY <5>1, <5>2, <5>3
      <4> QED
        BY <4>1, <4>2
    <3>4. Loop(h, m)
      BY <3>3
    <3> QED
      BY <2>1, <3>4
  <2> QED
    BY <2>2, <2>3
<1>2. \E f : Loop(f, Len(msgs))
  BY <1>1
<1> DEFINE after == CHOOSE f : Loop(f, Len(msgs))
<1>3. Loop(after, Len(msgs))
  BY <1>2
<1>4. Parse(msgs, seed) = after[Len(msgs)]
  BY DEF Parse
<1> QED
  BY <1>3, <1>4

\* One more message is one more turn of the loop.
LEMMA ParseAppend ==
    ASSUME NEW M, NEW msgs \in Seq(M), NEW m \in M, NEW seed
    PROVE  Parse(Append(msgs, m), seed) = ParseMessage(Parse(msgs, seed), m, seed)
<1> DEFINE n == Len(msgs)
           more == Append(msgs, m)
<1>0. n \in Nat /\ Len(more) = n + 1 /\ more[n + 1] = m /\ \A k \in 1..n : more[k] = msgs[k]
  OBVIOUS
<1>1. PICK f : /\ f = [k \in 0..n |->
                         IF k = 0 THEN NoPage ELSE ParseMessage(f[k - 1], msgs[k], seed)]
               /\ Parse(msgs, seed) = f[n]
  BY <1>0, ParseLoop
<1>a. Len(more) \in Nat
  BY <1>0
<1> HIDE DEF n, more
<1>b. PICK g : /\ g = [k \in 0..Len(more) |->
                         IF k = 0 THEN NoPage ELSE ParseMessage(g[k - 1], more[k], seed)]
               /\ Parse(more, seed) = g[Len(more)]
  BY <1>a, ParseLoop
<1>2. /\ g = [k \in 0..(n + 1) |->
                IF k = 0 THEN NoPage ELSE ParseMessage(g[k - 1], more[k], seed)]
      /\ Parse(more, seed) = g[n + 1]
  BY <1>0, <1>b
<1> DEFINE T == {k \in 0..n : f[k] # g[k]}
<1>3. T = {}
  <2> SUFFICES ASSUME T # {} PROVE FALSE
    OBVIOUS
  <2>0. T \in SUBSET Nat
    BY <1>0
  <2>1. PICK k \in T : \A j \in T : k <= j
    BY <2>0, LeastNat
  <2>2. CASE k = 0
    BY <1>0, <1>1, <1>2, <2>2
  <2>3. CASE k # 0
    <3>1. k \in 1..n /\ k - 1 \in 0..n /\ k \in 0..(n + 1) /\ k - 1 \notin T
      BY <1>0, <2>1, <2>3
    <3>2. f[k - 1] = g[k - 1]
      BY <3>1
    <3>3. f[k] = ParseMessage(f[k - 1], msgs[k], seed)
      BY <1>1, <2>3, <3>1
    <3>4. g[k] = ParseMessage(g[k - 1], more[k], seed)
      BY <1>2, <2>3, <3>1
    <3> QED
      BY <1>0, <3>1, <3>2, <3>3, <3>4
  <2> QED
    BY <2>2, <2>3
<1>4. f[n] = g[n]
  BY <1>0, <1>3
<1>5. g[n + 1] = ParseMessage(g[n], more[n + 1], seed)
  BY <1>0, <1>2
<1> QED
  BY <1>0, <1>1, <1>2, <1>4, <1>5 DEF more

\* The loops start with an empty page.
LEMMA ParseNothing == ASSUME NEW seed PROVE Parse(<< >>, seed) = NoPage
<1>1. Len(<< >>) = 0
  OBVIOUS
<1>2. PICK f : /\ f = [k \in 0..0 |->
                         IF k = 0 THEN NoPage ELSE ParseMessage(f[k - 1], << >>[k], seed)]
               /\ Parse(<< >>, seed) = f[0]
  BY <1>1, ParseLoop
<1> QED
  BY <1>2

\* The loop of the borrowed decoder.
LEMMA BorrowedLoop ==
    ASSUME NEW msgs, Len(msgs) \in Nat, NEW seed
    PROVE  \E f : /\ f = [k \in 0..Len(msgs) |->
                            IF k = 0 THEN NoPage ELSE BorrowedMessage(f[k - 1], msgs[k], seed)]
                  /\ ParseBorrowed(msgs, seed) = f[Len(msgs)]
<1> DEFINE Loop(f, n) == f = [k \in 0..n |->
               IF k = 0 THEN NoPage ELSE BorrowedMessage(f[k - 1], msgs[k], seed)]
           T == {n \in Nat : ~\E f : Loop(f, n)}
<1>1. T = {}
  <2> SUFFICES ASSUME T # {} PROVE FALSE
    OBVIOUS
  <2>1. PICK m \in T : \A k \in T : m <= k
    BY LeastNat
  <2>2. CASE m = 0
    <3>1. Loop([k \in 0..0 |-> NoPage], 0)
      OBVIOUS
    <3> QED
      BY <2>2, <3>1
  <2>3. CASE m # 0
    <3>0. m \in Nat
      OBVIOUS
    <3>1. m - 1 \in Nat /\ m - 1 \notin T
      <4> HIDE DEF T
      <4> QED
        BY <2>1, <2>3, <3>0
    <3>2. PICK f : Loop(f, m - 1)
      BY <3>1
    <3> DEFINE h == [k \in 0..m |-> IF k = m THEN BorrowedMessage(f[m - 1], msgs[m], seed)
                                    ELSE f[k]]
    <3>3. ASSUME NEW k \in 0..m
          PROVE  h[k] = IF k = 0 THEN NoPage ELSE BorrowedMessage(h[k - 1], msgs[k], seed)
      <4>1. CASE k = m
        <5>1. h[k - 1] = f[m - 1]
          BY <2>3, <3>1, <4>1
        <5>2. h[k] = BorrowedMessage(f[m - 1], msgs[m], seed)
          BY <4>1
        <5> QED
          BY <2>3, <4>1, <5>1, <5>2
      <4>2. CASE k # m
        <5>1. k \in 0..(m - 1) /\ h[k] = f[k]
          BY <3>1, <4>2
        <5>2. f[k] = IF k = 0 THEN NoPage ELSE BorrowedMessage(f[k - 1], msgs[k], seed)
          BY <3>2, <5>1
        <5>3. k # 0 => h[k - 1] = f[k - 1]
          BY <5>1, <3>1
        <5> QED
          BY <5>1, <5>2, <5>3
      <4> QED
        BY <4>1, <4>2
    <3>4. Loop(h, m)
      BY <3>3
    <3> QED
      BY <2>1, <3>4
  <2> QED
    BY <2>2, <2>3
<1>2. \E f : Loop(f, Len(msgs))
  BY <1>1
<1> DEFINE after == CHOOSE f : Loop(f, Len(msgs))
<1>3. Loop(after, Len(msgs))
  BY <1>2
<1>4. ParseBorrowed(msgs, seed) = after[Len(msgs)]
  BY DEF ParseBorrowed
<1> QED
  BY <1>3, <1>4

\* The same for the borrowed decoder.
LEMMA BorrowedAppend ==
    ASSUME NEW M, NEW msgs \in Seq(M), NEW m \in M, NEW seed
    PROVE  ParseBorrowed(Append(msgs, m), seed) = BorrowedMessage(ParseBorrowed(msgs, seed), m, seed)
<1> DEFINE n == Len(msgs)
           more == Append(msgs, m)
<1>0. n \in Nat /\ Len(more) = n + 1 /\ more[n + 1] = m /\ \A k \in 1..n : more[k] = msgs[k]
  OBVIOUS
<1>1. PICK f : /\ f = [k \in 0..n |->
                         IF k = 0 THEN NoPage ELSE BorrowedMessage(f[k - 1], msgs[k], seed)]
               /\ ParseBorrowed(msgs, seed) = f[n]
  BY <1>0, BorrowedLoop
<1>a. Len(more) \in Nat
  BY <1>0
<1> HIDE DEF n, more
<1>b. PICK g : /\ g = [k \in 0..Len(more) |->
                         IF k = 0 THEN NoPage ELSE BorrowedMessage(g[k - 1], more[k], seed)]
               /\ ParseBorrowed(more, seed) = g[Len(more)]
  BY <1>a, BorrowedLoop
<1>2. /\ g = [k \in 0..(n + 1) |->
                IF k = 0 THEN NoPage ELSE BorrowedMessage(g[k - 1], more[k], seed)]
      /\ ParseBorrowed(more, seed) = g[n + 1]
  BY <1>0, <1>b
<1> DEFINE T == {k \in 0..n : f[k] # g[k]}
<1>3. T = {}
  <2> SUFFICES ASSUME T # {} PROVE FALSE
    OBVIOUS
  <2>0. T \in SUBSET Nat
    BY <1>0
  <2>1. PICK k \in T : \A j \in T : k <= j
    BY <2>0, LeastNat
  <2>2. CASE k = 0
    BY <1>0, <1>1, <1>2, <2>2
  <2>3. CASE k # 0
    <3>1. k \in 1..n /\ k - 1 \in 0..n /\ k \in 0..(n + 1) /\ k - 1 \notin T
      BY <1>0, <2>1, <2>3
    <3>2. f[k - 1] = g[k - 1]
      BY <3>1
    <3>3. f[k] = BorrowedMessage(f[k - 1], msgs[k], seed)
      BY <1>1, <2>3, <3>1
    <3>4. g[k] = BorrowedMessage(g[k - 1], more[k], seed)
      BY <1>2, <2>3, <3>1
    <3> QED
      BY <1>0, <3>1, <3>2, <3>3, <3>4
  <2> QED
    BY <2>2, <2>3
<1>4. f[n] = g[n]
  BY <1>0, <1>3
<1>5. g[n + 1] = BorrowedMessage(g[n], more[n + 1], seed)
  BY <1>0, <1>2
<1> QED
  BY <1>0, <1>1, <1>2, <1>4, <1>5 DEF more

\* The borrowed loop starts with an empty page.
LEMMA BorrowedNothing == ASSUME NEW seed PROVE ParseBorrowed(<< >>, seed) = NoPage
<1>1. Len(<< >>) = 0
  OBVIOUS
<1>2. PICK f : /\ f = [k \in 0..0 |->
                         IF k = 0 THEN NoPage ELSE BorrowedMessage(f[k - 1], << >>[k], seed)]
               /\ ParseBorrowed(<< >>, seed) = f[0]
  BY <1>1, BorrowedLoop
<1> QED
  BY <1>2

-----------------------------------------------------------------------------
(* FlattenSeq *)

\* FlattenSeq has a value after each of the sequences it puts together.
LEMMA FlattenLoop ==
    ASSUME NEW ss, Len(ss) \in Nat \ {0}
    PROVE  \E f : /\ f = [i \in 1..Len(ss) |-> IF i = 1 THEN ss[i] ELSE f[i - 1] \o ss[i]]
                  /\ FlattenSeq(ss) = f[Len(ss)]
<1> DEFINE Loop(f, n) == f = [i \in 1..n |-> IF i = 1 THEN ss[i] ELSE f[i - 1] \o ss[i]]
           T == {n \in Nat : ~\E f : Loop(f, n)}
<1>1. T = {}
  <2> SUFFICES ASSUME T # {} PROVE FALSE
    OBVIOUS
  <2>1. PICK m \in T : \A k \in T : m <= k
    BY LeastNat
  <2>2. CASE m = 0
    <3>1. Loop([i \in 1..0 |-> << >>], 0)
      OBVIOUS
    <3> QED
      BY <2>2, <3>1
  <2>3. CASE m # 0
    <3>0. m \in Nat
      OBVIOUS
    <3>1. m - 1 \in Nat /\ m - 1 \notin T
      <4> HIDE DEF T
      <4> QED
        BY <2>1, <2>3, <3>0
    <3>2. PICK f : Loop(f, m - 1)
      BY <3>1
    <3> DEFINE h == [i \in 1..m |-> IF i # m THEN f[i]
                                    ELSE IF i = 1 THEN ss[1] ELSE f[m - 1] \o ss[m]]
    <3>3. ASSUME NEW k \in 1..m
          PROVE  h[k] = IF k = 1 THEN ss[k] ELSE h[k - 1] \o ss[k]
      <4>1. CASE k = m /\ k # 1
        <5>1. h[k - 1] = f[m - 1]
          BY <2>3, <3>1, <4>1
        <5>2. h[k] = f[m - 1] \o ss[m]
          BY <4>1
        <5> QED
          BY <4>1, <5>1, <5>2
      <4>2. CASE k = m /\ k = 1
        BY <4>2
      <4>3. CASE k # m
        <5>1. k \in 1..(m - 1) /\ h[k] = f[k]
          BY <3>1, <4>3
        <5>2. f[k] = IF k = 1 THEN ss[k] ELSE f[k - 1] \o ss[k]
          BY <3>2, <5>1
        <5>3. k # 1 => h[k - 1] = f[k - 1]
          BY <5>1, <3>1
        <5> QED
          BY <5>1, <5>2, <5>3
      <4> QED
        BY <4>1, <4>2, <4>3
    <3>4. Loop(h, m)
      BY <3>3
    <3> QED
      BY <2>1, <3>4
  <2> QED
    BY <2>2, <2>3
<1>2. \E f : Loop(f, Len(ss))
  BY <1>1
<1> DEFINE flatten == CHOOSE f : Loop(f, Len(ss))
<1>3. Loop(flatten, Len(ss))
  BY <1>2
<1>4. FlattenSeq(ss) = flatten[Len(ss)]
  BY DEF FlattenSeq
<1> QED
  BY <1>3, <1>4

\* Flattening one sequence more appends it.
LEMMA FlattenAppend ==
    ASSUME NEW M, NEW ss \in Seq(Seq(M)), NEW s \in Seq(M)
    PROVE  FlattenSeq(Append(ss, s)) = FlattenSeq(ss) \o s
<1> DEFINE n == Len(ss)
           more == Append(ss, s)
<1>0. n \in Nat /\ Len(more) = n + 1 /\ more[n + 1] = s /\ \A k \in 1..n : more[k] = ss[k]
  OBVIOUS
<1>2. PICK g : /\ g = [i \in 1..(n + 1) |-> IF i = 1 THEN more[i] ELSE g[i - 1] \o more[i]]
               /\ FlattenSeq(more) = g[n + 1]
  <2>1. Len(more) \in Nat \ {0}
    BY <1>0
  <2> HIDE DEF more
  <2> QED
    BY <1>0, <2>1, FlattenLoop
<1>3. CASE n = 0
  <2>1. FlattenSeq(ss) = << >>
    <3>1. ss = << >>
      BY <1>3
    <3> QED
      BY <1>3, <3>1 DEF FlattenSeq
  <2>2. g[1] = s
    BY <1>0, <1>2, <1>3
  <2> QED
    BY <1>2, <1>3, <2>1, <2>2
<1>4. CASE n # 0
  <2>1. PICK f : /\ f = [i \in 1..n |-> IF i = 1 THEN ss[i] ELSE f[i - 1] \o ss[i]]
                 /\ FlattenSeq(ss) = f[n]
    BY <1>0, <1>4, FlattenLoop
  <2> HIDE DEF n, more
  <2> DEFINE T == {k \in 1..n : f[k] # g[k]}
  <2>2. T = {}
    <3> SUFFICES ASSUME T # {} PROVE FALSE
      OBVIOUS
    <3>0. T \in SUBSET Nat
      BY <1>0
    <3>1. PICK k \in T : \A j \in T : k <= j
      BY <3>0, LeastNat
    <3>2. CASE k = 1
      BY <1>0, <1>2, <2>1, <3>2
    <3>3. CASE k # 1
      <4>1. k \in 1..n /\ k - 1 \in 1..n /\ k \in 1..(n + 1) /\ k - 1 \notin T
        <5>1. k \in 1..n /\ k - 1 \in 1..n /\ k \in 1..(n + 1)
          BY <1>0, <3>3
        <5> HIDE DEF T
        <5> QED
          BY <3>1, <5>1
      <4>2. f[k - 1] = g[k - 1]
        BY <4>1
      <4>3. f[k] = f[k - 1] \o ss[k]
        BY <2>1, <3>3, <4>1
      <4>4. g[k] = g[k - 1] \o more[k]
        BY <1>2, <3>3, <4>1
      <4> QED
        BY <1>0, <4>1, <4>2, <4>3, <4>4
    <3> QED
      BY <3>2, <3>3
  <2>3. f[n] = g[n]
    BY <1>0, <1>4, <2>2
  <2>4. g[n + 1] = g[n] \o more[n + 1]
    <3>1. \A i \in 1..(n + 1) : g[i] = IF i = 1 THEN more[i] ELSE g[i - 1] \o more[i]
      BY <1>2
    <3>2. n + 1 \in 1..(n + 1) /\ n + 1 # 1 /\ (n + 1) - 1 = n
      BY <1>0, <1>4
    <3> QED
      BY <3>1, <3>2
  <2> QED
    BY <1>0, <1>2, <2>1, <2>3, <2>4 DEF more
<1> QED
  BY <1>0, <1>3, <1>4

\* Two messages one after the other.
LEMMA TwoMore ==
    ASSUME NEW M, NEW s \in Seq(M), NEW a \in M, NEW b \in M
    PROVE  <<a>> \o <<b>> = <<a, b>> /\ s \o <<a, b>> = Append(Append(s, a), b)
<1>1. <<a>> \o <<b>> = <<a, b>>
  <2>1. <<a>> \o <<b>> \in Seq(M) /\ <<a, b>> \in Seq(M)
    OBVIOUS
  <2>2. Len(<<a>> \o <<b>>) = 2 /\ Len(<<a, b>>) = 2
    OBVIOUS
  <2>3. (<<a>> \o <<b>>)[1] = a /\ (<<a>> \o <<b>>)[2] = b
    OBVIOUS
  <2>4. \A i \in 1..2 : (<<a>> \o <<b>>)[i] = <<a, b>>[i]
    BY <2>3
  <2> QED
    BY <2>1, <2>2, <2>4, SameSequence
<1>2. s \o <<a, b>> = Append(Append(s, a), b)
  <2> DEFINE u == s \o <<a, b>>
             v == Append(Append(s, a), b)
  <2>1. u \in Seq(M) /\ v \in Seq(M) /\ Len(u) = Len(s) + 2 /\ Len(v) = Len(s) + 2
    OBVIOUS
  <2>2. ASSUME NEW i \in 1..(Len(s) + 2) PROVE u[i] = v[i]
    <3>1. CASE i \in 1..Len(s)
      BY <3>1
    <3>2. CASE i = Len(s) + 1
      BY <3>2
    <3>3. CASE i = Len(s) + 2
      BY <3>3
    <3> QED
      BY <3>1, <3>2, <3>3
  <2> HIDE DEF u, v
  <2>3. u = v
    BY <2>1, <2>2, SameSequence
  <2> QED
    BY <2>3 DEF u, v
<1> QED
  BY <1>1, <1>2

-----------------------------------------------------------------------------
(* What a page decodes to *)

\* the error codes a page may end with, and the messages of a page
Codes == {"ok", "nodata", "fail"}
Messages ==
    [type : {"bits"}, cols : SUBSET Columns]
    \cup [type : {"row"}, cells : UNION {[D -> Values] : D \in SUBSET Columns}]
    \cup [type : {"end"}, code : Codes]

\* the row a page that starts after `sent` rows is compressed against
\* the row a page that starts after sent rows is compressed against
Before(sent) == IF sent = 0 THEN NoRow ELSE table[sent]

\* the n rows after the first sent, as the server writes them
RowsOf(sent, n, compress) ==
    [k \in 1..n |-> RowMessages(IF sent + k = 1 THEN NoRow ELSE table[sent + k - 1],
                                table[sent + k], compress)]

\* the state of the parse after so many complete rows
PageOf(rows) == [rows |-> rows, bits |-> {}, more |-> TRUE, ok |-> TRUE]

\* The messages of a row are messages.
LEMMA MessagesOfRow ==
    ASSUME NEW prev \in Row \cup {NoRow}, NEW row \in Row, NEW compress \in BOOLEAN
    PROVE  RowMessages(prev, row, compress) \in Seq(Messages)
<1> DEFINE dup == IF compress /\ prev # NoRow THEN {c \in Columns : prev[c] = row[c]} ELSE {}
           b == [type |-> "bits", cols |-> dup]
           r == [type |-> "row", cells |-> [c \in Columns \ dup |-> row[c]]]
<1>0. dup \in SUBSET Columns
  OBVIOUS
<1>1. RowMessages(prev, row, compress) = (IF dup = {} THEN << >> ELSE <<b>>) \o <<r>>
  BY DEF RowMessages
<1>2. b \in Messages /\ r \in Messages
  <2>1. [c \in Columns \ dup |-> row[c]] \in [Columns \ dup -> Values]
    BY DEF Row
  <2> HIDE DEF dup
  <2> QED
    BY <1>0, <2>1 DEF Messages
<1> HIDE DEF dup, b, r
<1> QED
  BY <1>1, <1>2

\* A row is decoded as it was sent, compressed or not, when the row before it
\* on this page, or the seed, is the row the server compressed it against.
LEMMA RowParsed ==
    ASSUME NEW prev \in Row \cup {NoRow}, NEW row \in Row, NEW compress \in BOOLEAN,
           NEW rows \in Seq(Row), NEW seed, NEW msgs \in Seq(Messages),
           prev = IF rows # << >> THEN Last(rows) ELSE seed,
           Parse(msgs, seed) = PageOf(rows)
    PROVE  Parse(msgs \o RowMessages(prev, row, compress), seed) = PageOf(Append(rows, row))
<1> DEFINE dup == IF compress /\ prev # NoRow THEN {c \in Columns : prev[c] = row[c]} ELSE {}
           b == [type |-> "bits", cols |-> dup]
           r == [type |-> "row", cells |-> [c \in Columns \ dup |-> row[c]]]
<1>0. dup \in SUBSET Columns /\ (dup # {} => prev # NoRow) /\ \A c \in dup : prev[c] = row[c]
  OBVIOUS
<1>1. RowMessages(prev, row, compress) = (IF dup = {} THEN << >> ELSE <<b>>) \o <<r>>
  BY DEF RowMessages
<1>2. b \in Messages /\ r \in Messages
  <2>1. [c \in Columns \ dup |-> row[c]] \in [Columns \ dup -> Values]
    BY DEF Row
  <2> HIDE DEF dup
  <2> QED
    BY <1>0, <2>1 DEF Messages
<1>3. ASSUME NEW bits \in SUBSET Columns, bits = dup
      PROVE  ParseMessage([rows |-> rows, bits |-> bits, more |-> TRUE, ok |-> TRUE], r, seed)
                = PageOf(Append(rows, row))
  <2> DEFINE p == [rows |-> rows, bits |-> bits, more |-> TRUE, ok |-> TRUE]
             full == [c \in Columns |-> IF c \in bits THEN prev[c] ELSE r.cells[c]]
  <2>1. p.ok /\ r.type # "bits" /\ r.type = "row" /\ p.rows = rows /\ p.bits = bits
    OBVIOUS
  <2>2. ParseMessage(p, r, seed) = ParseRowData(p, r.cells, seed)
    <3> HIDE DEF p, r
    <3> QED
      BY <2>1 DEF ParseMessage
  <2>3. DOMAIN r.cells = Columns \ bits
    BY <1>3
  <2>4. ~(bits # {} /\ prev = NoRow)
    BY <1>0, <1>3
  <2>5. ParseRowData(p, r.cells, seed) = [p EXCEPT !.rows = Append(@, full), !.bits = {}]
    <3>1. full = [c \in Columns |-> IF c \in p.bits THEN prev[c] ELSE r.cells[c]]
      BY <2>1
    <3> HIDE DEF p, r, full
    <3> QED
      BY <2>1, <2>3, <2>4, <3>1 DEF ParseRowData
  <2>6. full = row
    <3>1. row = [c \in Columns |-> row[c]]
      BY DEF Row
    <3>2. \A c \in Columns : c \notin bits => r.cells[c] = row[c]
      <4>1. r.cells = [c \in Columns \ dup |-> row[c]]
        OBVIOUS
      <4> HIDE DEF r, dup
      <4> QED
        BY <1>3, <4>1
    <3> HIDE DEF r, dup
    <3> QED
      BY <1>0, <1>3, <3>1, <3>2
  <2> HIDE DEF full, r, dup
  <2> QED
    BY <2>2, <2>5, <2>6 DEF PageOf
<1> HIDE DEF dup
<1>4. CASE dup = {}
  <2>1. RowMessages(prev, row, compress) = <<r>>
    BY <1>1, <1>4
  <2>2. msgs \o <<r>> = Append(msgs, r)
    <3> HIDE DEF r
    <3> QED
      OBVIOUS
  <2>3. Parse(Append(msgs, r), seed) = ParseMessage(PageOf(rows), r, seed)
    <3> HIDE DEF r
    <3> QED
      BY <1>2, ParseAppend
  <2>4. PageOf(rows) = [rows |-> rows, bits |-> {}, more |-> TRUE, ok |-> TRUE]
    BY DEF PageOf
  <2> HIDE DEF r
  <2>5. ParseMessage([rows |-> rows, bits |-> {}, more |-> TRUE, ok |-> TRUE], r, seed)
            = PageOf(Append(rows, row))
    <3>1. {} \in SUBSET Columns /\ {} = dup
      BY <1>4
    <3> QED
      BY <1>3, <3>1
  <2> QED
    BY <2>1, <2>2, <2>3, <2>4, <2>5
<1>5. CASE dup # {}
  <2> DEFINE q == [rows |-> rows, bits |-> dup, more |-> TRUE, ok |-> TRUE]
  <2>1. RowMessages(prev, row, compress) = <<b, r>>
    <3> HIDE DEF b, r
    <3> QED
      BY <1>1, <1>2, <1>5, TwoMore
  <2>2. msgs \o <<b, r>> = Append(Append(msgs, b), r)
    <3> HIDE DEF b, r
    <3> QED
      BY <1>2, TwoMore
  <2>3. Parse(Append(msgs, b), seed) = ParseMessage(PageOf(rows), b, seed)
    <3> HIDE DEF b
    <3> QED
      BY <1>2, ParseAppend
  <2>4. ParseMessage(PageOf(rows), b, seed) = q
    <3>1. PageOf(rows).ok /\ b.type = "bits" /\ b.cols = dup
      BY DEF PageOf
    <3>2. ParseMessage(PageOf(rows), b, seed) = [PageOf(rows) EXCEPT !.bits = dup]
      <4> HIDE DEF b
      <4> QED
        BY <3>1 DEF ParseMessage
    <3> QED
      BY <3>2 DEF PageOf
  <2>5. Parse(Append(Append(msgs, b), r), seed) = ParseMessage(Parse(Append(msgs, b), seed), r, seed)
    <3>1. Append(msgs, b) \in Seq(Messages)
      <4> HIDE DEF b
      <4> QED
        BY <1>2
    <3> HIDE DEF b, r
    <3> QED
      BY <1>2, <3>1, ParseAppend
  <2> HIDE DEF b, r
  <2> QED
    BY <1>0, <1>3, <2>1, <2>2, <2>3, <2>4, <2>5
<1> QED
  BY <1>4, <1>5

\* The same for the borrowed decoder, which has no row to be NULL then.
LEMMA RowBorrowed ==
    ASSUME NEW prev \in Row \cup {NoRow}, NEW row \in Row, NEW compress \in BOOLEAN,
           NEW rows \in Seq(Row), NEW seed, NEW msgs \in Seq(Messages),
           prev = IF rows # << >> THEN Last(rows) ELSE seed,
           ParseBorrowed(msgs, seed) = PageOf(rows)
    PROVE  ParseBorrowed(msgs \o RowMessages(prev, row, compress), seed) = PageOf(Append(rows, row))
<1> DEFINE dup == IF compress /\ prev # NoRow THEN {c \in Columns : prev[c] = row[c]} ELSE {}
           b == [type |-> "bits", cols |-> dup]
           r == [type |-> "row", cells |-> [c \in Columns \ dup |-> row[c]]]
<1>0. dup \in SUBSET Columns /\ (dup # {} => prev # NoRow) /\ \A c \in dup : prev[c] = row[c]
  OBVIOUS
<1>1. RowMessages(prev, row, compress) = (IF dup = {} THEN << >> ELSE <<b>>) \o <<r>>
  BY DEF RowMessages
<1>2. b \in Messages /\ r \in Messages
  <2>1. [c \in Columns \ dup |-> row[c]] \in [Columns \ dup -> Values]
    BY DEF Row
  <2> HIDE DEF dup
  <2> QED
    BY <1>0, <2>1 DEF Messages
<1>3. ASSUME NEW bits \in SUBSET Columns, bits = dup
      PROVE  BorrowedMessage([rows |-> rows, bits |-> bits, more |-> TRUE, ok |-> TRUE], r, seed)
                = PageOf(Append(rows, row))
  <2> DEFINE p == [rows |-> rows, bits |-> bits, more |-> TRUE, ok |-> TRUE]
             full == [c \in Columns |-> IF c \notin bits THEN r.cells[c]
                                       ELSE IF prev = NoRow THEN Null ELSE prev[c]]
  <2>1. p.ok /\ r.type # "bits" /\ r.type = "row" /\ p.rows = rows /\ p.bits = bits
    OBVIOUS
  <2>3. DOMAIN r.cells = Columns \ bits
    BY <1>3
  <2>4. ~(bits # {} /\ prev = NoRow)
    BY <1>0, <1>3
  <2>2. BorrowedMessage(p, r, seed) = BorrowedRow(p, r.cells, seed)
    <3> HIDE DEF p, r
    <3> QED
      BY <2>1, <2>3 DEF BorrowedMessage
  <2>5. BorrowedRow(p, r.cells, seed) = [p EXCEPT !.rows = Append(@, full), !.bits = {}]
    <3>1. full = [c \in Columns |-> IF c \notin p.bits THEN r.cells[c]
                                   ELSE IF prev = NoRow THEN Null ELSE prev[c]]
      BY <2>1
    <3> HIDE DEF p, r, full
    <3> QED
      BY <2>1, <3>1 DEF BorrowedRow
  <2>6. full = row
    <3>1. row = [c \in Columns |-> row[c]]
      BY DEF Row
    <3>2. \A c \in Columns : c \notin bits => r.cells[c] = row[c]
      <4>1. r.cells = [c \in Columns \ dup |-> row[c]]
        OBVIOUS
      <4> HIDE DEF r, dup
      <4> QED
        BY <1>3, <4>1
    <3> HIDE DEF r, dup
    <3> QED
      BY <1>0, <1>3, <2>4, <3>1, <3>2
  <2> HIDE DEF full, r, dup
  <2> QED
    BY <2>2, <2>5, <2>6 DEF PageOf
<1> HIDE DEF dup
<1>4. CASE dup = {}
  <2>1. RowMessages(prev, row, compress) = <<r>>
    BY <1>1, <1>4
  <2>2. msgs \o <<r>> = Append(msgs, r)
    <3> HIDE DEF r
    <3> QED
      OBVIOUS
  <2>3. ParseBorrowed(Append(msgs, r), seed) = BorrowedMessage(PageOf(rows), r, seed)
    <3> HIDE DEF r
    <3> QED
      BY <1>2, BorrowedAppend
  <2>4. PageOf(rows) = [rows |-> rows, bits |-> {}, more |-> TRUE, ok |-> TRUE]
    BY DEF PageOf
  <2> HIDE DEF r
  <2>5. BorrowedMessage([rows |-> rows, bits |-> {}, more |-> TRUE, ok |-> TRUE], r, seed)
            = PageOf(Append(rows, row))
    <3>1. {} \in SUBSET Columns /\ {} = dup
      BY <1>4
    <3> QED
      BY <1>3, <3>1
  <2> QED
    BY <2>1, <2>2, <2>3, <2>4, <2>5
<1>5. CASE dup # {}
  <2> DEFINE q == [rows |-> rows, bits |-> dup, more |-> TRUE, ok |-> TRUE]
  <2>1. RowMessages(prev, row, compress) = <<b, r>>
    <3> HIDE DEF b, r
    <3> QED
      BY <1>1, <1>2, <1>5, TwoMore
  <2>2. msgs \o <<b, r>> = Append(Append(msgs, b), r)
    <3> HIDE DEF b, r
    <3> QED
      BY <1>2, TwoMore
  <2>3. ParseBorrowed(Append(msgs, b), seed) = BorrowedMessage(PageOf(rows), b, seed)
    <3> HIDE DEF b
    <3> QED
      BY <1>2, BorrowedAppend
  <2>4. BorrowedMessage(PageOf(rows), b, seed) = q
    <3>1. PageOf(rows).ok /\ b.type = "bits" /\ b.cols = dup
      BY DEF PageOf
    <3>2. BorrowedMessage(PageOf(rows), b, seed) = [PageOf(rows) EXCEPT !.bits = dup]
      <4> HIDE DEF b
      <4> QED
        BY <3>1 DEF BorrowedMessage
    <3> QED
      BY <3>2 DEF PageOf
  <2>5. ParseBorrowed(Append(Append(msgs, b), r), seed) = BorrowedMessage(ParseBorrowed(Append(msgs, b), seed), r, seed)
    <3>1. Append(msgs, b) \in Seq(Messages)
      <4> HIDE DEF b
      <4> QED
        BY <1>2
    <3> HIDE DEF b, r
    <3> QED
      BY <1>2, <3>1, BorrowedAppend
  <2> HIDE DEF b, r
  <2> QED
    BY <1>0, <1>3, <2>1, <2>2, <2>3, <2>4, <2>5
<1> QED
  BY <1>4, <1>5

\* The rows of a page and those of the page one row shorter.
LEMMA RowsOfMore ==
    ASSUME table \in Seq(Row), NEW sent \in Nat, NEW n \in Nat \ {0},
           sent + n <= Len(table), NEW compress \in BOOLEAN
    PROVE  LET m == RowMessages(Before(sent + n - 1), table[sent + n], compress)
           IN  /\ RowsOf(sent, n - 1, compress) \in Seq(Seq(Messages))
               /\ m \in Seq(Messages)
               /\ RowsOf(sent, n, compress) = Append(RowsOf(sent, n - 1, compress), m)
<1> DEFINE M(k) == RowMessages(IF sent + k = 1 THEN NoRow ELSE table[sent + k - 1],
                               table[sent + k], compress)
<1>1. ASSUME NEW k \in 1..n PROVE M(k) \in Seq(Messages)
  <2>1. table[sent + k] \in Row
    OBVIOUS
  <2>2. (IF sent + k = 1 THEN NoRow ELSE table[sent + k - 1]) \in Row \cup {NoRow}
    OBVIOUS
  <2> QED
    BY <2>1, <2>2, MessagesOfRow
<1>2. M(n) = RowMessages(Before(sent + n - 1), table[sent + n], compress)
  BY DEF Before
<1>3. RowsOf(sent, n, compress) = [k \in 1..n |-> M(k)]
      /\ RowsOf(sent, n - 1, compress) = [k \in 1..(n - 1) |-> M(k)]
  BY DEF RowsOf
<1> HIDE DEF M
<1> DEFINE u == [k \in 1..n |-> M(k)]
           v == [k \in 1..(n - 1) |-> M(k)]
<1>4. u \in Seq(Seq(Messages)) /\ v \in Seq(Seq(Messages)) /\ Len(u) = n /\ Len(v) = n - 1
  BY <1>1
<1>5. u = Append(v, M(n))
  <2>1. \A k \in 1..n : u[k] = M(k)
    OBVIOUS
  <2>2. \A k \in 1..(n - 1) : v[k] = M(k)
    OBVIOUS
  <2>3. M(n) \in Seq(Messages)
    BY <1>1
  <2> HIDE DEF u, v
  <2>4. Append(v, M(n)) \in Seq(Seq(Messages)) /\ Len(Append(v, M(n))) = n
    BY <1>4, <2>3
  <2>5. \A k \in 1..n : Append(v, M(n))[k] = M(k)
    BY <1>4, <2>2, <2>3
  <2> QED
    BY <1>4, <2>1, <2>4, <2>5, SameSequence
<1> QED
  BY <1>1, <1>2, <1>3, <1>4, <1>5

\* The rows of a page decode to the rows of the table, whatever is compressed,
\* when the decoder is seeded with the row before them.
LEMMA RowsParsed ==
    ASSUME table \in Seq(Row), NEW sent \in Nat, NEW n \in Nat, sent + n <= Len(table),
           NEW compress \in BOOLEAN
    PROVE  /\ FlattenSeq(RowsOf(sent, n, compress)) \in Seq(Messages)
           /\ Parse(FlattenSeq(RowsOf(sent, n, compress)), Before(sent))
                = PageOf(SubSeq(table, sent + 1, sent + n))
<1> DEFINE F(k) == FlattenSeq(RowsOf(sent, k, compress))
           P(k) == /\ F(k) \in Seq(Messages)
                   /\ Parse(F(k), Before(sent)) = PageOf(SubSeq(table, sent + 1, sent + k))
           T == {k \in 0..n : ~P(k)}
<1>1. P(0)
  <2>1. RowsOf(sent, 0, compress) = << >>
    BY DEF RowsOf
  <2>2. F(0) = << >>
    BY <2>1 DEF FlattenSeq
  <2>3. SubSeq(table, sent + 1, sent + 0) = << >>
    OBVIOUS
  <2>4. Parse(<< >>, Before(sent)) = NoPage
    BY ParseNothing
  <2>5. PageOf(<< >>) = NoPage /\ << >> \in Seq(Messages)
    BY DEF NoPage, PageOf
  <2> HIDE DEF F
  <2> QED
    BY <2>2, <2>3, <2>4, <2>5
<1>2. ASSUME NEW k \in 1..n, P(k - 1) PROVE P(k)
  <2> DEFINE m == RowMessages(Before(sent + k - 1), table[sent + k], compress)
             rows == SubSeq(table, sent + 1, sent + (k - 1))
  <2>1. /\ RowsOf(sent, k - 1, compress) \in Seq(Seq(Messages)) /\ m \in Seq(Messages)
        /\ RowsOf(sent, k, compress) = Append(RowsOf(sent, k - 1, compress), m)
    <3>1. k \in Nat \ {0} /\ sent + k <= Len(table)
      OBVIOUS
    <3> QED
      BY <3>1, RowsOfMore
  <2>2. F(k) = F(k - 1) \o m
    <3> HIDE DEF m
    <3> QED
      BY <2>1, FlattenAppend
  <2>3. rows \in Seq(Row) /\ Len(rows) = k - 1
        /\ \A i \in 1..(k - 1) : rows[i] = table[sent + i]
    <3>1. \A i \in (sent + 1)..(sent + (k - 1)) : table[i] \in Row
      OBVIOUS
    <3>2. sent + 1 \in Int /\ sent + (k - 1) \in Int
      OBVIOUS
    <3>3. /\ rows \in Seq(Row)
          /\ Len(rows) = IF sent + 1 <= sent + (k - 1) THEN sent + (k - 1) - (sent + 1) + 1 ELSE 0
          /\ \A i \in 1..(sent + (k - 1) - (sent + 1) + 1) : rows[i] = table[sent + 1 + i - 1]
      BY <3>1, <3>2, SubSeqProperties
    <3>4. sent + (k - 1) - (sent + 1) + 1 = k - 1
      OBVIOUS
    <3>5. ASSUME NEW i \in 1..(k - 1) PROVE rows[i] = table[sent + i]
      <4>1. sent + 1 + i - 1 = sent + i
        OBVIOUS
      <4> HIDE DEF rows
      <4> QED
        BY <3>3, <3>4, <4>1
    <3> HIDE DEF rows
    <3> QED
      BY <3>3, <3>4, <3>5
  <2>4. Before(sent + k - 1) = IF rows # << >> THEN Last(rows) ELSE Before(sent)
    <3>1. CASE k = 1
      <4>1. rows = << >>
        BY <2>3, <3>1
      <4>2. sent + k - 1 = sent
        BY <3>1
      <4> QED
        BY <4>1, <4>2
    <3>2. CASE k # 1
      <4>1. rows # << >> /\ Last(rows) = rows[k - 1] /\ rows[k - 1] = table[sent + (k - 1)]
        <5>1. k - 1 \in 1..(k - 1)
          BY <3>2
        <5> HIDE DEF rows
        <5> QED
          BY <2>3, <5>1 DEF Last
      <4>2. sent + k - 1 # 0 /\ sent + k - 1 = sent + (k - 1)
        BY <3>2
      <4> QED
        BY <4>1, <4>2 DEF Before
    <3> QED
      BY <3>1, <3>2
  <2>5. Append(rows, table[sent + k]) = SubSeq(table, sent + 1, sent + k)
    <3> DEFINE w == SubSeq(table, sent + 1, sent + k)
    <3>1. w \in Seq(Row) /\ Len(w) = k /\ \A i \in 1..k : w[i] = table[sent + i]
      OBVIOUS
    <3>2. table[sent + k] \in Row
      OBVIOUS
    <3> HIDE DEF rows, w
    <3>3. /\ Append(rows, table[sent + k]) \in Seq(Row)
          /\ Len(Append(rows, table[sent + k])) = k
          /\ \A i \in 1..k : Append(rows, table[sent + k])[i] = table[sent + i]
      BY <2>3, <3>2
    <3> QED
      BY <3>1, <3>3, SameSequence DEF w
  <2>6. Parse(F(k - 1) \o m, Before(sent)) = PageOf(Append(rows, table[sent + k]))
    <3>1. Before(sent + k - 1) \in Row \cup {NoRow} /\ table[sent + k] \in Row
      BY DEF Before
    <3>2. F(k - 1) \in Seq(Messages) /\ Parse(F(k - 1), Before(sent)) = PageOf(rows)
      BY <1>2
    <3> DEFINE g == F(k - 1)
               prev == Before(sent + k - 1)
               row == table[sent + k]
               seed == Before(sent)
    <3>3. /\ prev \in Row \cup {NoRow} /\ row \in Row /\ rows \in Seq(Row)
          /\ g \in Seq(Messages) /\ Parse(g, seed) = PageOf(rows)
          /\ prev = IF rows # << >> THEN Last(rows) ELSE seed
      BY <2>3, <2>4, <3>1, <3>2
    <3> HIDE DEF g, prev, row, seed, rows
    <3>4. Parse(g \o RowMessages(prev, row, compress), seed) = PageOf(Append(rows, row))
      BY <3>3, RowParsed
    <3> QED
      BY <3>4 DEF g, prev, row, seed
  <2>7. F(k) \in Seq(Messages)
    <3> HIDE DEF F, m
    <3> QED
      BY <1>2, <2>1, <2>2
  <2> HIDE DEF F, rows, m
  <2> QED
    BY <2>2, <2>5, <2>6, <2>7
<1> HIDE DEF P
<1>3. T = {}
  <2> SUFFICES ASSUME T # {} PROVE FALSE
    OBVIOUS
  <2>0. T \in SUBSET Nat
    OBVIOUS
  <2>1. PICK k \in T : \A j \in T : k <= j
    BY <2>0, LeastNat
  <2>2. k \in 0..n /\ ~P(k)
    OBVIOUS
  <2>3. k # 0
    BY <1>1, <2>2
  <2>4. k \in 1..n /\ k - 1 \in 0..n /\ k - 1 < k
    BY <2>2, <2>3
  <2>5. P(k - 1)
    BY <2>1, <2>4
  <2> QED
    BY <1>2, <2>2, <2>4, <2>5
<1>4. P(n)
  BY <1>3
<1> QED
  BY <1>4 DEF P

\* A page decodes to its rows; it ends the data when it says ORA-01403, and
\* is an error only when the server says so.
LEMMA PageParsed ==
    ASSUME table \in Seq(Row), NEW sent \in Nat, NEW n \in Nat, sent + n <= Len(table),
           NEW compress \in BOOLEAN, NEW code \in Codes
    PROVE  /\ Page(sent, n, compress, code) # << >>
           /\ LET p == Parse(Page(sent, n, compress, code), Before(sent))
              IN  /\ p.rows = SubSeq(table, sent + 1, sent + n)
                  /\ p.more = (code # "nodata") /\ p.ok = (code # "fail")
<1> DEFINE F == FlattenSeq(RowsOf(sent, n, compress))
           e == [type |-> "end", code |-> code]
           p == PageOf(SubSeq(table, sent + 1, sent + n))
<1>1. Page(sent, n, compress, code) = F \o <<e>>
  BY DEF Page, RowsOf
<1>2. F \in Seq(Messages) /\ Parse(F, Before(sent)) = p
  BY RowsParsed
<1>3. e \in Messages
  BY DEF Messages
<1>4. ParseMessage(p, e, Before(sent)) = ParseEnd(p, code)
  <2>1. p.ok /\ e.type # "bits" /\ e.type # "row" /\ e.code = code
    BY DEF PageOf
  <2> HIDE DEF p, e
  <2> QED
    BY <2>1 DEF ParseMessage
<1>5. /\ ParseEnd(p, code).rows = SubSeq(table, sent + 1, sent + n)
      /\ ParseEnd(p, code).more = (code # "nodata") /\ ParseEnd(p, code).ok = (code # "fail")
  BY DEF ParseEnd, PageOf, MoreRows
<1> HIDE DEF F, e
<1>6. F \o <<e>> = Append(F, e) /\ F \o <<e>> # << >>
  BY <1>2, <1>3
<1>7. Parse(Append(F, e), Before(sent)) = ParseMessage(Parse(F, Before(sent)), e, Before(sent))
  BY <1>2, <1>3, ParseAppend
<1> HIDE DEF p
<1> QED
  BY <1>1, <1>2, <1>4, <1>5, <1>6, <1>7

\* The same for the rows the borrowed decoder reads.
LEMMA RowsBorrowed ==
    ASSUME table \in Seq(Row), NEW sent \in Nat, NEW n \in Nat, sent + n <= Len(table),
           NEW compress \in BOOLEAN
    PROVE  /\ FlattenSeq(RowsOf(sent, n, compress)) \in Seq(Messages)
           /\ ParseBorrowed(FlattenSeq(RowsOf(sent, n, compress)), Before(sent))
                = PageOf(SubSeq(table, sent + 1, sent + n))
<1> DEFINE F(k) == FlattenSeq(RowsOf(sent, k, compress))
           P(k) == /\ F(k) \in Seq(Messages)
                   /\ ParseBorrowed(F(k), Before(sent)) = PageOf(SubSeq(table, sent + 1, sent + k))
           T == {k \in 0..n : ~P(k)}
<1>1. P(0)
  <2>1. RowsOf(sent, 0, compress) = << >>
    BY DEF RowsOf
  <2>2. F(0) = << >>
    BY <2>1 DEF FlattenSeq
  <2>3. SubSeq(table, sent + 1, sent + 0) = << >>
    OBVIOUS
  <2>4. ParseBorrowed(<< >>, Before(sent)) = NoPage
    BY BorrowedNothing
  <2>5. PageOf(<< >>) = NoPage /\ << >> \in Seq(Messages)
    BY DEF NoPage, PageOf
  <2> HIDE DEF F
  <2> QED
    BY <2>2, <2>3, <2>4, <2>5
<1>2. ASSUME NEW k \in 1..n, P(k - 1) PROVE P(k)
  <2> DEFINE m == RowMessages(Before(sent + k - 1), table[sent + k], compress)
             rows == SubSeq(table, sent + 1, sent + (k - 1))
  <2>1. /\ RowsOf(sent, k - 1, compress) \in Seq(Seq(Messages)) /\ m \in Seq(Messages)
        /\ RowsOf(sent, k, compress) = Append(RowsOf(sent, k - 1, compress), m)
    <3>1. k \in Nat \ {0} /\ sent + k <= Len(table)
      OBVIOUS
    <3> QED
      BY <3>1, RowsOfMore
  <2>2. F(k) = F(k - 1) \o m
    <3> HIDE DEF m
    <3> QED
      BY <2>1, FlattenAppend
  <2>3. rows \in Seq(Row) /\ Len(rows) = k - 1
        /\ \A i \in 1..(k - 1) : rows[i] = table[sent + i]
    <3>1. \A i \in (sent + 1)..(sent + (k - 1)) : table[i] \in Row
      OBVIOUS
    <3>2. sent + 1 \in Int /\ sent + (k - 1) \in Int
      OBVIOUS
    <3>3. /\ rows \in Seq(Row)
          /\ Len(rows) = IF sent + 1 <= sent + (k - 1) THEN sent + (k - 1) - (sent + 1) + 1 ELSE 0
          /\ \A i \in 1..(sent + (k - 1) - (sent + 1) + 1) : rows[i] = table[sent + 1 + i - 1]
      BY <3>1, <3>2, SubSeqProperties
    <3>4. sent + (k - 1) - (sent + 1) + 1 = k - 1
      OBVIOUS
    <3>5. ASSUME NEW i \in 1..(k - 1) PROVE rows[i] = table[sent + i]
      <4>1. sent + 1 + i - 1 = sent + i
        OBVIOUS
      <4> HIDE DEF rows
      <4> QED
        BY <3>3, <3>4, <4>1
    <3> HIDE DEF rows
    <3> QED
      BY <3>3, <3>4, <3>5
  <2>4. Before(sent + k - 1) = IF rows # << >> THEN Last(rows) ELSE Before(sent)
    <3>1. CASE k = 1
      <4>1. rows = << >>
        BY <2>3, <3>1
      <4>2. sent + k - 1 = sent
        BY <3>1
      <4> QED
        BY <4>1, <4>2
    <3>2. CASE k # 1
      <4>1. rows # << >> /\ Last(rows) = rows[k - 1] /\ rows[k - 1] = table[sent + (k - 1)]
        <5>1. k - 1 \in 1..(k - 1)
          BY <3>2
        <5> HIDE DEF rows
        <5> QED
          BY <2>3, <5>1 DEF Last
      <4>2. sent + k - 1 # 0 /\ sent + k - 1 = sent + (k - 1)
        BY <3>2
      <4> QED
        BY <4>1, <4>2 DEF Before
    <3> QED
      BY <3>1, <3>2
  <2>5. Append(rows, table[sent + k]) = SubSeq(table, sent + 1, sent + k)
    <3> DEFINE w == SubSeq(table, sent + 1, sent + k)
    <3>1. w \in Seq(Row) /\ Len(w) = k /\ \A i \in 1..k : w[i] = table[sent + i]
      OBVIOUS
    <3>2. table[sent + k] \in Row
      OBVIOUS
    <3> HIDE DEF rows, w
    <3>3. /\ Append(rows, table[sent + k]) \in Seq(Row)
          /\ Len(Append(rows, table[sent + k])) = k
          /\ \A i \in 1..k : Append(rows, table[sent + k])[i] = table[sent + i]
      BY <2>3, <3>2
    <3> QED
      BY <3>1, <3>3, SameSequence DEF w
  <2>6. ParseBorrowed(F(k - 1) \o m, Before(sent)) = PageOf(Append(rows, table[sent + k]))
    <3>1. Before(sent + k - 1) \in Row \cup {NoRow} /\ table[sent + k] \in Row
      BY DEF Before
    <3>2. F(k - 1) \in Seq(Messages) /\ ParseBorrowed(F(k - 1), Before(sent)) = PageOf(rows)
      BY <1>2
    <3> DEFINE g == F(k - 1)
               prev == Before(sent + k - 1)
               row == table[sent + k]
               seed == Before(sent)
    <3>3. /\ prev \in Row \cup {NoRow} /\ row \in Row /\ rows \in Seq(Row)
          /\ g \in Seq(Messages) /\ ParseBorrowed(g, seed) = PageOf(rows)
          /\ prev = IF rows # << >> THEN Last(rows) ELSE seed
      BY <2>3, <2>4, <3>1, <3>2
    <3> HIDE DEF g, prev, row, seed, rows
    <3>4. ParseBorrowed(g \o RowMessages(prev, row, compress), seed) = PageOf(Append(rows, row))
      BY <3>3, RowBorrowed
    <3> QED
      BY <3>4 DEF g, prev, row, seed
  <2>7. F(k) \in Seq(Messages)
    <3> HIDE DEF F, m
    <3> QED
      BY <1>2, <2>1, <2>2
  <2> HIDE DEF F, rows, m
  <2> QED
    BY <2>2, <2>5, <2>6, <2>7
<1> HIDE DEF P
<1>3. T = {}
  <2> SUFFICES ASSUME T # {} PROVE FALSE
    OBVIOUS
  <2>0. T \in SUBSET Nat
    OBVIOUS
  <2>1. PICK k \in T : \A j \in T : k <= j
    BY <2>0, LeastNat
  <2>2. k \in 0..n /\ ~P(k)
    OBVIOUS
  <2>3. k # 0
    BY <1>1, <2>2
  <2>4. k \in 1..n /\ k - 1 \in 0..n /\ k - 1 < k
    BY <2>2, <2>3
  <2>5. P(k - 1)
    BY <2>1, <2>4
  <2> QED
    BY <1>2, <2>2, <2>4, <2>5
<1>4. P(n)
  BY <1>3
<1> QED
  BY <1>4 DEF P

\* The same for the pages it reads.
LEMMA PageBorrowed ==
    ASSUME table \in Seq(Row), NEW sent \in Nat, NEW n \in Nat, sent + n <= Len(table),
           NEW compress \in BOOLEAN, NEW code \in Codes
    PROVE  /\ Page(sent, n, compress, code) # << >>
           /\ LET p == ParseBorrowed(Page(sent, n, compress, code), Before(sent))
              IN  /\ p.rows = SubSeq(table, sent + 1, sent + n)
                  /\ p.more = (code # "nodata") /\ p.ok = (code # "fail")
<1> DEFINE F == FlattenSeq(RowsOf(sent, n, compress))
           e == [type |-> "end", code |-> code]
           p == PageOf(SubSeq(table, sent + 1, sent + n))
<1>1. Page(sent, n, compress, code) = F \o <<e>>
  BY DEF Page, RowsOf
<1>2. F \in Seq(Messages) /\ ParseBorrowed(F, Before(sent)) = p
  BY RowsBorrowed
<1>3. e \in Messages
  BY DEF Messages
<1>4. BorrowedMessage(p, e, Before(sent)) = ParseEnd(p, code)
  <2>1. p.ok /\ e.type # "bits" /\ e.type # "row" /\ e.code = code
    BY DEF PageOf
  <2> HIDE DEF p, e
  <2> QED
    BY <2>1 DEF BorrowedMessage
<1>5. /\ ParseEnd(p, code).rows = SubSeq(table, sent + 1, sent + n)
      /\ ParseEnd(p, code).more = (code # "nodata") /\ ParseEnd(p, code).ok = (code # "fail")
  BY DEF ParseEnd, PageOf, MoreRows
<1> HIDE DEF F, e
<1>6. F \o <<e>> = Append(F, e) /\ F \o <<e>> # << >>
  BY <1>2, <1>3
<1>7. ParseBorrowed(Append(F, e), Before(sent)) = BorrowedMessage(ParseBorrowed(F, Before(sent)), e, Before(sent))
  BY <1>2, <1>3, BorrowedAppend
<1> HIDE DEF p
<1> QED
  BY <1>1, <1>2, <1>4, <1>5, <1>6, <1>7

-----------------------------------------------------------------------------
(* The inductive invariant *)

\* the readers, and the state of one
Readers == {"rows", "one", "stream", "each", "nested"}
Readings == [batch : Seq(Row), seed : Row \cup {NoRow}, more : BOOLEAN, held : Seq(Row),
             redriven : BOOLEAN]

\* types
Shape ==
    /\ table \in Seq(Row) /\ lob \in BOOLEAN /\ kind \in Readers /\ cid \in BOOLEAN
    /\ ~cid => table = << >> /\ ~lob /\ kind # "nested"
    /\ pos \in 0..Len(table) /\ failed \in BOOLEAN /\ asked \in 0..ArraySize
    /\ pc \in Pcs /\ rd \in Readings /\ got \in Seq(Row)
    /\ fate \in {"none", "inuse", "cached", "closing", "lost"}

\* the rows that have reached the reader, delivered or not
Received == got \o rd.held \o rd.batch

\* a response on the wire is the next page of the table
NextPage ==
    \E compress \in BOOLEAN, code \in Codes :
        /\ resp = Page(Len(Received), pos - Len(Received), compress, code)
        /\ code = "nodata" => pos = Len(table)
        /\ failed = (code = "fail")

\* a request and a response are never on the wire together, and a reader that
\* is still reading has exactly the rows that are not on the wire
Wire ==
    /\ asked # 0 => resp = << >>
    /\ pc # "done" =>
        /\ Len(Received) <= pos /\ Received = SubSeq(table, 1, Len(Received))
        /\ IF resp = << >> THEN Len(Received) = pos ELSE NextPage

\* the reader: its seed is the last row received, and only ORA-01403, on the
\* last page, ends the data
Reader ==
    pc # "done" =>
        /\ result = "none"
        /\ rd.seed = Before(Len(Received))
        /\ ~rd.more => pc = "ready" /\ Len(Received) = Len(table) /\ Quiet
        /\ pc = "ready" /\ ~(kind = "each" /\ cid) => Quiet
        /\ pc \in {"define", "fetch", "reclaim"} => cid
        /\ pc \in {"execute", "define"} => got = << >> /\ rd.held = << >>
        /\ pc # "ready" => rd.batch = << >>
        /\ IF kind = "one" THEN got = << >> ELSE rd.held = << >>
        /\ pc = "reclaim" => kind = "stream"
        /\ pc = "execute" => kind # "nested"

\* a cursor that there is is the reader's as long as there are pages to fetch
Cursor ==
    pc # "done" /\ kind # "nested" =>
        IF cid
        THEN /\ pc = "execute" <=> fate = "none"
             /\ pc # "execute" => fate = "inuse" \/ (fate = "cached" /\ ~rd.more)
        ELSE fate = "none"

\* what a finished reader has said and left behind
Verdict ==
    pc = "done" =>
        /\ Len(got) + Len(rd.held) <= pos
        /\ EndMeansAll /\ OneIsOne /\ DecodesWhatIsSent /\ CursorFate /\ NothingLeftUnread

\* the reader, the wire and the server agree
PagingInv == Shape /\ Wire /\ Reader /\ Cursor /\ Verdict

-----------------------------------------------------------------------------
(* Rows moving through the reader *)

\* A batch that is handed over whole.
LEMMA HandOver ==
    ASSUME NEW R, NEW a \in Seq(R), NEW b \in Seq(R)
    PROVE  /\ (a \o b) \o << >> \o << >> = a \o << >> \o b
           /\ a \o << >> \o b = a \o b
           /\ << >> \o a \o b = a \o b
  OBVIOUS

\* A batch that is handed over row by row.
LEMMA HandOne ==
    ASSUME NEW R, NEW a \in Seq(R), NEW b \in Seq(R), b # << >>
    PROVE  Append(a, Head(b)) \o << >> \o Tail(b) = a \o << >> \o b
<1> DEFINE u == Append(a, Head(b)) \o << >> \o Tail(b)
           v == a \o << >> \o b
<1>1. Head(b) \in R /\ Tail(b) \in Seq(R) /\ Len(Tail(b)) = Len(b) - 1 /\ Head(b) = b[1]
      /\ \A i \in 1..(Len(b) - 1) : Tail(b)[i] = b[i + 1]
  OBVIOUS
<1>2. /\ u \in Seq(R) /\ v \in Seq(R) /\ Len(u) = Len(a) + Len(b) /\ Len(v) = Len(a) + Len(b)
  BY <1>1
<1>3. ASSUME NEW i \in 1..(Len(a) + Len(b)) PROVE u[i] = v[i]
  <2>1. CASE i <= Len(a)
    BY <1>1, <2>1
  <2>2. CASE i = Len(a) + 1
    BY <1>1, <2>2
  <2>3. CASE i > Len(a) + 1
    <3>1. i - (Len(a) + 1) \in 1..(Len(b) - 1)
      BY <2>3
    <3>2. u[i] = Tail(b)[i - (Len(a) + 1)]
      BY <1>1, <2>3
    <3>3. Tail(b)[i - (Len(a) + 1)] = b[i - Len(a)]
      <4>1. i - (Len(a) + 1) + 1 = i - Len(a)
        OBVIOUS
      <4> QED
        BY <1>1, <3>1, <4>1
    <3>4. v[i] = b[i - Len(a)]
      BY <2>3
    <3> QED
      BY <3>2, <3>3, <3>4
  <2> QED
    BY <2>1, <2>2, <2>3
<1> HIDE DEF u, v
<1>4. u = v
  BY <1>2, <1>3, SameSequence
<1> QED
  BY <1>4 DEF u, v

\* The empty sequence is the one of length 0.
LEMMA EmptyLen ==
    ASSUME NEW R, NEW s \in Seq(R)
    PROVE  Len(s) \in Nat /\ (s = << >> <=> Len(s) = 0)
  OBVIOUS

\* The row query_one keeps while it looks for a second one.
LEMMA KeepOne ==
    ASSUME NEW R, NEW h \in Seq(R), NEW b \in Seq(R), Len(h) + Len(b) < 2
    PROVE  LET k == IF b = << >> THEN h ELSE Append(h, Last(b))
           IN  k \in Seq(R) /\ << >> \o k \o << >> = << >> \o h \o b
<1>1. CASE b = << >>
  BY <1>1
<1>2. CASE b # << >>
  <2>1. h = << >> /\ Len(b) = 1
    <3>1. Len(h) \in Nat /\ (Len(h) = 0 => h = << >>)
      BY EmptyLen
    <3>2. Len(b) \in Nat /\ Len(b) # 0
      BY <1>2, EmptyLen
    <3>3. Len(h) = 0 /\ Len(b) = 1
      <4> DEFINE x == Len(h)
                 y == Len(b)
      <4>1. x \in Nat /\ y \in Nat /\ y # 0 /\ x + y < 2
        BY <3>1, <3>2
      <4> HIDE DEF x, y
      <4>2. x = 0 /\ y = 1
        BY <4>1
      <4> QED
        BY <4>2 DEF x, y
    <3> QED
      BY <3>1, <3>3
  <2>2. Last(b) = b[1] /\ b[1] \in R
    BY <2>1 DEF Last
  <2>3. b = <<b[1]>>
    BY <2>1
  <2> HIDE <2>3
  <2>4. Append(h, Last(b)) = <<b[1]>>
    BY <2>1, <2>2
  <2>5. << >> \o h \o b = b
    BY <2>1
  <2>6. << >> \o <<b[1]>> \o << >> = <<b[1]>> /\ <<b[1]>> \in Seq(R)
    BY <2>2
  <2> QED
    BY <1>2, <2>3, <2>4, <2>5, <2>6
<1> QED
  BY <1>1, <1>2

\* The sequences of the reader.
LEMMA ReceivedRows ==
    ASSUME Shape
    PROVE  /\ rd.batch \in Seq(Row) /\ rd.held \in Seq(Row) /\ got \in Seq(Row)
           /\ Received \in Seq(Row)
           /\ Len(Received) = Len(got) + Len(rd.held) + Len(rd.batch)
  BY DEF Shape, Readings, Received

\* A prefix, and what follows it.
LEMMA PrefixFacts ==
    ASSUME NEW R, NEW t \in Seq(R), NEW n \in 0..Len(t)
    PROVE  /\ SubSeq(t, 1, n) \in Seq(R) /\ Len(SubSeq(t, 1, n)) = n
           /\ \A i \in 1..n : SubSeq(t, 1, n)[i] = t[i]
           /\ SubSeq(t, 1, Len(t)) = t
<1>1. /\ SubSeq(t, 1, n) \in Seq(R) /\ Len(SubSeq(t, 1, n)) = n
      /\ \A i \in 1..n : SubSeq(t, 1, n)[i] = t[i]
  OBVIOUS
<1>2. SubSeq(t, 1, Len(t)) = t
  BY SubSeqFull
<1> QED
  BY <1>1, <1>2

\* The rows between two positions of the table.
LEMMA SliceFacts ==
    ASSUME NEW R, NEW t \in Seq(R), NEW n \in 0..Len(t), NEW m \in n..Len(t)
    PROVE  /\ SubSeq(t, n + 1, m) \in Seq(R) /\ Len(SubSeq(t, n + 1, m)) = m - n
           /\ \A i \in 1..(m - n) : SubSeq(t, n + 1, m)[i] = t[n + i]
           /\ SubSeq(t, 1, n) \o SubSeq(t, n + 1, m) = SubSeq(t, 1, m)
<1>3. SubSeq(t, 1, n) \o SubSeq(t, n + 1, m) = SubSeq(t, 1, m)
  <2>1. 1 \in 1..(Len(t) + 1) /\ n \in (1 - 1)..Len(t)
    OBVIOUS
  <2> QED
    BY <2>1, ConcatAdjacentSubSeq
<1> DEFINE w == SubSeq(t, n + 1, m)
<1>4. w \in Seq(R) /\ Len(w) = m - n /\ \A i \in 1..(m - n) : w[i] = t[n + i]
  <2>1. \A i \in (n + 1)..m : t[i] \in R
    OBVIOUS
  <2>2. n + 1 \in Int /\ m \in Int
    OBVIOUS
  <2>3. /\ w \in Seq(R) /\ Len(w) = IF n + 1 <= m THEN m - (n + 1) + 1 ELSE 0
        /\ \A i \in 1..(m - (n + 1) + 1) : w[i] = t[n + 1 + i - 1]
    BY <2>1, <2>2, SubSeqProperties
  <2>4. m - (n + 1) + 1 = m - n
    OBVIOUS
  <2> HIDE DEF w
  <2>5. ASSUME NEW i \in 1..(m - n) PROVE w[i] = t[n + i]
    <3>1. n + 1 + i - 1 = n + i
      OBVIOUS
    <3> QED
      BY <2>3, <2>4, <3>1
  <2> QED
    BY <2>3, <2>4, <2>5
<1> QED
  BY <1>3, <1>4

\* What the reader gets out of a response: the rows it was still owed, the end
\* when the table is at its end, and an error only if the server failed.
Decodes(p) ==
    /\ p.rows \in Seq(Row) /\ p.rows = SubSeq(table, Len(Received) + 1, pos)
    /\ Len(p.rows) = pos - Len(Received) /\ p.more \in BOOLEAN /\ p.ok \in BOOLEAN
    /\ ~p.more => pos = Len(table)
    /\ ~p.ok => failed

\* Both decoders give the reader the page the server wrote.
LEMMA PageIsRead ==
    ASSUME Shape, Wire, Reader, pc # "done", resp # << >>
    PROVE  /\ asked = 0 /\ Decodes(Parse(resp, rd.seed)) /\ Decodes(ParseBorrowed(resp, rd.seed))
<1>1. asked = 0 /\ NextPage /\ rd.seed = Before(Len(Received)) /\ Len(Received) <= pos
  BY DEF Wire, Reader
<1>2. Len(Received) \in Nat /\ pos \in Nat /\ pos <= Len(table) /\ table \in Seq(Row)
  BY ReceivedRows DEF Shape
<1>3. PICK compress \in BOOLEAN, code \in Codes :
        /\ resp = Page(Len(Received), pos - Len(Received), compress, code)
        /\ code = "nodata" => pos = Len(table)
        /\ failed = (code = "fail")
  BY <1>1 DEF NextPage
<1> DEFINE s == Len(Received)
           n == pos - s
           rows == SubSeq(table, s + 1, pos)
<1>4. n \in Nat /\ s \in Nat /\ s + n = pos /\ s + n <= Len(table)
  BY <1>1, <1>2
<1>5. rows \in Seq(Row) /\ Len(rows) = pos - s
  <2>1. s \in 0..Len(table) /\ pos \in s..Len(table)
    BY <1>1, <1>2
  <2> HIDE DEF s
  <2> QED
    BY <1>2, <2>1, SliceFacts
<1> HIDE DEF s
<1>6. ASSUME NEW STATE p, p.rows = SubSeq(table, s + 1, s + n), p.more = (code # "nodata"),
             p.ok = (code # "fail")
      PROVE  Decodes(p)
  <2>1. p.rows = rows /\ p.more \in BOOLEAN /\ p.ok \in BOOLEAN
    BY <1>4, <1>6
  <2> QED
    BY <1>3, <1>5, <1>6, <2>1 DEF Decodes, s
<1> HIDE DEF n
<1>7. resp = Page(s, n, compress, code) /\ rd.seed = Before(s)
  BY <1>1, <1>3 DEF s, n
<1>8. Decodes(Parse(resp, rd.seed))
  <2> DEFINE p == Parse(Page(s, n, compress, code), Before(s))
  <2>1. /\ p.rows = SubSeq(table, s + 1, s + n)
        /\ p.more = (code # "nodata") /\ p.ok = (code # "fail")
    BY <1>2, <1>4, PageParsed
  <2> HIDE DEF p
  <2>2. Decodes(p)
    BY <1>6, <2>1
  <2> QED
    BY <1>7, <2>2 DEF p
<1>9. Decodes(ParseBorrowed(resp, rd.seed))
  <2> DEFINE p == ParseBorrowed(Page(s, n, compress, code), Before(s))
  <2>1. /\ p.rows = SubSeq(table, s + 1, s + n)
        /\ p.more = (code # "nodata") /\ p.ok = (code # "fail")
    BY <1>2, <1>4, PageBorrowed
  <2> HIDE DEF p
  <2>2. Decodes(p)
    BY <1>6, <2>1
  <2> QED
    BY <1>7, <2>2 DEF p
<1> QED
  BY <1>1, <1>8, <1>9

\* Applying a page to an empty batch: all rows sent are received, and the seed
\* is the last of them.
LEMMA PageApplied ==
    ASSUME Shape, Wire, Reader, pc # "done", rd.batch = << >>, NEW STATE p, Decodes(p),
           rd' = Apply(p), got' = got, table' = table
    PROVE  /\ rd' \in Readings /\ rd'.more = p.more /\ rd'.held = rd.held
           /\ Received' = SubSeq(table, 1, pos) /\ Len(Received') = pos
           /\ rd'.seed = Before(pos)
<1>1. /\ rd.held \in Seq(Row) /\ got \in Seq(Row) /\ Received \in Seq(Row)
      /\ Received = got \o rd.held \o << >>
  BY ReceivedRows DEF Received
<1>2. /\ rd.seed = Before(Len(Received)) /\ Len(Received) <= pos /\ rd \in Readings
      /\ Received = SubSeq(table, 1, Len(Received)) /\ pos \in 0..Len(table) /\ table \in Seq(Row)
  BY DEF Reader, Wire, Shape
<1>3. /\ p.rows \in Seq(Row) /\ p.rows = SubSeq(table, Len(Received) + 1, pos)
      /\ Len(p.rows) = pos - Len(Received) /\ p.more \in BOOLEAN
  BY DEF Decodes
<1>4. /\ rd'.batch = p.rows /\ rd'.seed = Seed(p.rows, rd.seed) /\ rd'.more = p.more
      /\ rd'.held = rd.held
  BY <1>2 DEF Apply, Readings
<1> DEFINE s == Len(Received)
<1>5. s \in 0..Len(table) /\ pos \in s..Len(table)
  BY <1>1, <1>2
<1>6. Received \o p.rows = SubSeq(table, 1, pos) /\ Len(SubSeq(table, 1, pos)) = pos
  <2> HIDE DEF s
  <2>1. SubSeq(table, 1, s) \o SubSeq(table, s + 1, pos) = SubSeq(table, 1, pos)
        /\ Len(SubSeq(table, 1, pos)) = pos
    BY <1>2, <1>5, PrefixFacts, SliceFacts
  <2> QED
    BY <1>2, <1>3, <2>1 DEF s
<1>7. Received' = Received \o p.rows
  <2>1. Received' = got \o rd.held \o p.rows
    BY <1>4 DEF Received
  <2>2. (got \o rd.held \o << >>) \o p.rows = got \o rd.held \o p.rows
    BY <1>1, <1>3
  <2> QED
    BY <1>1, <2>1, <2>2
<1>8. Seed(p.rows, rd.seed) = Before(pos)
  <2>1. CASE p.rows = << >>
    <3>1. pos = s
      <4>1. Len(p.rows) = 0
        BY <2>1
      <4> QED
        BY <1>3, <1>5, <4>1
    <3> QED
      BY <1>2, <2>1, <3>1 DEF Seed
  <2>2. CASE p.rows # << >>
    <3>1. pos - s \in 1..(pos - s) /\ pos # 0
      <4>1. Len(p.rows) # 0 /\ Len(p.rows) \in Nat
        BY <1>3, <2>2, EmptyLen
      <4> HIDE DEF s
      <4> QED
        BY <1>3, <1>5, <4>1 DEF s
    <3>2. Last(p.rows) = p.rows[pos - s]
      BY <1>3, <2>2 DEF Last
    <3>3. p.rows[pos - s] = table[s + (pos - s)]
      <4>1. \A i \in 1..(pos - s) : SubSeq(table, s + 1, pos)[i] = table[s + i]
        <5> HIDE DEF s
        <5> QED
          BY <1>2, <1>5, SliceFacts
      <4> QED
        BY <1>3, <3>1, <4>1
    <3>4. s + (pos - s) = pos
      BY <1>5
    <3> QED
      BY <2>2, <3>1, <3>2, <3>3, <3>4 DEF Seed, Before
  <2> QED
    BY <2>1, <2>2
<1>9. Before(pos) \in Row \cup {NoRow}
  BY <1>2 DEF Before
<1>10. rd' \in Readings
  BY <1>2, <1>3, <1>4, <1>8, <1>9 DEF Apply, Readings
<1> QED
  BY <1>3, <1>4, <1>6, <1>7, <1>8, <1>10

-----------------------------------------------------------------------------
(* Kinds of step *)

\* what may become of a cursor
Fates == {"none", "inuse", "cached", "closing", "lost"}

\* A fetch asks for at least one row and at most array_size of them.
LEMMA FetchSizeRange ==
    ASSUME NEW n \in Nat
    PROVE  FetchSize(n) \in 1..ArraySize
  BY PagingAssumption DEF FetchSize

\* A reader that ends: what it says and leaves behind is all that matters.
LEMMA Finished ==
    ASSUME PagingInv, pc' = "done", rd' \in Readings, got' \in Seq(Row), fate' \in Fates,
           asked' \in 0..ArraySize, asked' # 0 => resp' = << >>,
           UNCHANGED <<fixed, server>>, Verdict'
    PROVE  PagingInv'
<1>1. Shape'
  BY DEF PagingInv, Shape, fixed, server, Pcs, Fates
<1>2. Wire' /\ Reader' /\ Cursor'
  BY DEF Wire, Reader, Cursor
<1> QED
  BY <1>1, <1>2 DEF PagingInv

\* A reader that goes on with the rows it has.
LEMMA SameRows ==
    ASSUME PagingInv, pc # "done", pc' # "done", UNCHANGED <<fixed, server>>,
           Received' = Received, rd'.seed = rd.seed,
           \/ resp' = resp /\ asked' = asked
           \/ resp' = << >> /\ Len(Received) = pos
    PROVE  Wire' /\ rd'.seed = Before(Len(Received))'
<1>1. table' = table /\ pos' = pos /\ failed' = failed
  BY DEF fixed, server
<1>2. rd'.seed = Before(Len(Received))'
  BY <1>1 DEF PagingInv, Reader, Before
<1>3. resp # << >> => NextPage
  BY DEF PagingInv, Wire
<1>4. /\ Len(Received) <= pos /\ Received = SubSeq(table, 1, Len(Received))
      /\ resp = << >> => Len(Received) = pos
      /\ asked # 0 => resp = << >>
  BY DEF PagingInv, Wire
<1>5. CASE resp' = resp /\ asked' = asked
  <2>1. resp # << >> => NextPage'
    BY <1>1, <1>3, <1>5 DEF NextPage, Page
  <2> QED
    BY <1>1, <1>2, <1>4, <1>5, <2>1 DEF Wire
<1>6. CASE resp' = << >> /\ Len(Received) = pos
  BY <1>1, <1>2, <1>4, <1>6 DEF Wire
<1> QED
  BY <1>2, <1>5, <1>6

\* A page taken into an empty batch.
LEMMA PageTaken ==
    ASSUME PagingInv, pc # "done", rd.batch = << >>, NEW STATE p, Decodes(p),
           rd' = Apply(p), got' = got, UNCHANGED <<fixed, server>>, resp' = << >>,
           pc' = "ready"
    PROVE  /\ Wire' /\ rd'.seed = Before(Len(Received))' /\ rd' \in Readings
           /\ rd'.more = p.more /\ rd'.more \in BOOLEAN /\ rd'.held = rd.held
           /\ ~rd'.more => Len(Received') = Len(table)
<1>1. table' = table /\ pos' = pos /\ failed' = failed
  BY DEF fixed, server
<1>2. /\ rd' \in Readings /\ rd'.more = p.more /\ rd'.held = rd.held
      /\ Received' = SubSeq(table, 1, pos) /\ Len(Received') = pos
      /\ rd'.seed = Before(pos)
  BY <1>1, PageApplied DEF PagingInv
<1>3. Wire'
  <2>1. pos \in Nat
    BY DEF PagingInv, Shape
  <2>2. /\ Len(Received') <= pos' /\ Received' = SubSeq(table', 1, Len(Received'))
        /\ Len(Received') = pos'
    BY <1>1, <1>2, <2>1
  <2> QED
    BY <2>2 DEF Wire
<1>4. rd'.seed = Before(Len(Received))'
  BY <1>1, <1>2 DEF Before
<1>5. ~rd'.more => Len(Received') = Len(table)
  BY <1>2 DEF Decodes
<1> QED
  BY <1>2, <1>3, <1>4, <1>5 DEF Readings

-----------------------------------------------------------------------------
(* The steps *)

\* Nothing is read, sent or owed at the start.
LEMMA InitPaging == Init => PagingInv
<1> SUFFICES ASSUME Init PROVE PagingInv
  OBVIOUS
<1>1. table \in Seq(Row)
  BY DEF Init, Tables
<1>2. /\ kind \in Readers /\ lob \in BOOLEAN /\ cid \in BOOLEAN
      /\ ~cid => table = << >> /\ ~lob /\ kind # "nested"
  BY PagingAssumption DEF Init, Readers
<1>3. /\ rd.batch = << >> /\ rd.held = << >> /\ got = << >> /\ rd.seed = NoRow
      /\ rd.more = TRUE /\ rd \in Readings /\ << >> \in Seq(Row)
  BY DEF Init, Readings
<1>4. Received = << >> /\ Len(Received) = 0
  BY <1>3 DEF Received
<1>5. FetchSize(0) \in 1..ArraySize
  BY FetchSizeRange
<1>6. Shape
  <2>1. /\ pos = 0 /\ failed = FALSE /\ asked = FetchSize(0) /\ pc \in {"define", "execute"}
        /\ fate = "none"
    BY DEF Init
  <2>2. pos \in 0..Len(table) /\ asked \in 0..ArraySize
    BY <1>1, <1>5, <2>1, PagingAssumption
  <2> QED
    BY <1>1, <1>2, <1>3, <2>1, <2>2 DEF Shape, Pcs
<1>7. Wire
  <2>1. SubSeq(table, 1, 0) = << >>
    BY <1>1
  <2> QED
    BY <1>4, <2>1 DEF Init, Wire
<1>8. Reader
  BY <1>2, <1>3, <1>4 DEF Init, Reader, Before, Readers
<1>9. Cursor /\ Verdict
  BY DEF Init, Cursor, Verdict
<1> QED
  BY <1>6, <1>7, <1>8, <1>9 DEF PagingInv

\* The server answers with the next page.
LEMMA ReplyStep == ASSUME PagingInv, Reply PROVE PagingInv'
<1>1. PICK n \in 0..asked, compress \in BOOLEAN, code \in {"ok", "nodata", "fail"} :
         /\ pos + n <= Len(table)
         /\ code = "nodata" => pos + n = Len(table)
         /\ resp' = Page(pos, n, compress, code)
         /\ pos' = pos + n
         /\ failed' = (code = "fail")
  BY DEF Reply
<1>2. /\ asked # 0 /\ resp = << >> /\ asked' = 0 /\ table' = table /\ lob' = lob /\ cid' = cid /\ kind' = kind
      /\ pc' = pc /\ rd' = rd /\ got' = got /\ result' = result /\ fate' = fate
  BY DEF Reply, fixed
<1>3. table \in Seq(Row) /\ pos \in 0..Len(table) /\ asked \in 0..ArraySize /\ ArraySize \in Nat
  BY PagingAssumption DEF PagingInv, Shape
<1>4. n \in Nat /\ pos \in Nat /\ pos' \in 0..Len(table) /\ pos <= pos' /\ pos' - pos = n
  BY <1>1, <1>3
<1>5. Shape'
  BY <1>1, <1>2, <1>4, PagingAssumption DEF PagingInv, Shape
<1>6. resp' # << >>
  BY <1>1, <1>3, <1>4, PageParsed DEF Codes
<1>7. Received' = Received
  BY <1>2 DEF Received
<1>8. CASE pc # "done"
  <2>1. /\ Len(Received) = pos /\ Received = SubSeq(table, 1, Len(Received))
    BY <1>2, <1>8 DEF PagingInv, Wire
  <2>2. NextPage'
    <3>1. /\ resp' = Page(Len(Received), pos - Len(Received), compress, code)'
          /\ code = "nodata" => pos' = Len(table')
          /\ failed' = (code = "fail")
      <4>1. Len(Received)' = pos /\ (pos - Len(Received))' = n
        BY <1>4, <1>7, <2>1
      <4> QED
        BY <1>1, <1>2, <4>1 DEF Page
    <3> QED
      BY <3>1 DEF NextPage, Codes
  <2>3. Wire'
    BY <1>2, <1>4, <1>6, <1>7, <2>1, <2>2 DEF Wire
  <2>4. Reader'
    BY <1>2, <1>7, <1>8 DEF PagingInv, Reader, Quiet, Before
  <2>5. Cursor' /\ Verdict'
    BY <1>2, <1>8 DEF PagingInv, Cursor, Verdict
  <2> QED
    BY <1>5, <2>3, <2>4, <2>5 DEF PagingInv
<1>9. CASE pc = "done"
  <2>1. ~Quiet /\ Verdict
    BY <1>2, <1>9 DEF Quiet, PagingInv, Verdict
  <2>2. result \notin {"end", "one", "norows", "toomany", "error", "reclaimed"}
    BY <1>9, <2>1 DEF Verdict, NothingLeftUnread
  <2>3. Len(got) + Len(rd.held) <= pos'
    BY <1>4, <1>9, <2>1, ReceivedRows DEF Verdict, PagingInv
  <2>4. Verdict'
    BY <1>2, <1>9, <2>1, <2>2, <2>3
       DEF Verdict, EndMeansAll, OneIsOne, DecodesWhatIsSent, CursorFate, NothingLeftUnread
  <2> QED
    BY <1>2, <1>5, <1>9, <2>4 DEF PagingInv, Wire, Reader, Cursor
<1> QED
  BY <1>8, <1>9

\* The EXECUTE response is the first page; without rows of LOB columns a
\* define-fetch follows.
LEMMA FirstPageStep == ASSUME PagingInv, FirstPage PROVE PagingInv'
<1> DEFINE p == Parse(resp, NoRow)
           define == lob /\ kind # "each" /\ p.rows = << >>
<1>1. /\ pc = "execute" /\ resp # << >> /\ got' = got /\ UNCHANGED <<fixed, server>>
      /\ table' = table /\ lob' = lob /\ cid' = cid /\ kind' = kind /\ pos' = pos /\ failed' = failed
  BY DEF FirstPage, fixed, server
<1>2. /\ got = << >> /\ rd.held = << >> /\ rd.batch = << >> /\ kind # "nested"
      /\ rd.seed = Before(Len(Received)) /\ rd.more /\ result = "none" /\ fate = "none"
      /\ rd \in Readings /\ got \in Seq(Row) /\ rd.more \in BOOLEAN
  BY <1>1 DEF PagingInv, Reader, Cursor, Shape, Readings
<1>3. Received = << >> /\ Len(Received) = 0 /\ rd.seed = NoRow
  BY <1>2 DEF Received, Before
<1>4. asked = 0 /\ Decodes(p)
  BY <1>1, <1>3, PageIsRead DEF PagingInv
<1>5. p.ok \in BOOLEAN /\ p.more \in BOOLEAN
  BY <1>4 DEF Decodes
<1>6. CASE ~p.ok
  <2>1. pc' = "done" /\ result' = "error" /\ fate' = fate /\ resp' = << >> /\ rd' = rd /\ asked' = asked
    BY <1>6 DEF FirstPage, Done
  <2>2. failed
    BY <1>4, <1>6 DEF Decodes
  <2>3. Verdict'
    <3>1. Len(got') + Len(rd'.held) <= pos'
      BY <1>1, <1>2, <2>1 DEF PagingInv, Shape
    <3> QED
      BY <1>1, <1>2, <1>4, <2>1, <2>2, <3>1
         DEF Verdict, EndMeansAll, OneIsOne, DecodesWhatIsSent, CursorFate, NothingLeftUnread, Quiet
  <2> QED
    BY <1>1, <1>2, <1>4, <2>1, <2>3, Finished, PagingAssumption DEF Fates
<1>7. CASE p.ok /\ define
  <2>0. cid
    BY <1>7 DEF PagingInv, Shape
  <2>1. pc' = "define" /\ result' = result /\ fate' = "inuse" /\ resp' = << >> /\ rd' = rd
        /\ asked' = ArraySize
    BY <1>7, <2>0 DEF FirstPage, Send
  <2>2. Received' = Received
    BY <1>1, <2>1 DEF Received
  <2>3. Len(Received) = pos
    BY <1>3, <1>4, <1>7 DEF Decodes, PagingInv, Shape
  <2>4. Wire' /\ rd'.seed = Before(Len(Received))'
    BY <1>1, <2>1, <2>2, <2>3, SameRows
  <2>5. Shape'
    BY <1>1, <2>1, PagingAssumption DEF PagingInv, Shape, Pcs
  <2>6. Reader'
    BY <1>1, <1>2, <2>0, <2>1, <2>4 DEF Reader
  <2>7. Cursor' /\ Verdict'
    BY <1>1, <2>0, <2>1 DEF Cursor, Verdict
  <2> QED
    BY <2>4, <2>5, <2>6, <2>7 DEF PagingInv
<1>8. CASE p.ok /\ ~define
  <2>1. pc' = "ready" /\ result' = result /\ resp' = << >> /\ rd' = Apply(p)
        /\ fate' = (IF cid THEN "inuse" ELSE "none") /\ asked' = asked
    BY <1>2, <1>8 DEF FirstPage
  <2>2. /\ Wire' /\ rd'.seed = Before(Len(Received))' /\ rd' \in Readings
        /\ rd'.more = p.more /\ rd'.more \in BOOLEAN /\ rd'.held = rd.held
        /\ ~rd'.more => Len(Received') = Len(table)
    <3> HIDE DEF p
    <3> QED
      BY <1>1, <1>2, <1>4, <2>1, PageTaken
  <2>3. Shape'
    BY <1>1, <2>1, <2>2 DEF PagingInv, Shape, Pcs
  <2>4. Quiet'
    BY <1>4, <2>1 DEF Quiet
  <2>5. Reader'
    BY <1>1, <1>2, <2>1, <2>2, <2>4 DEF Reader
  <2>6. Cursor' /\ Verdict'
    BY <1>1, <2>1 DEF Cursor, Verdict
  <2> QED
    BY <2>2, <2>3, <2>5, <2>6 DEF PagingInv
<1> QED
  BY <1>5, <1>6, <1>7, <1>8

\* The define-fetch page.
LEMMA DefinePageStep == ASSUME PagingInv, DefinePage PROVE PagingInv'
<1> DEFINE p == Parse(resp, NoRow)
<1>1. /\ pc = "define" /\ resp # << >> /\ got' = got /\ UNCHANGED <<fixed, server>>
      /\ table' = table /\ lob' = lob /\ cid' = cid /\ kind' = kind /\ pos' = pos /\ failed' = failed
      /\ asked' = asked /\ resp' = << >>
  BY DEF DefinePage, fixed, server
<1>2. /\ got = << >> /\ rd.held = << >> /\ rd.batch = << >>
      /\ rd.seed = Before(Len(Received)) /\ rd.more /\ result = "none"
      /\ kind # "nested" => fate = "inuse"
      /\ rd \in Readings /\ got \in Seq(Row) /\ rd.more \in BOOLEAN /\ fate \in Fates /\ cid
  BY <1>1 DEF PagingInv, Reader, Cursor, Shape, Readings, Fates
<1>3. Received = << >> /\ Len(Received) = 0 /\ rd.seed = NoRow
  BY <1>2 DEF Received, Before
<1>4. asked = 0 /\ Decodes(p)
  BY <1>1, <1>3, PageIsRead DEF PagingInv
<1>5. p.ok \in BOOLEAN /\ p.more \in BOOLEAN
  BY <1>4 DEF Decodes
<1>6. CASE ~p.ok
  <2>1. pc' = "done" /\ result' = "error" /\ fate' = CloseOnError /\ rd' = rd
    BY <1>6 DEF DefinePage, Done
  <2>2. failed /\ fate' \in Fates /\ (kind # "nested" => fate' = "closing")
    BY <1>2, <1>4, <1>6, <2>1 DEF Decodes, CloseOnError, CloseCursor, Fates
  <2>3. Verdict'
    <3>1. Len(got') + Len(rd'.held) <= pos'
      BY <1>1, <1>2, <2>1 DEF PagingInv, Shape
    <3> QED
      BY <1>1, <1>2, <1>4, <2>1, <2>2, <3>1
         DEF Verdict, EndMeansAll, OneIsOne, DecodesWhatIsSent, CursorFate, NothingLeftUnread, Quiet
  <2> QED
    BY <1>1, <1>2, <1>4, <2>1, <2>2, <2>3, Finished, PagingAssumption
<1>8. CASE p.ok
  <2>1. pc' = "ready" /\ result' = result /\ fate' = fate /\ rd' = Apply(p)
    BY <1>8 DEF DefinePage
  <2>2. /\ Wire' /\ rd'.seed = Before(Len(Received))' /\ rd' \in Readings
        /\ rd'.more = p.more /\ rd'.more \in BOOLEAN /\ rd'.held = rd.held
        /\ ~rd'.more => Len(Received') = Len(table)
    <3> HIDE DEF p
    <3> QED
      BY <1>1, <1>2, <1>4, <2>1, PageTaken
  <2>3. Shape'
    BY <1>1, <2>1, <2>2 DEF PagingInv, Shape, Pcs
  <2>4. Quiet'
    BY <1>1, <1>4 DEF Quiet
  <2>5. Reader'
    BY <1>1, <1>2, <2>1, <2>2, <2>4 DEF Reader
  <2>6. Cursor' /\ Verdict'
    BY <1>1, <1>2, <2>1 DEF Cursor, Verdict
  <2> QED
    BY <2>2, <2>3, <2>5, <2>6 DEF PagingInv
<1> QED
  BY <1>5, <1>6, <1>8

\* A reader that waits for a page: what it has, and whose the cursor is.
LEMMA Fetching ==
    ASSUME PagingInv, pc \in {"fetch", "reclaim"}
    PROVE  /\ rd.batch = << >> /\ rd.more /\ result = "none" /\ rd \in Readings
           /\ got \in Seq(Row) /\ rd.more \in BOOLEAN /\ fate \in Fates
           /\ (kind # "nested" => fate = "inuse") /\ cid
           /\ IF kind = "one" THEN got = << >> ELSE rd.held = << >>
           /\ Len(got) + Len(rd.held) <= pos
<1>1. /\ rd.batch = << >> /\ rd.more /\ result = "none" /\ rd \in Readings
      /\ got \in Seq(Row) /\ rd.more \in BOOLEAN /\ fate \in Fates
      /\ (kind # "nested" => fate = "inuse") /\ cid
      /\ IF kind = "one" THEN got = << >> ELSE rd.held = << >>
  BY DEF PagingInv, Reader, Cursor, Shape, Readings, Fates
<1>2. Len(Received) <= pos /\ Len(Received) = Len(got) + Len(rd.held) + Len(rd.batch)
      /\ Len(rd.batch) = 0 /\ Len(got) \in Nat /\ Len(rd.held) \in Nat
  BY <1>1, ReceivedRows DEF PagingInv, Wire
<1> QED
  BY <1>1, <1>2

\* A continuation page of the readers that decode into rows of their own.
LEMMA FetchPageStep == ASSUME PagingInv, FetchPage PROVE PagingInv'
<1> DEFINE p == Parse(resp, rd.seed)
<1>1. /\ pc = "fetch" /\ kind # "each" /\ resp # << >> /\ got' = got /\ UNCHANGED <<fixed, server>>
      /\ table' = table /\ lob' = lob /\ cid' = cid /\ kind' = kind /\ pos' = pos /\ failed' = failed
      /\ asked' = asked /\ resp' = << >>
  BY DEF FetchPage, fixed, server
<1>2. /\ rd.batch = << >> /\ rd.more /\ result = "none" /\ rd \in Readings
      /\ got \in Seq(Row) /\ rd.more \in BOOLEAN /\ fate \in Fates
      /\ (kind # "nested" => fate = "inuse") /\ cid
      /\ IF kind = "one" THEN got = << >> ELSE rd.held = << >>
      /\ Len(got) + Len(rd.held) <= pos
  BY <1>1, Fetching
<1>4. asked = 0 /\ Decodes(p)
  BY <1>1, PageIsRead DEF PagingInv
<1>5. p.ok \in BOOLEAN /\ p.more \in BOOLEAN
  BY <1>4 DEF Decodes
<1>6. CASE ~p.ok
  <2>1. pc' = "done" /\ result' = "error" /\ fate' = CloseOnError /\ rd' = rd
    BY <1>6 DEF FetchPage, Done
  <2>2. failed /\ fate' \in Fates /\ (kind # "nested" => fate' = "closing")
    BY <1>2, <1>4, <1>6, <2>1 DEF Decodes, CloseOnError, CloseCursor, Fates
  <2>3. Verdict'
    BY <1>1, <1>2, <1>4, <2>1, <2>2
       DEF Verdict, EndMeansAll, OneIsOne, DecodesWhatIsSent, CursorFate, NothingLeftUnread, Quiet
  <2> QED
    BY <1>1, <1>2, <1>4, <2>1, <2>2, <2>3, Finished, PagingAssumption
<1>8. CASE p.ok
  <2>1. pc' = "ready" /\ result' = result /\ rd' = Apply(p)
        /\ fate' = IF kind \in {"rows", "one"} /\ ~p.more THEN ReleaseCursor ELSE fate
    BY <1>8 DEF FetchPage
  <2>2. /\ Wire' /\ rd'.seed = Before(Len(Received))' /\ rd' \in Readings
        /\ rd'.more = p.more /\ rd'.more \in BOOLEAN /\ rd'.held = rd.held
        /\ ~rd'.more => Len(Received') = Len(table)
    <3> HIDE DEF p
    <3> QED
      BY <1>1, <1>2, <1>4, <2>1, PageTaken
  <2>7. /\ fate' \in Fates
        /\ kind # "nested" => fate' = "inuse" \/ (fate' = "cached" /\ ~rd'.more)
    <3> HIDE DEF p
    <3> QED
      BY <1>2, <1>5, <2>1, <2>2 DEF ReleaseCursor, Fates
  <2>3. Shape'
    BY <1>1, <2>1, <2>2, <2>7 DEF PagingInv, Shape, Pcs, Fates
  <2>4. Quiet'
    BY <1>1, <1>4 DEF Quiet
  <2>5. Reader'
    BY <1>1, <1>2, <2>1, <2>2, <2>4 DEF Reader
  <2>6. Cursor' /\ Verdict'
    BY <1>1, <1>2, <2>1, <2>7 DEF Cursor, Verdict
  <2> QED
    BY <2>2, <2>3, <2>5, <2>6 DEF PagingInv
<1> QED
  BY <1>5, <1>6, <1>8

\* A continuation page of for_each_row_ref, which asks for the one after it.
LEMMA EachPageStep == ASSUME PagingInv, EachPage PROVE PagingInv'
<1> DEFINE p == ParseBorrowed(resp, rd.seed)
<1>1. /\ pc = "fetch" /\ kind = "each" /\ resp # << >> /\ got' = got /\ UNCHANGED <<fixed, server>>
      /\ table' = table /\ lob' = lob /\ cid' = cid /\ kind' = kind /\ pos' = pos /\ failed' = failed
  BY DEF EachPage, fixed, server
<1>2. /\ rd.batch = << >> /\ rd.more /\ result = "none" /\ rd \in Readings
      /\ got \in Seq(Row) /\ rd.more \in BOOLEAN /\ fate = "inuse" /\ cid
      /\ rd.held = << >> /\ Len(got) + Len(rd.held) <= pos
  BY <1>1, Fetching
<1>4. asked = 0 /\ Decodes(p)
  BY <1>1, PageIsRead DEF PagingInv
<1>5. p.ok \in BOOLEAN /\ p.more \in BOOLEAN
  BY <1>4 DEF Decodes
<1>6. CASE ~p.ok
  <2>1. pc' = "done" /\ result' = "error" /\ fate' = CloseCursor /\ rd' = rd
        /\ resp' = << >> /\ asked' = asked
    BY <1>6 DEF EachPage, Done
  <2>2. failed /\ fate' = "closing"
    BY <1>2, <1>4, <1>6, <2>1 DEF Decodes, CloseCursor
  <2>3. Verdict'
    BY <1>1, <1>2, <1>4, <2>1, <2>2
       DEF Verdict, EndMeansAll, OneIsOne, DecodesWhatIsSent, CursorFate, NothingLeftUnread, Quiet
  <2> QED
    BY <1>1, <1>2, <1>4, <2>1, <2>2, <2>3, Finished, PagingAssumption DEF Fates
<1>8. CASE p.ok
  <2>1. pc' = "ready" /\ result' = result /\ rd' = Apply(p) /\ fate' = fate /\ resp' = << >>
        /\ asked' = IF p.more THEN ArraySize ELSE asked
    BY <1>8 DEF EachPage, LookAhead, Send
  <2>2. /\ Wire' /\ rd'.seed = Before(Len(Received))' /\ rd' \in Readings
        /\ rd'.more = p.more /\ rd'.more \in BOOLEAN /\ rd'.held = rd.held
        /\ ~rd'.more => Len(Received') = Len(table)
    <3> HIDE DEF p
    <3> QED
      BY <1>1, <1>2, <1>4, <2>1, PageTaken
  <2>3. Shape'
    <3>1. asked' \in 0..ArraySize
      BY <1>4, <2>1, PagingAssumption
    <3> QED
      BY <1>1, <2>1, <2>2, <3>1 DEF PagingInv, Shape, Pcs
  <2>4. ~rd'.more => Quiet'
    BY <1>4, <2>1, <2>2 DEF Quiet
  <2>5. Reader'
    BY <1>1, <1>2, <2>1, <2>2, <2>4 DEF Reader
  <2>6. Cursor' /\ Verdict'
    BY <1>1, <1>2, <2>1 DEF Cursor, Verdict
  <2> QED
    BY <2>2, <2>3, <2>5, <2>6 DEF PagingInv
<1> QED
  BY <1>5, <1>6, <1>8

\* A reader between two pages.
LEMMA Ready ==
    ASSUME PagingInv, pc = "ready"
    PROVE  /\ result = "none" /\ rd \in Readings /\ got \in Seq(Row) /\ rd.batch \in Seq(Row)
           /\ rd.held \in Seq(Row) /\ rd.more \in BOOLEAN /\ fate \in Fates
           /\ cid \in BOOLEAN /\ (kind = "nested" => cid)
           /\ kind # "nested" /\ cid => fate = "inuse" \/ (fate = "cached" /\ ~rd.more)
           /\ ~cid => fate = "none"
           /\ IF kind = "one" THEN got = << >> ELSE rd.held = << >>
           /\ Len(got) + Len(rd.held) <= pos /\ Len(got) + Len(rd.held) + Len(rd.batch) <= pos
           /\ kind # "each" => Quiet
           /\ ~(rd.more /\ cid) => Quiet /\ Received = table
           /\ Received = SubSeq(table, 1, Len(Received)) /\ Len(Received) <= Len(table)
           /\ Quiet => Len(Received) = pos
           /\ asked \in 0..ArraySize /\ (asked # 0 => resp = << >>) /\ table \in Seq(Row)
<1>1. /\ result = "none" /\ rd \in Readings /\ got \in Seq(Row) /\ rd.batch \in Seq(Row)
      /\ rd.held \in Seq(Row) /\ rd.more \in BOOLEAN /\ fate \in Fates
      /\ cid \in BOOLEAN /\ (kind = "nested" => cid)
      /\ kind # "nested" /\ cid => fate = "inuse" \/ (fate = "cached" /\ ~rd.more)
      /\ ~cid => fate = "none"
      /\ IF kind = "one" THEN got = << >> ELSE rd.held = << >>
      /\ kind # "each" => Quiet
  BY DEF PagingInv, Reader, Cursor, Shape, Readings, Fates
<1>2. /\ Len(Received) <= pos /\ Len(Received) = Len(got) + Len(rd.held) + Len(rd.batch)
      /\ Len(rd.batch) \in Nat /\ Len(got) \in Nat /\ Len(rd.held) \in Nat
      /\ pos \in 0..Len(table) /\ table \in Seq(Row) /\ Len(table) \in Nat
  <2>1. Len(Received) = Len(got) + Len(rd.held) + Len(rd.batch)
    BY ReceivedRows DEF PagingInv
  <2>2. Len(rd.batch) \in Nat /\ Len(got) \in Nat /\ Len(rd.held) \in Nat
    BY <1>1
  <2>3. pos \in 0..Len(table) /\ table \in Seq(Row) /\ Len(Received) <= pos
    BY DEF PagingInv, Wire, Shape
  <2>4. Len(table) \in Nat
    BY <2>3
  <2> QED
    BY <2>1, <2>2, <2>3, <2>4
<1>3. /\ Received = SubSeq(table, 1, Len(Received)) /\ (Quiet => Len(Received) = pos)
      /\ asked \in 0..ArraySize /\ (asked # 0 => resp = << >>)
  BY DEF PagingInv, Wire, Shape, Quiet
<1>4. ~(rd.more /\ cid) => Quiet /\ Received = table
  <2>1. ~(rd.more /\ cid) => Quiet /\ Len(Received) = Len(table)
    <3>1. CASE ~rd.more
      BY <3>1 DEF PagingInv, Reader
    <3>2. CASE ~cid
      <4>1. Quiet /\ table = << >>
        BY <3>2 DEF PagingInv, Reader, Shape
      <4>2. Len(Received) = pos /\ pos \in 0..Len(table) /\ Len(table) = 0
        BY <1>2, <1>3, <4>1
      <4>3. Len(Received) = Len(table)
        BY <4>2
      <4> QED
        BY <4>1, <4>3
    <3> QED
      BY <3>1, <3>2
  <2>2. SubSeq(table, 1, Len(table)) = table
    BY <1>2, SubSeqFull
  <2> QED
    BY <1>3, <2>1, <2>2
<1>5. /\ Len(got) + Len(rd.held) <= pos /\ Len(got) + Len(rd.held) + Len(rd.batch) <= pos
      /\ Len(Received) <= Len(table)
  <2> DEFINE a == Len(got)
             b == Len(rd.held)
             c == Len(rd.batch)
             r == Len(Received)
             t == Len(table)
  <2>1. /\ a \in Nat /\ b \in Nat /\ c \in Nat /\ r = a + b + c /\ r <= pos /\ pos \in 0..t
        /\ t \in Nat
    BY <1>2
  <2> HIDE DEF a, b, c, r, t
  <2>2. a + b <= pos /\ a + b + c <= pos /\ r <= t
    BY <2>1
  <2> QED
    BY <2>2 DEF a, b, c, r, t
<1> QED
  BY <1>1, <1>2, <1>3, <1>4, <1>5

\* A request for the next page, with the rows at hand handed over or kept.
LEMMA FetchSent ==
    ASSUME PagingInv, pc = "ready", Quiet, rd.more, cid, NEW n \in Nat, Fetch(n), UNCHANGED <<fixed, server>>,
           rd' \in Readings, got' \in Seq(Row), rd'.more = rd.more, rd'.seed = rd.seed,
           rd'.batch = << >>, Received' = Received,
           IF kind = "one" THEN got' = << >> ELSE rd'.held = << >>
    PROVE  PagingInv'
<1>1. /\ pc' = "fetch" /\ asked' = FetchSize(n) /\ resp' = << >> /\ result' = result /\ fate' = fate
      /\ table' = table /\ lob' = lob /\ cid' = cid /\ kind' = kind /\ pos' = pos /\ failed' = failed
  BY DEF Fetch, Send, fixed, server
<1>2. /\ result = "none" /\ fate \in Fates /\ (kind # "nested" => fate = "inuse")
      /\ Len(Received) = pos /\ got \in Seq(Row)
  BY Ready
<1>3. FetchSize(n) \in 1..ArraySize
  BY FetchSizeRange
<1>4. Wire' /\ rd'.seed = Before(Len(Received))'
  BY <1>1, <1>2, SameRows
<1>5. Shape'
  BY <1>1, <1>3, PagingAssumption DEF PagingInv, Shape, Pcs
<1>6. Reader'
  BY <1>1, <1>2, <1>4 DEF Reader
<1>7. Cursor' /\ Verdict'
  BY <1>1, <1>2 DEF Cursor, Verdict
<1> QED
  BY <1>4, <1>5, <1>6, <1>7 DEF PagingInv

\* A reader that comes to its end by itself releases the cursor.
LEMMA Ended ==
    ASSUME PagingInv, pc = "ready", Quiet, NEW how \in {"end", "one", "norows", "toomany"},
           End(how), UNCHANGED <<fixed, server>>, rd' \in Readings, got' \in Seq(Row),
           Len(got') + Len(rd'.held) <= pos, EndMeansAll', OneIsOne'
    PROVE  PagingInv'
<1>1. /\ pc' = "done" /\ result' = how /\ fate' = ReleaseCursor
      /\ asked' = asked /\ resp' = resp
      /\ table' = table /\ lob' = lob /\ cid' = cid /\ kind' = kind /\ pos' = pos /\ failed' = failed
  BY DEF End, Done, fixed, server
<1>2. /\ fate \in Fates /\ asked \in 0..ArraySize /\ (asked # 0 => resp = << >>)
      /\ kind # "nested" => IF cid THEN fate = "inuse" \/ fate = "cached" ELSE fate = "none"
  BY Ready
<1>3. fate' \in Fates /\ (kind # "nested" => fate' = IF cid THEN "cached" ELSE "none")
  BY <1>1, <1>2 DEF ReleaseCursor, Fates
<1>4. Verdict'
  BY <1>1, <1>3 DEF Verdict, DecodesWhatIsSent, CursorFate, NothingLeftUnread, Quiet
<1> QED
  BY <1>1, <1>2, <1>3, <1>4, Finished

\* Rows::collect: the batch is taken, and the next is fetched until the end.
LEMMA CollectStepInv == ASSUME PagingInv, CollectStep PROVE PagingInv'
<1>1. /\ pc = "ready" /\ kind = "rows" /\ got' = got \o rd.batch
      /\ rd' = [rd EXCEPT !.batch = << >>] /\ UNCHANGED <<fixed, server>>
      /\ kind' = kind /\ cid' = cid /\ table' = table
  BY DEF CollectStep, fixed
<1>2. /\ rd \in Readings /\ got \in Seq(Row) /\ rd.batch \in Seq(Row) /\ rd.more \in BOOLEAN
      /\ rd.held = << >> /\ Quiet /\ (~(rd.more /\ cid) => Received = table) /\ cid \in BOOLEAN
      /\ Len(got) + Len(rd.held) + Len(rd.batch) <= pos
  BY <1>1, Ready
<1>3. /\ rd' \in Readings /\ rd'.more = rd.more /\ rd'.seed = rd.seed /\ rd'.batch = << >>
      /\ rd'.held = << >> /\ got' \in Seq(Row) /\ Len(got') = Len(got) + Len(rd.batch)
  <2>1. /\ rd' \in Readings /\ rd'.more = rd.more /\ rd'.seed = rd.seed /\ rd'.batch = << >>
        /\ rd'.held = << >>
    BY <1>1, <1>2 DEF Readings
  <2>2. got' \in Seq(Row) /\ Len(got') = Len(got) + Len(rd.batch)
    BY <1>1, <1>2
  <2> QED
    BY <2>1, <2>2
<1>4. Received' = Received /\ Received = got'
  <2>1. (got \o rd.batch) \o << >> \o << >> = got \o << >> \o rd.batch
        /\ got \o << >> \o rd.batch = got \o rd.batch
    BY <1>2, HandOver
  <2> QED
    BY <1>1, <1>2, <1>3, <2>1 DEF Received
<1>5. CASE rd.more /\ cid /\ Fetch(0)
  <2>1. 0 \in Nat
    OBVIOUS
  <2> QED
    BY <1>1, <1>2, <1>3, <1>4, <1>5, <2>1, FetchSent
<1>6. CASE ~(rd.more /\ cid) /\ End("end")
  <2>1. End("end")
    BY <1>6
  <2>2. result' = "end"
    BY <2>1 DEF End, Done
  <2>3. EndMeansAll' /\ OneIsOne'
    BY <1>1, <1>2, <1>4, <1>6, <2>2 DEF EndMeansAll, OneIsOne
  <2>4. Len(got') + Len(rd'.held) <= pos
    BY <1>2, <1>3
  <2> QED
    BY <1>1, <1>2, <1>3, <2>1, <2>3, <2>4, Ended
<1>7. CASE rd.more /\ ~cid /\ pc' = "spin" /\ UNCHANGED <<asked, resp, result, fate>>
  <2>1. /\ table' = table /\ lob' = lob /\ kind' = kind /\ pos' = pos /\ failed' = failed
        /\ asked' = asked /\ resp' = resp /\ result' = result /\ fate' = fate
    BY <1>1, <1>7 DEF fixed, server
  <2>2. result = "none" /\ fate = "none" /\ fate \in Fates
    BY <1>1, <1>7, Ready
  <2>3. Wire' /\ rd'.seed = Before(Len(Received))'
    BY <1>1, <1>3, <1>4, <1>7, SameRows
  <2>4. Shape'
    BY <1>1, <1>3, <1>7, <2>1 DEF PagingInv, Shape, Pcs
  <2>5. Reader'
    BY <1>1, <1>3, <1>7, <2>1, <2>2, <2>3 DEF Reader
  <2>6. Cursor' /\ Verdict'
    BY <1>1, <1>7, <2>1, <2>2 DEF Cursor, Verdict
  <2> QED
    BY <2>3, <2>4, <2>5, <2>6 DEF PagingInv
<1> QED
  BY <1>5, <1>6, <1>7 DEF CollectStep

\* query_one and query_opt: one page more while one row or none is known.
LEMMA OneStepInv == ASSUME PagingInv, OneStep PROVE PagingInv'
<1>1. /\ pc = "ready" /\ kind = "one" /\ UNCHANGED <<fixed, server>>
      /\ kind' = kind /\ cid' = cid /\ table' = table
  BY DEF OneStep, fixed
<1>2. /\ rd \in Readings /\ got = << >> /\ rd.batch \in Seq(Row) /\ rd.more \in BOOLEAN
      /\ rd.held \in Seq(Row) /\ Quiet /\ (~(rd.more /\ cid) => Received = table) /\ cid \in BOOLEAN
      /\ Len(got) + Len(rd.held) + Len(rd.batch) <= pos /\ got \in Seq(Row)
      /\ Len(Received) <= Len(table) /\ table \in Seq(Row)
  BY <1>1, Ready
<1> DEFINE rows == rd.held \o rd.batch
<1>3. rows \in Seq(Row) /\ Received = rows /\ Len(rows) = Len(rd.held) + Len(rd.batch)
  BY <1>2, HandOver DEF Received
<1>4. CASE WantsMore(rd)
  <2>1. rd' = [rd EXCEPT !.held = Keep(rd), !.batch = << >>] /\ Fetch(0) /\ got' = got
    BY <1>4 DEF OneStep
  <2>2. Len(rd.held) + Len(rd.batch) < 2 /\ rd.more /\ cid /\ 0 \in Nat
    BY <1>4 DEF WantsMore
  <2>3. Keep(rd) \in Seq(Row) /\ << >> \o Keep(rd) \o << >> = << >> \o rd.held \o rd.batch
    BY <1>2, <2>2, KeepOne DEF Keep
  <2>4. /\ rd' \in Readings /\ rd'.more = rd.more /\ rd'.seed = rd.seed /\ rd'.batch = << >>
        /\ rd'.held = Keep(rd)
    <3> HIDE DEF Keep
    <3> QED
      BY <1>2, <2>1, <2>3 DEF Readings
  <2>5. Received' = Received
    BY <1>2, <2>1, <2>3, <2>4 DEF Received
  <2> QED
    BY <1>1, <1>2, <2>1, <2>2, <2>4, <2>5, FetchSent
<1>5. CASE ~WantsMore(rd)
  <2>1. /\ rd' = [rd EXCEPT !.held = << >>, !.batch = rows]
        /\ IF rd.more \/ Len(rows) > 1 THEN End("toomany") /\ UNCHANGED got
           ELSE IF rows = << >> THEN End("norows") /\ UNCHANGED got
           ELSE End("one") /\ got' = rows
    BY <1>5 DEF OneStep
  <2>2. rd' \in Readings /\ rd'.held = << >>
    <3> HIDE DEF rows
    <3> QED
      BY <1>2, <1>3, <2>1 DEF Readings
  <2>3. rd.more /\ cid => Len(rows) >= 2
    <3>1. Len(rd.held) \in Nat /\ Len(rd.batch) \in Nat
      BY <1>2
    <3>2. Len(rows) = Len(rd.held) + Len(rd.batch)
      BY <1>3
    <3>3. rd.more /\ cid => ~(Len(rd.held) + Len(rd.batch) < 2)
      BY <1>5 DEF WantsMore
    <3> DEFINE h == Len(rd.held)
               b == Len(rd.batch)
               r == Len(rows)
    <3>4. h \in Nat /\ b \in Nat /\ r = h + b /\ (rd.more /\ cid => ~(h + b < 2))
      BY <3>1, <3>2, <3>3
    <3> HIDE DEF h, b, r
    <3>5. rd.more /\ cid => r >= 2
      BY <3>4
    <3> QED
      BY <3>5 DEF r
  <2>7. Len(rows) \in Nat /\ Len(table) \in Nat /\ Len(rows) <= Len(table)
        /\ (rows # << >> => Len(rows) # 0)
    <3>1. Len(table) \in Nat
      BY <1>2
    <3>2. Len(rows) \in Nat /\ (rows # << >> => Len(rows) # 0)
      BY <1>3, EmptyLen
    <3> HIDE DEF rows
    <3> QED
      BY <1>2, <1>3, <3>1, <3>2
  <2> HIDE DEF rows
  <2>4. CASE rd.more \/ Len(rows) > 1
    <3>1. End("toomany") /\ got' = got
      BY <2>1, <2>4
    <3>2. result' = "toomany"
      BY <3>1 DEF End, Done
    <3>3. cid => Len(table) >= 2
      BY <2>3, <2>4, <2>7
    <3>4. EndMeansAll' /\ OneIsOne'
      BY <1>1, <3>2, <3>3 DEF EndMeansAll, OneIsOne
    <3>5. Len(got') + Len(rd'.held) <= pos
      BY <1>2, <2>2, <3>1 DEF PagingInv, Shape
    <3> QED
      BY <1>1, <1>2, <2>2, <3>1, <3>4, <3>5, Ended
  <2>5. CASE ~rd.more /\ ~(Len(rows) > 1) /\ rows = << >>
    <3>1. End("norows") /\ got' = got
      BY <2>1, <2>5
    <3>2. result' = "norows"
      BY <3>1 DEF End, Done
    <3>3. table = << >>
      BY <1>2, <1>3, <2>5
    <3>4. EndMeansAll' /\ OneIsOne'
      BY <1>1, <3>2, <3>3 DEF EndMeansAll, OneIsOne
    <3>5. Len(got') + Len(rd'.held) <= pos
      BY <1>2, <2>2, <3>1 DEF PagingInv, Shape
    <3> QED
      BY <1>1, <1>2, <2>2, <3>1, <3>4, <3>5, Ended
  <2>6. CASE ~rd.more /\ ~(Len(rows) > 1) /\ rows # << >>
    <3>1. End("one") /\ got' = rows
      BY <2>1, <2>6
    <3>2. result' = "one"
      BY <3>1 DEF End, Done
    <3>3. table = rows /\ Len(rows) = 1
      <4>1. Len(rows) = 1
        <5> DEFINE r == Len(rows)
        <5>1. r \in Nat /\ r # 0 /\ ~(r > 1)
          BY <2>6, <2>7
        <5> HIDE DEF r
        <5>2. r = 1
          BY <5>1
        <5> QED
          BY <5>2 DEF r
      <4> QED
        BY <1>2, <1>3, <2>6, <4>1
    <3>4. EndMeansAll' /\ OneIsOne'
      BY <1>1, <3>1, <3>2, <3>3 DEF EndMeansAll, OneIsOne
    <3>5. Len(got') + Len(rd'.held) <= pos
      <4>1. Len(Received) <= pos
        BY <1>1 DEF PagingInv, Wire
      <4>2. Len(got') = Len(rows) /\ Len(rd'.held) = 0
        BY <2>2, <3>1
      <4> DEFINE g == Len(got')
                 h == Len(rd'.held)
      <4>3. g \in Nat /\ h = 0 /\ g <= pos
        BY <1>3, <2>7, <4>1, <4>2
      <4> HIDE DEF g, h
      <4>4. g + h <= pos
        BY <4>3
      <4> QED
        BY <4>4 DEF g, h
    <3> QED
      BY <1>1, <1>2, <1>3, <2>2, <3>1, <3>4, <3>5, Ended
  <2> QED
    BY <1>2, <2>4, <2>5, <2>6
<1> QED
  BY <1>4, <1>5

\* One row more of the batch: nothing else moves.
LEMMA RowHanded ==
    ASSUME PagingInv, pc = "ready", kind \in {"stream", "each"}, rd.batch # << >>,
           got' = Append(got, Head(rd.batch)), rd' = [rd EXCEPT !.batch = Tail(@)],
           UNCHANGED <<fixed, server>>, UNCHANGED <<asked, resp, pc, result, fate>>
    PROVE  PagingInv'
<1>1. /\ rd \in Readings /\ got \in Seq(Row) /\ rd.batch \in Seq(Row) /\ rd.held = << >>
      /\ table' = table /\ lob' = lob /\ cid' = cid /\ kind' = kind /\ pos' = pos /\ failed' = failed
  BY Ready DEF fixed, server
<1>2. Head(rd.batch) \in Row /\ Tail(rd.batch) \in Seq(Row)
  BY <1>1
<1>3. /\ rd' \in Readings /\ rd'.more = rd.more /\ rd'.seed = rd.seed
      /\ rd'.batch = Tail(rd.batch) /\ rd'.held = << >>
  BY <1>1, <1>2 DEF Readings
<1>4. got' \in Seq(Row)
  BY <1>1, <1>2
<1>5. Received' = Received
  <2>1. Append(got, Head(rd.batch)) \o << >> \o Tail(rd.batch) = got \o << >> \o rd.batch
    BY <1>1, HandOne
  <2> QED
    BY <1>1, <1>3, <2>1 DEF Received
<1>6. Wire' /\ rd'.seed = Before(Len(Received))'
  BY <1>3, <1>5, SameRows
<1>7. Shape'
  BY <1>1, <1>3, <1>4 DEF PagingInv, Shape
<1>8. Reader'
  <2>1. Len(Received') = Len(Received) /\ (Quiet' <=> Quiet)
    BY <1>5 DEF Quiet
  <2> QED
    BY <1>1, <1>3, <1>6, <2>1 DEF PagingInv, Reader
<1>9. Cursor' /\ Verdict'
  BY <1>1, <1>3 DEF PagingInv, Cursor, Verdict
<1> QED
  BY <1>6, <1>7, <1>8, <1>9 DEF PagingInv

\* A stream or for_each_row_ref that has read its last row has read the table.
LEMMA ReadToTheEnd ==
    ASSUME PagingInv, pc = "ready", kind \in {"stream", "each"}, rd.batch = << >>,
           ~(rd.more /\ cid), End("end"), UNCHANGED <<fixed, server>>, rd' = rd, got' = got
    PROVE  PagingInv'
<1>1. /\ rd \in Readings /\ got \in Seq(Row) /\ rd.held = << >> /\ Quiet /\ Received = table
      /\ Len(got) + Len(rd.held) <= pos /\ kind' = kind /\ cid' = cid /\ table' = table
  BY Ready DEF fixed
<1>2. Received = got
  BY <1>1 DEF Received
<1>3. result' = "end"
  BY DEF End, Done
<1>4. EndMeansAll' /\ OneIsOne'
  BY <1>1, <1>2, <1>3 DEF EndMeansAll, OneIsOne
<1> QED
  BY <1>1, <1>4, Ended

\* OwnedRowStream::poll_next.
LEMMA StreamStepInv == ASSUME PagingInv, StreamStep PROVE PagingInv'
<1>1. pc = "ready" /\ kind = "stream" /\ UNCHANGED <<fixed, server>>
  BY DEF StreamStep
<1>2. CASE rd.batch # << >>
  <2>1. /\ got' = Append(got, Head(rd.batch)) /\ rd' = [rd EXCEPT !.batch = Tail(@)]
        /\ UNCHANGED <<asked, resp, pc, result, fate>>
    BY <1>2 DEF StreamStep
  <2> QED
    BY <1>1, <1>2, <2>1, RowHanded
<1>3. CASE rd.batch = << >> /\ rd.more /\ cid
  <2>1. Fetch(0) /\ 0 \in Nat /\ rd' = rd /\ got' = got
    BY <1>3 DEF StreamStep
  <2>2. rd \in Readings /\ got \in Seq(Row) /\ rd.held = << >> /\ Quiet
    BY <1>1, Ready
  <2>3. Received' = Received
    BY <2>1 DEF Received
  <2> QED
    BY <1>1, <1>3, <2>1, <2>2, <2>3, FetchSent
<1>4. CASE rd.batch = << >> /\ ~(rd.more /\ cid)
  <2>1. End("end") /\ rd' = rd /\ got' = got
    BY <1>4 DEF StreamStep
  <2> QED
    BY <1>1, <1>4, <2>1, ReadToTheEnd
<1> QED
  BY <1>2, <1>3, <1>4

\* for_each_row_ref: a callback per row, then the page already asked for.
LEMMA EachStepInv == ASSUME PagingInv, EachStep PROVE PagingInv'
<1>1. pc = "ready" /\ kind = "each" /\ UNCHANGED <<fixed, server>>
  BY DEF EachStep
<1>2. CASE rd.batch # << >>
  <2>1. /\ got' = Append(got, Head(rd.batch)) /\ rd' = [rd EXCEPT !.batch = Tail(@)]
        /\ UNCHANGED <<asked, resp, pc, result, fate>>
    BY <1>2 DEF EachStep
  <2> QED
    BY <1>1, <1>2, <2>1, RowHanded
<1>3. CASE rd.batch = << >> /\ rd.more /\ cid /\ Quiet
  <2>1. Fetch(0) /\ 0 \in Nat /\ rd' = rd /\ got' = got
    BY <1>3 DEF EachStep
  <2>2. rd \in Readings /\ got \in Seq(Row) /\ rd.held = << >>
    BY <1>1, Ready
  <2>3. Received' = Received
    BY <2>1 DEF Received
  <2> QED
    BY <1>1, <1>3, <2>1, <2>2, <2>3, FetchSent
<1>4. CASE rd.batch = << >> /\ rd.more /\ cid /\ ~Quiet
  <2>1. /\ pc' = "fetch" /\ rd' = rd /\ got' = got
        /\ asked' = asked /\ resp' = resp /\ result' = result /\ fate' = fate
    BY <1>4 DEF EachStep
  <2>2. table' = table /\ lob' = lob /\ cid' = cid /\ kind' = kind /\ pos' = pos /\ failed' = failed
    BY <1>1 DEF fixed, server
  <2>3. Received' = Received
    BY <2>1 DEF Received
  <2>4. Wire' /\ rd'.seed = Before(Len(Received))'
    BY <1>1, <2>1, <2>3, SameRows
  <2>5. Shape'
    BY <2>1, <2>2 DEF PagingInv, Shape, Pcs
  <2>6. Reader'
    BY <1>1, <1>4, <2>1, <2>2, <2>4 DEF PagingInv, Reader
  <2>7. Cursor' /\ Verdict'
    BY <1>1, <1>4, <2>1, <2>2 DEF PagingInv, Cursor, Verdict
  <2> QED
    BY <2>4, <2>5, <2>6, <2>7 DEF PagingInv
<1>5. CASE rd.batch = << >> /\ ~(rd.more /\ cid)
  <2>1. End("end") /\ rd' = rd /\ got' = got
    BY <1>5 DEF EachStep
  <2> QED
    BY <1>1, <1>5, <2>1, ReadToTheEnd
<1> QED
  BY <1>2, <1>3, <1>4, <1>5

\* A prefix cut at the limit.
LEMMA CutAtLimit ==
    ASSUME NEW R, NEW t \in Seq(R), NEW n \in 0..Len(t), NEW limit \in Nat,
           n = Len(t) \/ n >= limit
    PROVE  LET rows == SubSeq(t, 1, n)
               cut  == SubSeq(rows, 1, IF n < limit THEN n ELSE limit)
           IN  /\ cut \in Seq(R) /\ Len(cut) <= n
               /\ cut = IF limit < Len(t) THEN SubSeq(t, 1, limit) ELSE t
<1> DEFINE rows == SubSeq(t, 1, n)
           m == IF n < limit THEN n ELSE limit
           cut == SubSeq(rows, 1, m)
<1>1. rows \in Seq(R) /\ Len(rows) = n /\ \A i \in 1..n : rows[i] = t[i]
  BY PrefixFacts
<1>2. m \in 0..n
  OBVIOUS
<1>3. cut \in Seq(R) /\ Len(cut) = m /\ \A i \in 1..m : cut[i] = rows[i]
  <2> HIDE DEF m, rows
  <2> QED
    BY <1>1, <1>2, PrefixFacts
<1>4. \A i \in 1..m : cut[i] = t[i]
  <2> HIDE DEF cut, rows, m
  <2> QED
    BY <1>1, <1>2, <1>3
<1>5. CASE limit < Len(t)
  <2>1. m = limit
    BY <1>5
  <2> DEFINE w == SubSeq(t, 1, limit)
  <2>2. w \in Seq(R) /\ Len(w) = limit /\ \A i \in 1..limit : w[i] = t[i]
    <3>1. limit \in 0..Len(t)
      BY <1>5
    <3> QED
      BY <3>1, PrefixFacts
  <2> HIDE DEF w, cut, m
  <2>3. cut = w
    BY <1>3, <1>4, <2>1, <2>2, SameSequence
  <2>4. Len(cut) <= n
    BY <1>2, <1>3
  <2> QED
    BY <1>3, <1>5, <2>3, <2>4 DEF w, cut, m
<1>6. CASE ~(limit < Len(t))
  <2>1. m = Len(t) /\ n = Len(t)
    <3> DEFINE l == Len(t)
    <3>1. l \in Nat /\ n \in 0..l /\ (n = l \/ n >= limit) /\ ~(limit < l)
      BY <1>6
    <3> HIDE DEF l
    <3>2. (IF n < limit THEN n ELSE limit) = l /\ n = l
      BY <3>1
    <3> QED
      BY <3>2 DEF l
  <2> HIDE DEF cut, m
  <2>2. cut = t
    BY <1>3, <1>4, <2>1, SameSequence
  <2>4. Len(cut) <= n
    BY <1>2, <1>3
  <2> QED
    BY <1>3, <1>6, <2>2, <2>4 DEF cut, m
<1> QED
  BY <1>5, <1>6

\* fetch_cursor: rows until the end or the limit.
LEMMA NestedStepInv == ASSUME PagingInv, NestedStep PROVE PagingInv'
<1> DEFINE rows == got \o rd.batch
<1>1. /\ pc = "ready" /\ kind = "nested" /\ UNCHANGED <<fixed, server>>
      /\ rd' = [rd EXCEPT !.batch = << >>] /\ kind' = kind /\ cid' = cid /\ table' = table
  BY DEF NestedStep, fixed
<1>2. /\ rd \in Readings /\ got \in Seq(Row) /\ rd.batch \in Seq(Row) /\ rd.more \in BOOLEAN
      /\ rd.held = << >> /\ Quiet /\ (~(rd.more /\ cid) => Received = table) /\ cid \in BOOLEAN
      /\ Received = SubSeq(table, 1, Len(Received)) /\ Len(Received) <= Len(table)
      /\ Len(Received) = pos /\ table \in Seq(Row)
  BY <1>1, Ready
<1>3. /\ rd' \in Readings /\ rd'.more = rd.more /\ rd'.seed = rd.seed /\ rd'.batch = << >>
      /\ rd'.held = << >>
  BY <1>1, <1>2 DEF Readings
<1>4. rows \in Seq(Row) /\ Received = rows /\ rows \o << >> \o << >> = rows
  BY <1>2, HandOver DEF Received
<1>5. CASE rd.more /\ Len(rows) < Limit
  <2>1. got' = rows /\ Fetch(Len(rows))
    BY <1>5 DEF NestedStep
  <2>3. Len(rows) \in Nat /\ cid
    BY <1>1, <1>4, Ready
  <2>2. Received' = Received
    BY <1>3, <1>4, <2>1 DEF Received
  <2> HIDE DEF rows
  <2> QED
    BY <1>1, <1>2, <1>3, <1>4, <1>5, <2>1, <2>2, <2>3, FetchSent
<1>6. CASE ~(rd.more /\ Len(rows) < Limit)
  <2>1. got' = SubSeq(rows, 1, IF Len(rows) < Limit THEN Len(rows) ELSE Limit) /\ End("end")
    BY <1>6 DEF NestedStep
  <2> HIDE DEF rows
  <2>2. Len(rows) \in Nat /\ Len(rows) = pos /\ Limit \in Nat /\ rows = SubSeq(table, 1, pos)
        /\ pos \in 0..Len(table)
    BY <1>2, <1>4, PagingAssumption DEF PagingInv, Shape
  <2>3. pos = Len(table) \/ pos >= Limit
    <3>1. CASE ~rd.more
      BY <1>2, <2>2, <3>1
    <3>2. CASE rd.more
      BY <1>6, <2>2, <3>2
    <3> QED
      BY <1>2, <3>1, <3>2
  <2>4. /\ got' \in Seq(Row) /\ Len(got') <= pos
        /\ got' = IF Limit < Len(table) THEN SubSeq(table, 1, Limit) ELSE table
    BY <1>2, <2>1, <2>2, <2>3, CutAtLimit
  <2>5. result' = "end"
    BY <2>1 DEF End, Done
  <2>6. EndMeansAll' /\ OneIsOne'
    BY <1>1, <2>4, <2>5 DEF EndMeansAll, OneIsOne
  <2>7. Len(got') + Len(rd'.held) <= pos
    <3> DEFINE g == Len(got')
               h == Len(rd'.held)
    <3>1. g \in Nat /\ h = 0 /\ g <= pos
      BY <1>3, <2>4
    <3> HIDE DEF g, h
    <3>2. g + h <= pos
      BY <3>1, <2>2
    <3> QED
      BY <3>2 DEF g, h
  <2> QED
    BY <1>1, <1>2, <1>3, <2>1, <2>4, <2>6, <2>7, Ended
<1> QED
  BY <1>5, <1>6

-----------------------------------------------------------------------------
(* Interruptions *)

\* A reader that is stopped keeps what it has; what becomes of the cursor and
\* the wire is all there is to show.
LEMMA Stopped ==
    ASSUME PagingInv, pc # "done", pc' = "done", rd' = rd, got' = got, fate' \in Fates,
           UNCHANGED <<fixed, server>>,
           result' \in {"timeout", "late", "dropped", "abandoned", "reclaimed", "failed"},
           kind # "nested" => /\ fate' = "inuse" => result' = "abandoned"
                              /\ (result' = "timeout" => fate' # "cached"),
           \/ asked' = 0 /\ resp' = << >>
           \/ asked' = asked /\ resp' = resp /\ (result' = "reclaimed" => Quiet)
    PROVE  PagingInv'
<1>1. /\ rd \in Readings /\ got \in Seq(Row) /\ asked \in 0..ArraySize
      /\ (asked # 0 => resp = << >>) /\ Len(Received) <= pos /\ pos \in Nat
      /\ table' = table /\ lob' = lob /\ cid' = cid /\ kind' = kind /\ pos' = pos /\ failed' = failed
  <2>1. /\ rd \in Readings /\ got \in Seq(Row) /\ asked \in 0..ArraySize
        /\ table \in Seq(Row) /\ pos \in 0..Len(table)
    BY DEF PagingInv, Shape
  <2>2. pos \in Nat
    BY <2>1
  <2>3. (asked # 0 => resp = << >>) /\ Len(Received) <= pos
    BY DEF PagingInv, Wire
  <2>4. table' = table /\ lob' = lob /\ cid' = cid /\ kind' = kind /\ pos' = pos /\ failed' = failed
    BY DEF fixed, server
  <2> QED
    BY <2>1, <2>2, <2>3, <2>4
<1>2. Len(got') + Len(rd'.held) <= pos'
  <2> DEFINE a == Len(got)
             b == Len(rd.held)
             c == Len(rd.batch)
             r == Len(Received)
  <2>1. a \in Nat /\ b \in Nat /\ c \in Nat
    BY ReceivedRows DEF PagingInv
  <2>2. r = a + b + c
    BY ReceivedRows DEF PagingInv
  <2>3. r <= pos
    BY <1>1
  <2> HIDE DEF a, b, c, r
  <2>4. a + b <= pos
    BY <1>1, <2>1, <2>2, <2>3
  <2> QED
    BY <1>1, <2>4 DEF a, b
<1>3. EndMeansAll' /\ OneIsOne' /\ DecodesWhatIsSent'
  BY DEF EndMeansAll, OneIsOne, DecodesWhatIsSent
<1>4. CursorFate'
  BY <1>1 DEF CursorFate
<1>5. NothingLeftUnread'
  BY DEF NothingLeftUnread, Quiet
<1>6. Verdict'
  BY <1>2, <1>3, <1>4, <1>5 DEF Verdict
<1>7. asked' \in 0..ArraySize /\ (asked' # 0 => resp' = << >>)
  <2>1. CASE asked' = 0
    BY <2>1, PagingAssumption
  <2>2. CASE asked' = asked /\ resp' = resp
    BY <1>1, <2>2
  <2> QED
    BY <2>1, <2>2
<1> QED
  BY <1>1, <1>6, <1>7, Finished

\* A deadline, cancellation, a drop and into_connection.
LEMMA InterruptStep ==
    ASSUME PagingInv, "redrive" \notin Usage, Interrupt
    PROVE  PagingInv'
<1>1. CASE Timeout
  <2>1. /\ pc \in {"execute", "define", "fetch"} /\ kind \notin {"each", "nested"}
        /\ pc' = "done" /\ result' = "timeout"
        /\ fate' = (IF pc = "execute" THEN fate ELSE CloseCursor)
        /\ asked' = 0 /\ resp' = << >> /\ rd' = rd /\ got' = got /\ UNCHANGED <<fixed, server>>
    BY <1>1 DEF Timeout, Done
  <2>2. /\ fate \in Fates
        /\ pc = "execute" => fate = "none"
        /\ pc # "execute" => fate = "inuse" /\ cid
    BY <2>1 DEF PagingInv, Cursor, Reader, Shape, Fates
  <2>3. fate' \in {"none", "closing"}
    BY <2>1, <2>2 DEF CloseCursor
  <2> QED
    BY <2>1, <2>3, Stopped DEF Fates
<1>2. CASE BeforeStart
  <2>1. /\ pc = "ready" /\ pc' = "done" /\ result' = "late" /\ fate' = ReleaseCursor
        /\ asked' = asked /\ resp' = resp /\ rd' = rd /\ got' = got /\ UNCHANGED <<fixed, server>>
    BY <1>2 DEF BeforeStart, Done
  <2>2. fate \in Fates
    BY <2>1, Ready
  <2>3. fate' \in Fates /\ fate' # "inuse"
    BY <2>1, <2>2 DEF ReleaseCursor, Fates
  <2> QED
    BY <2>1, <2>3, Stopped
<1>3. CASE EachAborts
  <2>1. /\ pc # "done" /\ pc' = "done" /\ result' = "dropped" /\ fate' = CloseCursor
        /\ asked' = asked /\ resp' = resp /\ rd' = rd /\ got' = got /\ UNCHANGED <<fixed, server>>
    BY <1>3 DEF EachAborts, Done
  <2>2. fate \in Fates
    BY DEF PagingInv, Shape, Fates
  <2>3. fate' \in Fates /\ fate' # "inuse"
    BY <2>1, <2>2 DEF CloseCursor, Fates
  <2> QED
    BY <2>1, <2>3, Stopped
<1>4. CASE Drop
  <2>1. /\ pc # "done" /\ pc' = "done" /\ asked' = asked /\ resp' = resp
        /\ rd' = rd /\ got' = got /\ UNCHANGED <<fixed, server>>
        /\ \/ result' = "dropped" /\ fate' \in {"lost", ReleaseCursor}
           \/ result' = "abandoned" /\ fate' = fate
    BY <1>4 DEF Drop, Done
  <2>2. fate \in Fates
    BY DEF PagingInv, Shape, Fates
  <2>3. fate' \in Fates /\ (result' = "dropped" => fate' # "inuse")
    BY <2>1, <2>2 DEF ReleaseCursor, Fates
  <2> QED
    BY <2>1, <2>3, Stopped
<1>5. CASE IntoConnection
  <2>1. /\ kind = "stream" /\ pc \in {"ready", "fetch"} /\ UNCHANGED <<fixed, server>>
        /\ asked' = asked /\ resp' = resp /\ rd' = rd /\ got' = got
    BY <1>5 DEF IntoConnection
  <2>2. CASE pc = "ready"
    <3>1. pc' = "done" /\ result' = "reclaimed" /\ fate' = ReleaseCursor
      BY <1>5, <2>2 DEF IntoConnection, Done
    <3>2. fate \in Fates /\ Quiet
      BY <2>1, <2>2, Ready
    <3>3. fate' \in Fates /\ fate' # "inuse"
      BY <3>1, <3>2 DEF ReleaseCursor, Fates
    <3> QED
      BY <2>1, <2>2, <3>1, <3>2, <3>3, Stopped
  <2>4. CASE pc = "fetch" /\ pc' = "done"
    <3>1. result' = "failed" /\ fate' = "lost"
      BY <1>5, <2>4 DEF IntoConnection, Done
    <3> QED
      BY <2>1, <2>4, <3>1, Stopped DEF Fates
  <2>3. CASE pc = "fetch" /\ pc' # "done"
    <3>1. pc' = "reclaim" /\ result' = result /\ fate' = fate
      BY <1>5, <2>3 DEF IntoConnection, Done
    <3>2. table' = table /\ lob' = lob /\ cid' = cid /\ kind' = kind /\ pos' = pos /\ failed' = failed
      BY <2>1 DEF fixed, server
    <3>3. Received' = Received
      BY <2>1 DEF Received
    <3>4. Wire' /\ rd'.seed = Before(Len(Received))'
      BY <2>1, <2>3, <3>1, <3>3, SameRows
    <3>5. Shape'
      BY <2>1, <3>1, <3>2 DEF PagingInv, Shape, Pcs
    <3>6. Reader'
      BY <2>1, <2>3, <3>1, <3>2, <3>4 DEF PagingInv, Reader
    <3>7. Cursor' /\ Verdict'
      BY <2>1, <2>3, <3>1, <3>2 DEF PagingInv, Cursor, Verdict
    <3> QED
      BY <3>4, <3>5, <3>6, <3>7 DEF PagingInv
  <2> QED
    BY <2>1, <2>2, <2>3, <2>4
<1>6. CASE Redrive
  <2>1. /\ kind = "rows" /\ pc = "fetch" /\ pc' = "ready" /\ asked' = 0 /\ resp' = << >>
        /\ resp = << >> /\ rd' = [rd EXCEPT !.redriven = TRUE]
        /\ UNCHANGED <<fixed, server>> /\ got' = got /\ result' = result /\ fate' = fate
    BY <1>6 DEF Redrive
  <2>2. /\ rd.batch = << >> /\ rd.more /\ result = "none" /\ rd \in Readings
        /\ fate = "inuse" /\ rd.held = << >> /\ cid
    BY <2>1, Fetching
  <2>3. /\ rd' \in Readings /\ rd'.more = rd.more /\ rd'.seed = rd.seed
        /\ rd'.batch = << >> /\ rd'.held = << >>
    BY <2>1, <2>2 DEF Readings
  <2>4. table' = table /\ lob' = lob /\ cid' = cid /\ kind' = kind /\ pos' = pos /\ failed' = failed
    BY <2>1 DEF fixed, server
  <2>5. Received' = Received /\ Len(Received) = pos
    BY <2>1, <2>2, <2>3 DEF Received, PagingInv, Wire
  <2>6. Wire' /\ rd'.seed = Before(Len(Received))'
    BY <2>1, <2>3, <2>5, SameRows
  <2>7. Shape'
    BY <2>1, <2>3, <2>4, PagingAssumption DEF PagingInv, Shape, Pcs
  <2>8. Reader'
    BY <2>1, <2>2, <2>3, <2>4, <2>6 DEF Reader, Quiet
  <2>9. Cursor' /\ Verdict'
    BY <2>1, <2>2, <2>4 DEF Cursor, Verdict
  <2> QED
    BY <2>6, <2>7, <2>8, <2>9 DEF PagingInv
<1> QED
  BY <1>1, <1>2, <1>3, <1>4, <1>5, <1>6 DEF Interrupt

\* into_connection gets the connection back from a fetch that was pending.
LEMMA ReclaimedStep == ASSUME PagingInv, Reclaimed PROVE PagingInv'
<1>1. /\ pc = "reclaim" /\ pc' = "done" /\ result' \in {"reclaimed", "failed"}
      /\ fate' \in {ReleaseCursor, CloseCursor, "lost"}
      /\ asked' = 0 /\ resp' = << >> /\ rd' = rd /\ got' = got /\ UNCHANGED <<fixed, server>>
  BY DEF Reclaimed, Done
<1>2. fate \in Fates
  BY DEF PagingInv, Shape, Fates
<1>3. fate' \in Fates /\ fate' # "inuse"
  BY <1>1, <1>2 DEF ReleaseCursor, CloseCursor, Fates
<1> QED
  BY <1>1, <1>3, Stopped

\* Every step keeps the invariant.
LEMMA NextPaging ==
    ASSUME PagingInv, "redrive" \notin Usage, [Next]_vars
    PROVE  PagingInv'
<1>1. CASE Reply
  BY <1>1, ReplyStep
<1>2. CASE Read
  BY <1>2, FirstPageStep, DefinePageStep, FetchPageStep, EachPageStep, CollectStepInv,
     OneStepInv, StreamStepInv, NestedStepInv, EachStepInv, ReclaimedStep DEF Read
<1>3. CASE Interrupt
  BY <1>3, InterruptStep
<1>4. CASE UNCHANGED vars
  <2>1. /\ table' = table /\ lob' = lob /\ cid' = cid /\ kind' = kind /\ pos' = pos /\ failed' = failed
        /\ asked' = asked /\ resp' = resp /\ pc' = pc /\ rd' = rd /\ got' = got
        /\ result' = result /\ fate' = fate
    BY <1>4 DEF vars, fixed, server
  <2>2. Shape'
    BY <2>1 DEF PagingInv, Shape
  <2>3. Wire'
    <3>1. Received' = Received /\ (NextPage' <=> NextPage)
      BY <2>1 DEF Received, NextPage, Page
    <3> QED
      BY <2>1, <3>1 DEF PagingInv, Wire
  <2>4. Reader' /\ Cursor'
    BY <2>1 DEF PagingInv, Reader, Cursor, Received, Before, Quiet
  <2>5. Verdict'
    BY <2>1 DEF PagingInv, Verdict, EndMeansAll, OneIsOne, DecodesWhatIsSent, CursorFate,
       NothingLeftUnread, Quiet
  <2> QED
    BY <2>2, <2>3, <2>4, <2>5 DEF PagingInv
<1> QED
  BY <1>1, <1>2, <1>3, <1>4 DEF Next

\* What the readers promise follows from the invariant.
LEMMA PagingImplies == PagingInv => ReadsTheTable /\ LeavesNothingBehind
<1> SUFFICES ASSUME PagingInv PROVE ReadsTheTable /\ LeavesNothingBehind
  OBVIOUS
<1>1. TypeOK
  <2>1. /\ pc \in Pcs /\ asked \in 0..ArraySize /\ pos \in 0..Len(table)
        /\ rd.seed \in Row \cup {NoRow} /\ rd.more \in BOOLEAN
        /\ got \in Seq(Row) /\ rd.batch \in Seq(Row) /\ rd.held \in Seq(Row)
        /\ fate \in {"none", "inuse", "cached", "closing", "lost"}
    BY DEF PagingInv, Shape, Readings
  <2>2. Len(got) + Len(rd.held) <= pos
    <3>1. CASE pc = "done"
      BY <3>1 DEF PagingInv, Verdict
    <3>2. CASE pc # "done"
      <4> DEFINE a == Len(got)
                 b == Len(rd.held)
                 c == Len(rd.batch)
                 r == Len(Received)
      <4>1. a \in Nat /\ b \in Nat /\ c \in Nat /\ pos \in Nat
        BY <2>1
      <4>2. r = a + b + c
        BY ReceivedRows DEF PagingInv
      <4>3. r <= pos
        BY <3>2 DEF PagingInv, Wire
      <4> HIDE DEF a, b, c, r
      <4>4. a + b <= pos
        BY <4>1, <4>2, <4>3
      <4> QED
        BY <4>4 DEF a, b
    <3> QED
      BY <3>1, <3>2
  <2> QED
    BY <2>1, <2>2 DEF TypeOK
<1>2. DeliveredPrefix
  <2> SUFFICES ASSUME pc # "done" PROVE IsPrefix(Received, table)
    BY DEF DeliveredPrefix, Received
  <2>1. /\ Received = SubSeq(table, 1, Len(Received)) /\ Len(Received) <= pos
        /\ pos \in 0..Len(table) /\ Received \in Seq(Row) /\ table \in Seq(Row)
    BY ReceivedRows DEF PagingInv, Wire, Shape
  <2> DEFINE r == Len(Received)
  <2>2. r \in 0..Len(table)
    <3>1. r \in Nat /\ Len(table) \in Nat
      BY <2>1
    <3> HIDE DEF r
    <3> QED
      BY <2>1, <3>1 DEF r
  <2> QED
    BY <2>1, <2>2 DEF IsPrefix
<1>3. EndMeansAll /\ OneIsOne /\ DecodesWhatIsSent /\ CursorFate /\ NothingLeftUnread
  BY DEF PagingInv, Verdict, Reader, EndMeansAll, OneIsOne, DecodesWhatIsSent, CursorFate,
     NothingLeftUnread
<1> QED
  BY <1>1, <1>2, <1>3 DEF ReadsTheTable, LeavesNothingBehind

-----------------------------------------------------------------------------
(* The theorems *)

\* The five readers, for every table, array size, limit and compression and
\* wherever the server splits the pages: rows arrive in order, once and
\* decompressed right, the end is reported only when all were delivered,
\* query_one's verdict is about the table, and decoding fails only when the
\* server did.  Re-driving a next_batch whose page is already on the wire is
\* left out: it loses that page.
THEOREM ReadersReadTheTable ==
    ASSUME "redrive" \notin Usage
    PROVE  Spec => []ReadsTheTable
<1>1. PagingInv /\ [Next]_vars => PagingInv'
  BY NextPaging
<1>2. PagingInv => ReadsTheTable
  BY PagingImplies
<1> QED
  BY <1>1, <1>2, InitPaging, PTL DEF Spec

\* However a reader ends, by itself, by an error, a deadline, a drop or
\* into_connection, its cursor is released or queued for closing as that
\* ending demands, and a reader that ended by itself leaves nothing unread.
\* The one ending that keeps the cursor in use is a query_with dropped while
\* its define-fetch is in flight.
THEOREM ReadersLeaveNothing ==
    ASSUME "redrive" \notin Usage
    PROVE  Spec => []LeavesNothingBehind
<1>1. PagingInv /\ [Next]_vars => PagingInv'
  BY NextPaging
<1>2. PagingInv => LeavesNothingBehind
  BY PagingImplies
<1> QED
  BY <1>1, <1>2, InitPaging, PTL DEF Spec

=============================================================================
