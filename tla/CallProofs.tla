---------------------------- MODULE CallProofs -----------------------------
(***************************************************************************)
(* Proofs about calls of the client: what they do on the server, and what  *)
(* the client knows of it.                                                 *)
(*                                                                         *)
(* The first part is about Transactions: for any borrowers, ids and        *)
(* branches, with lost responses, failing statements, refused batches and  *)
(* pipelined commits, and whenever the session is released, no transaction *)
(* goes from one borrower to the next and the client's view is the         *)
(* server's, except after the events that `doubt` records.                 *)
(*                                                                         *)
(* The second part is about Retry: for every policy, every sequence of     *)
(* failures and every moment of cancellation, an operation is repeated     *)
(* only when that is safe, the attempts stay within max_retries + 1 and    *)
(* the backoffs only grow up to their cap.                                 *)
(*                                                                         *)
(* The third part is about Connect: for every descriptor and whatever the  *)
(* listeners answer, what leaves the client goes to the address and with   *)
(* the security that the descriptor gives it.                              *)
(***************************************************************************)
EXTENDS Transactions, Retry, Connect, FiniteSetTheorems, SequenceTheorems,
        WellFoundedInduction, TLAPS

SessionlessData == [id : Ids \cup {None}, resume : BOOLEAN, op : SUBSET {"start", "post"},
                    pending : BOOLEAN, byServer : BOOLEAN]
ClientStates == [sess : SUBSET SessionlessData, ctx : SUBSET Xids, flag : BOOLEAN]
Fates == {"unused", "active", "prepared", "committed", "aborted", "forgotten"}
Sayings == {"nothing", "prepared", "forgotten", "committed", "aborted"}
ServerStates == [cur : Txns \cup {None, "local"}, byServer : BOOLEAN,
                 dirty : SUBSET Xids, fate : [Txns -> Fates]]

-----------------------------------------------------------------------------
(* Transactions: the inductive invariant *)

Single(S) == \A a, b \in S : a = b
Doubts == {"error", "begin", "piped", "del"}
Erred == "error" \in doubt
Calm == doubt \cap {"error", "begin"} = {}

Types ==
    /\ client \in ClientStates /\ Single(client.sess) /\ Single(client.ctx)
    /\ srv \in ServerStates
    /\ user \in Borrowers \cup {"pool"} /\ doubt \subseteq Doubts
    /\ asked \in Borrowers \cup {None} /\ deferrer \in Borrowers \cup {None}
    /\ told \in [Xids -> Sayings]

(* A flag that is up in the pool is one that __del__ left there, after an   *)
(* error.                                                                   *)
PoolIsClean ==
    /\ "del" \in doubt => Erred
    /\ user = "pool" /\ client.flag => "del" \in doubt

(* Agrees, in the pool as well: as long as there was no error.              *)
Agreed ==
    ~Erred =>
        /\ client.flag <=> srv.cur # None
        /\ srv.cur \in Ids => \E r \in client.sess : ~r.pending
        /\ "piped" \notin doubt /\ (\E r \in client.sess : ~r.pending) => srv.cur \in Ids
        /\ srv.cur \in Xids => client.ctx = {srv.cur}

(* A begin that waits for the next execute is one of its borrower's, unless *)
(* it went through the pool; only a batch refused by the client, an error,  *)
(* leaves a suspend waiting.                                                *)
Waiting ==
    \A r \in client.sess : r.pending =>
        /\ r.op # {} /\ ("start" \in r.op => r.id \in Ids)
        /\ Calm => deferrer = user
        /\ ~Erred => r.op = {"start"}

(* What the server's own PL/SQL began is a sessionless transaction and is   *)
(* known to be the server's.                                                *)
ServerBegan ==
    srv.byServer => srv.cur \in Ids /\ (~Erred => \A r \in client.sess : r.byServer)

TxnInv ==
    /\ Types /\ PoolIsClean /\ Isolation /\ Agreed /\ Waiting /\ ServerBegan
    /\ ToldTheTruth

-----------------------------------------------------------------------------
(* Transactions: the server's transformations *)

(* What may become of the branches in one step: one that was told nothing   *)
(* about may change at will, a prepared one is committed or aborted.        *)
FatesFrom(s, r) ==
    \A x \in Xids :
        \/ r.fate[x] = s.fate[x] \/ s.fate[x] \in {"unused", "active"}
        \/ s.fate[x] = "prepared" /\ r.fate[x] \in {"committed", "aborted"}

SoundFrom(s, r) ==
    r \in ServerStates /\ (r.byServer => r.cur \in Ids) /\ FatesFrom(s, r)

(* A transaction becomes the current one. *)
LEMMA AttachFacts ==
    ASSUME NEW s \in ServerStates, NEW t \in Txns, NEW by \in BOOLEAN
    PROVE  /\ Attach(s, t, by) \in ServerStates
           /\ Attach(s, t, by).cur = t /\ Attach(s, t, by).byServer = by
           /\ Attach(s, t, by).dirty = s.dirty
           /\ Attach(s, t, by).fate = [s.fate EXCEPT ![t] = "active"]
  BY DEF Attach, ServerStates, Fates

(* The current transaction is left. *)
LEMMA DetachFacts ==
    ASSUME NEW s \in ServerStates
    PROVE  /\ Detach(s) \in ServerStates
           /\ Detach(s).cur = None /\ Detach(s).byServer = FALSE
           /\ Detach(s).dirty = s.dirty /\ Detach(s).fate = s.fate
  BY DEF Detach, ServerStates

(* A transaction is over, or prepared. *)
LEMMA SettleFacts ==
    ASSUME NEW s \in ServerStates, NEW t \in Txns, NEW f \in Fates
    PROVE  /\ Settle(s, t, f) \in ServerStates
           /\ Settle(s, t, f).cur = (IF s.cur = t THEN None ELSE s.cur)
           /\ Settle(s, t, f).byServer = s.byServer
           /\ Settle(s, t, f).fate = [s.fate EXCEPT ![t] = f]
  BY DEF Settle, ServerStates

(* COMMIT and ROLLBACK end what is current. *)
LEMMA EndCurrentFacts ==
    ASSUME NEW s \in ServerStates, NEW f \in {"committed", "aborted"}
    PROVE  /\ EndCurrent(s, f) \in ServerStates
           /\ EndCurrent(s, f).cur = None /\ EndCurrent(s, f).byServer = FALSE
           /\ s.cur \in Ids => EndCurrent(s, f).fate = [s.fate EXCEPT ![s.cur] = f]
           /\ s.cur \notin Ids => EndCurrent(s, f).fate = s.fate
<1>1. CASE s.cur \in Ids
  <2>1. s.cur \in Txns /\ f \in Fates
    BY <1>1 DEF Txns, Fates
  <2>2. EndCurrent(s, f) = Detach(Settle(s, s.cur, f))
    BY <1>1 DEF EndCurrent
  <2>3. /\ Settle(s, s.cur, f) \in ServerStates
        /\ Settle(s, s.cur, f).fate = [s.fate EXCEPT ![s.cur] = f]
    BY <2>1, SettleFacts
  <2> QED
    BY <1>1, <2>2, <2>3, DetachFacts
<1>2. CASE s.cur \notin Ids
  <2>1. EndCurrent(s, f) = Detach(s)
    BY <1>2 DEF EndCurrent
  <2> QED
    BY <1>2, <2>1, DetachFacts
<1> QED
  BY <1>1, <1>2

(* A statement opens at most a local transaction. *)
LEMMA WorkFacts ==
    ASSUME NEW s \in ServerStates, NEW kind
    PROVE  /\ Work(s, kind) \in ServerStates
           /\ Work(s, kind).cur \in {s.cur, "local"}
           /\ s.cur # None => Work(s, kind).cur = s.cur
           /\ Work(s, kind).byServer = s.byServer /\ Work(s, kind).fate = s.fate
<1>1. CASE kind # "dml"
  BY <1>1 DEF Work
<1>2. CASE kind = "dml"
  <2>1. s.dirty \in SUBSET Xids /\ (s.cur \in Xids => s.dirty \cup {s.cur} \in SUBSET Xids)
    BY DEF ServerStates
  <2>2. Work(s, kind) = [s EXCEPT !.cur = IF s.cur = None THEN "local" ELSE s.cur,
                                  !.dirty = IF s.cur \in Xids THEN s.dirty \cup {s.cur}
                                            ELSE s.dirty]
    BY <1>2 DEF Work
  <2> QED
    BY <2>1, <2>2 DEF ServerStates
<1> QED
  BY <1>1, <1>2

(* What a server call makes of the server is sound. *)
LEMMA SoundCalls ==
    ASSUME Types, ServerBegan
    PROVE  /\ SoundFrom(srv, srv) /\ SoundFrom(srv, Detach(srv))
           /\ \A t \in Txns, resume \in BOOLEAN : CanStart(srv, t, resume)
                => SoundFrom(srv, Attach(srv, t, FALSE))
           /\ \A f \in {"committed", "aborted"} : SoundFrom(srv, EndCurrent(srv, f))
<1>1. srv \in ServerStates
  BY DEF Types
<1>2. SoundFrom(srv, srv) /\ SoundFrom(srv, Detach(srv))
  BY <1>1, DetachFacts DEF SoundFrom, FatesFrom, ServerBegan
<1>3. ASSUME NEW t \in Txns, NEW resume \in BOOLEAN, CanStart(srv, t, resume)
      PROVE  SoundFrom(srv, Attach(srv, t, FALSE))
  <2>1. srv.fate[t] \in {"unused", "active"}
    BY <1>3 DEF CanStart, Detached
  <2>2. srv.fate \in [Txns -> Fates] /\ Xids \subseteq Txns
    BY <1>1 DEF ServerStates, Txns
  <2>3. \A x \in Xids : x # t => [srv.fate EXCEPT ![t] = "active"][x] = srv.fate[x]
    BY <2>2
  <2>4. /\ Attach(srv, t, FALSE) \in ServerStates /\ Attach(srv, t, FALSE).byServer = FALSE
        /\ Attach(srv, t, FALSE).fate = [srv.fate EXCEPT ![t] = "active"]
    BY <1>1, AttachFacts
  <2> QED
    BY <2>1, <2>3, <2>4 DEF SoundFrom, FatesFrom
<1>4. ASSUME NEW f \in {"committed", "aborted"} PROVE SoundFrom(srv, EndCurrent(srv, f))
  <2>1. srv.fate \in [Txns -> Fates] /\ Xids \subseteq Txns
    BY <1>1 DEF ServerStates, Txns
  <2>2. srv.cur \in Ids => srv.cur \notin Xids
    BY TransactionsAssumption
  <2>3. \A x \in Xids : x # srv.cur => [srv.fate EXCEPT ![srv.cur] = f][x] = srv.fate[x]
    BY <2>1
  <2> QED
    BY <1>1, <2>2, <2>3, EndCurrentFacts DEF SoundFrom, FatesFrom
<1> QED
  BY <1>2, <1>3, <1>4

-----------------------------------------------------------------------------
(* Transactions: facts every step shares *)

(* What the history of doubts gains. *)
LEMMA DoubtedFacts ==
    ASSUME doubt \subseteq Doubts, NEW what \in SUBSET Doubts, Doubted(what)
    PROVE  /\ doubt' \subseteq Doubts
           /\ Erred' <=> Erred \/ "error" \in what
           /\ "del" \in doubt' <=> "del" \in doubt \/ "del" \in what
           /\ ~Erred' => doubt' = doubt \cup what
<1> DEFINE all == doubt \cup what
<1>1. doubt' = (IF "error" \in all THEN all \ {"begin", "piped"} ELSE all)
  BY DEF Doubted
<1> HIDE DEF all
<1>2. all \subseteq Doubts /\ (\A x : x \in all <=> x \in doubt \/ x \in what)
  BY DEF all
<1>3. CASE "error" \in all
  <2>1. doubt' = all \ {"begin", "piped"}
    BY <1>1, <1>3
  <2> QED
    BY <1>2, <1>3, <2>1 DEF Erred
<1>4. CASE "error" \notin all
  <2>1. doubt' = all
    BY <1>1, <1>4
  <2> QED
    BY <1>2, <1>4, <2>1 DEF Erred, all
<1> QED
  BY <1>3, <1>4

(* An error. *)
LEMMA ErrorFacts ==
    ASSUME Types, Doubted({"error"})
    PROVE  /\ doubt' \subseteq Doubts /\ Erred' /\ ~Calm'
           /\ "del" \in doubt' <=> "del" \in doubt
<1>1. {"error"} \in SUBSET Doubts /\ "del" \notin {"error"} /\ "error" \in {"error"}
  BY DEF Doubts
<1>2. /\ doubt' \subseteq Doubts /\ Erred' /\ ("del" \in doubt' <=> "del" \in doubt)
  BY <1>1, DoubtedFacts DEF Types
<1> QED
  BY <1>2 DEF Erred, Calm

(* Credit gives a transaction that appears to the borrower that asked. *)
LEMMA CreditKeeps ==
    ASSUME Types, Isolation, user # "pool", user' = user,
           NEW by \in Borrowers \cup {None}, Credit(by),
           Calm' => srv'.cur = None \/ (Calm /\ by = user)
    PROVE  Isolation' /\ asked' \in Borrowers \cup {None}
<1>1. asked' \in Borrowers \cup {None}
  BY DEF Types, Credit
<1>2. ASSUME user' # "pool", srv'.cur # None, Calm' PROVE asked' = user'
  BY <1>2 DEF Isolation, Credit, Calm
<1> QED
  BY <1>1, <1>2 DEF Isolation, Calm

(* Nothing that was told of a branch becomes untrue. *)
LEMMA ToldKeeps ==
    ASSUME ToldTheTruth, UNCHANGED told, FatesFrom(srv, srv')
    PROVE  ToldTheTruth'
<1> SUFFICES ASSUME NEW x \in Xids
             PROVE  /\ told[x] \in {"committed", "aborted", "forgotten"} =>
                          srv'.fate[x] = told[x]
                          \/ (told[x] = "committed" /\ srv'.fate[x] = "forgotten")
                    /\ told[x] = "prepared" =>
                          srv'.fate[x] \in {"prepared", "committed", "aborted"}
  BY DEF ToldTheTruth
<1> QED
  BY DEF ToldTheTruth, FatesFrom

(* Client and server agree: the parts, one by one. *)
LEMMA AgreesWhen ==
    ASSUME client'.flag <=> srv'.cur # None,
           srv'.cur \in Ids => \E r \in client'.sess : ~r.pending,
           "piped" \notin doubt' /\ (\E r \in client'.sess : ~r.pending) => srv'.cur \in Ids,
           srv'.cur \in Xids => client'.ctx = {srv'.cur}
    PROVE  Agreed'
  BY DEF Agreed

(* ... and what they agree on. *)
LEMMA AgreeNow ==
    ASSUME TxnInv, ~Erred
    PROVE  /\ client.flag <=> srv.cur # None
           /\ srv.cur \in Ids => \E r \in client.sess : ~r.pending
           /\ "piped" \notin doubt /\ (\E r \in client.sess : ~r.pending) => srv.cur \in Ids
           /\ srv.cur \in Xids => client.ctx = {srv.cur}
  BY DEF TxnInv, Agreed

(* An error: the server was left alone or did the work, and the client's    *)
(* record changed at most in its begin.                                     *)
LEMMA AfterError ==
    ASSUME TxnInv, user # "pool", Doubted({"error"}), UNCHANGED <<user, deferrer, told>>,
           SoundFrom(srv, srv'), client' \in ClientStates, Single(client'.sess),
           Single(client'.ctx), NEW by \in Borrowers \cup {None}, Credit(by),
           \A r \in client'.sess : r.pending =>
                r.op # {} /\ ("start" \in r.op => r.id \in Ids)
    PROVE  TxnInv'
<1>0. /\ doubt' \subseteq Doubts /\ Erred' /\ ~Calm'
  BY ErrorFacts DEF TxnInv
<1>1. Isolation' /\ asked' \in Borrowers \cup {None}
  BY <1>0, CreditKeeps DEF TxnInv
<1>2. Types'
  BY <1>0, <1>1 DEF TxnInv, Types, SoundFrom
<1>3. ToldTheTruth'
  BY ToldKeeps DEF TxnInv, SoundFrom
<1>4. PoolIsClean' /\ Agreed' /\ ServerBegan' /\ Waiting'
  BY <1>0 DEF PoolIsClean, Agreed, ServerBegan, SoundFrom, Waiting
<1> QED
  BY <1>1, <1>2, <1>3, <1>4 DEF TxnInv

(* The same, when the client's record did not change at all. *)
LEMMA AfterErrorSame ==
    ASSUME TxnInv, user # "pool", Doubted({"error"}), UNCHANGED <<user, deferrer, told>>,
           SoundFrom(srv, srv'), client' = client, Credit(user)
    PROVE  TxnInv'
<1>1. /\ client' \in ClientStates /\ Single(client'.sess) /\ Single(client'.ctx)
      /\ user \in Borrowers \cup {None}
  BY DEF TxnInv, Types
<1>2. \A r \in client'.sess : r.pending => r.op # {} /\ ("start" \in r.op => r.id \in Ids)
  BY DEF TxnInv, Waiting
<1> QED
  BY <1>1, <1>2, AfterError

(* A call that is answered: refused, lost, or accepted. What is left to     *)
(* show of the last is that client and server agree.                        *)
LEMMA CallKeeps ==
    ASSUME TxnInv, user # "pool", UNCHANGED <<user, deferrer, told>>, Credit(user),
           NEW ok \in BOOLEAN, NEW server, NEW recorded, Call(ok, server, recorded),
           ok => /\ SoundFrom(srv, server)
                 /\ recorded \in ClientStates /\ Single(recorded.sess) /\ Single(recorded.ctx),
           ok /\ srv' = server /\ client' = recorded /\ UNCHANGED doubt
                => Waiting' /\ Agreed' /\ ServerBegan'
    PROVE  TxnInv'
<1>1. CASE ~ok /\ Doubted({"error"}) /\ UNCHANGED <<srv, client>>
  <2>1. SoundFrom(srv, srv')
    BY <1>1, SoundCalls DEF TxnInv
  <2> QED
    BY <1>1, <2>1, AfterErrorSame
<1>2. CASE Lost(ok, server, client)
  <2>1. /\ Doubted({"error"}) /\ client' = client
        /\ srv' \in (IF ok THEN {srv, server} ELSE {srv})
    BY <1>2 DEF Lost
  <2>2. SoundFrom(srv, srv)
    BY SoundCalls DEF TxnInv
  <2>3. SoundFrom(srv, srv')
    BY <2>1, <2>2
  <2> QED
    BY <2>1, <2>3, AfterErrorSame
<1>3. CASE ok /\ srv' = server /\ client' = recorded /\ UNCHANGED doubt
  <2>0. user \in Borrowers \cup {None} /\ (Calm' => Calm)
    BY <1>3 DEF TxnInv, Types, Calm
  <2>1. Isolation' /\ asked' \in Borrowers \cup {None}
    BY <2>0, CreditKeeps DEF TxnInv
  <2>2. Types'
    BY <1>3, <2>1 DEF TxnInv, Types, SoundFrom
  <2>3. ToldTheTruth'
    BY <1>3, ToldKeeps DEF TxnInv, SoundFrom
  <2>4. PoolIsClean'
    BY <1>3 DEF TxnInv, PoolIsClean, Erred
  <2> QED
    BY <1>3, <2>1, <2>2, <2>3, <2>4 DEF TxnInv
<1> QED
  BY <1>1, <1>2, <1>3 DEF Call, Answered

-----------------------------------------------------------------------------
(* Transactions: types and properties from the invariant *)

(* A set with at most one member has a cardinality of at most one. *)
LEMMA SingleIsSmall == ASSUME NEW S, Single(S) PROVE Cardinality(S) <= 1
<1>1. CASE S = {}
  BY <1>1, FS_EmptySet
<1>2. ASSUME NEW a \in S PROVE Cardinality(S) <= 1
  <2>1. S = {a}
    BY DEF Single
  <2>2. Cardinality({a}) = 1
    BY FS_Singleton
  <2> QED
    BY <2>1, <2>2
<1> QED
  BY <1>1, <1>2

(* The properties follow from the invariant. *)
LEMMA InvImplies == TxnInv => NothingCrossesRelease /\ ClientKnows
<1> SUFFICES ASSUME TxnInv PROVE NothingCrossesRelease /\ ClientKnows
  OBVIOUS
<1>1. TypeOK
  <2>1. Cardinality(client.sess) <= 1 /\ Cardinality(client.ctx) <= 1
    BY SingleIsSmall DEF TxnInv, Types
  <2>2. /\ client.sess \subseteq SessionlessData /\ client.flag \in BOOLEAN
        /\ client.ctx \subseteq Xids
    BY DEF TxnInv, Types, ClientStates
  <2>3. /\ srv.cur \in Txns \cup {None, "local"} /\ srv.byServer \in BOOLEAN
        /\ srv.fate \in [Txns -> Fates] /\ srv.dirty \subseteq Xids
    BY DEF TxnInv, Types, ServerStates
  <2> QED
    BY <2>1, <2>2, <2>3 DEF TxnInv, Types, TypeOK, SessionlessData, Fates, Sayings, Doubts
<1>2. CleanHandover
  <2> SUFFICES ASSUME user = "pool"
               PROVE  /\ client.flag => "del" \in doubt
                      /\ ~Erred => srv.cur = None
                      /\ doubt = {} => client.sess = {}
    BY DEF CleanHandover, Erred
  <2>1. client.flag => "del" \in doubt /\ Erred
    BY DEF TxnInv, PoolIsClean
  <2>2. ~Erred => srv.cur = None
    BY <2>1, AgreeNow
  <2>3. ASSUME doubt = {}, NEW d \in client.sess PROVE FALSE
    <3>1. ~Erred /\ Calm /\ "piped" \notin doubt
      BY <2>3 DEF Erred, Calm
    <3>2. srv.cur \notin Ids
      BY <2>2, <3>1, TransactionsAssumption DEF None
    <3>3. d.pending
      BY <3>1, <3>2, AgreeNow
    <3>4. deferrer = "pool"
      BY <3>1, <3>3 DEF TxnInv, Waiting
    <3> QED
      BY <3>4, TransactionsAssumption DEF TxnInv, Types, None
  <2> QED
    BY <2>1, <2>2, <2>3
<1>3. Agrees
  <2> SUFFICES ASSUME ~Erred
               PROVE  /\ client.flag = (srv.cur # None)
                      /\ srv.cur \in Ids => \E d \in client.sess : ~d.pending
                      /\ "piped" \notin doubt /\ srv.cur \notin Ids
                            => \A d \in client.sess : d.pending
                      /\ srv.cur \in Xids => client.ctx = {srv.cur}
    BY DEF Agrees, Erred
  <2>1. client.flag \in BOOLEAN /\ (client.flag <=> srv.cur # None)
    BY AgreeNow DEF TxnInv, Types, ClientStates
  <2>2. client.flag = (srv.cur # None)
    BY <2>1
  <2> QED
    BY <2>2, AgreeNow
<1> QED
  BY <1>1, <1>2, <1>3 DEF TxnInv, NothingCrossesRelease, ClientKnows

(* A new session carries nothing. *)
LEMMA InitInv == Init => TxnInv
<1> SUFFICES ASSUME Init PROVE TxnInv
  OBVIOUS
<1>1. client.sess = {} /\ client.ctx = {} /\ client.flag = FALSE /\ client \in ClientStates
  BY DEF Init, ClientStates
<1>2. /\ srv.cur = None /\ srv.byServer = FALSE /\ srv \in ServerStates
  BY DEF Init, ServerStates, Fates
<1>3. Types
  <2>1. told \in [Xids -> Sayings] /\ doubt \subseteq Doubts
    BY DEF Init, Sayings
  <2> QED
    BY <1>1, <1>2, <2>1 DEF Init, Types, Single
<1>4. ToldTheTruth
  BY DEF Init, ToldTheTruth
<1>5. None \notin Ids /\ None \notin Xids /\ ~Erred /\ "del" \notin doubt
  BY TransactionsAssumption DEF Init, None, Erred
<1>6. PoolIsClean /\ Isolation /\ Waiting /\ ServerBegan
  BY <1>1, <1>2, <1>5 DEF Init, PoolIsClean, Isolation, Waiting, ServerBegan
<1>7. Agreed
  BY <1>1, <1>2, <1>5 DEF Agreed
<1> QED
  BY <1>3, <1>4, <1>6, <1>7 DEF TxnInv

-----------------------------------------------------------------------------
(* Transactions: one lemma per action *)

(* A pipelined commit. *)
LEMMA PipelineCommitInv == ASSUME TxnInv, PipelineCommit PROVE TxnInv'
<1> DEFINE server == EndCurrent(srv, "committed")
           recorded == [client EXCEPT !.flag = FALSE]
           tracked == \E d \in client.sess : ~d.pending
           what == IF tracked THEN {"piped"} ELSE {}
<1>1. /\ user # "pool" /\ Credit(user) /\ UNCHANGED <<user, deferrer, told>>
      /\ \/ srv' = server /\ client' = recorded /\ Doubted(what)
         \/ Doubted({"error"}) /\ client' = client /\ srv' \in {srv, server}
  <2>1. /\ user # "pool" /\ Credit(user) /\ UNCHANGED <<user, deferrer, told>>
        /\ \/ srv' = server /\ client' = recorded /\ Doubted(what)
           \/ Doubted({"error"}) /\ UNCHANGED <<srv, client>>
           \/ Lost(srv.cur \notin Xids, server, client)
    BY Zenon DEF PipelineCommit, Frame
  <2> HIDE DEF server, recorded, what
  <2> QED
    BY <2>1 DEF Lost
<1>2. /\ client \in ClientStates /\ srv \in ServerStates /\ Single(client.ctx)
      /\ Single(client.sess) /\ doubt \subseteq Doubts /\ user \in Borrowers \cup {None}
  BY <1>1 DEF TxnInv, Types
<1>3. /\ recorded \in ClientStates /\ recorded.sess = client.sess
      /\ recorded.ctx = client.ctx /\ recorded.flag = FALSE
  BY <1>1, <1>2 DEF ClientStates
<1>4. /\ SoundFrom(srv, srv) /\ SoundFrom(srv, server) /\ server.cur = None
      /\ server.byServer = FALSE
  BY <1>2, SoundCalls, EndCurrentFacts DEF TxnInv
<1>5. None \notin Ids /\ None \notin Xids
  BY TransactionsAssumption DEF None
<1>6. /\ what \in SUBSET Doubts /\ "error" \notin what /\ "del" \notin what
      /\ "begin" \notin what /\ (tracked <=> "piped" \in what)
  BY DEF Doubts
<1> HIDE DEF server, recorded, what
<1>7. CASE Doubted({"error"}) /\ client' = client /\ srv' \in {srv, server}
  BY <1>1, <1>4, <1>7, AfterErrorSame
<1>8. CASE srv' = server /\ client' = recorded /\ Doubted(what)
  <2>1. /\ doubt' \subseteq Doubts /\ (Erred' <=> Erred)
        /\ ("del" \in doubt' <=> "del" \in doubt) /\ (~Erred' => doubt' = doubt \cup what)
    BY <1>2, <1>6, <1>8, DoubtedFacts
  <2>2. Calm' => Calm
    BY <1>6, <2>1 DEF Calm, Erred
  <2>3. /\ client'.flag = FALSE /\ srv'.cur = None /\ client'.sess = client.sess
        /\ client'.ctx = client.ctx /\ client' \in ClientStates /\ srv' \in ServerStates
        /\ srv'.byServer = FALSE
    BY <1>3, <1>4, <1>8 DEF SoundFrom
  <2>4. Isolation' /\ asked' \in Borrowers \cup {None}
    BY <1>1, <1>2, <2>3, CreditKeeps DEF TxnInv
  <2>5. Types'
    BY <1>1, <1>2, <2>1, <2>3, <2>4 DEF TxnInv, Types
  <2>6. PoolIsClean' /\ ServerBegan'
    BY <1>1, <2>1, <2>3 DEF TxnInv, PoolIsClean, ServerBegan
  <2>7. Waiting'
    BY <1>1, <2>1, <2>2, <2>3 DEF TxnInv, Waiting
  <2>8. Agreed'
    <3>1. CASE Erred'
      BY <3>1 DEF Agreed
    <3>2. CASE ~Erred'
      <4>1. tracked => "piped" \in doubt'
        BY <1>6, <2>1, <3>2
      <4>2. (\E d \in client'.sess : ~d.pending) => "piped" \in doubt'
        BY <2>3, <4>1
      <4> QED
        BY <1>5, <2>3, <4>2, AgreesWhen
    <3> QED
      BY <3>1, <3>2
  <2>9. ToldTheTruth'
    BY <1>1, <1>4, <1>8, ToldKeeps DEF TxnInv, SoundFrom
  <2> QED
    BY <2>4, <2>5, <2>6, <2>7, <2>8, <2>9 DEF TxnInv
<1> QED
  BY <1>1, <1>7, <1>8

(* tpc_begin *)
LEMMA TpcBeginInv ==
    ASSUME TxnInv, NEW x \in Xids, NEW resume \in BOOLEAN, TpcBegin(x, resume)
    PROVE  TxnInv'
<1> DEFINE server == Attach(srv, x, FALSE)
           recorded == [client EXCEPT !.ctx = {x}, !.flag = TRUE]
           ok == CanStart(srv, x, resume)
<1>1. /\ user # "pool" /\ Call(ok, server, recorded)
      /\ Credit(user) /\ UNCHANGED <<user, deferrer, told>>
  BY DEF TpcBegin, Frame
<1>2. /\ client \in ClientStates /\ srv \in ServerStates /\ Single(client.sess)
      /\ x \in Txns
  BY DEF TxnInv, Types, Txns
<1>3. /\ recorded \in ClientStates /\ recorded.sess = client.sess /\ recorded.ctx = {x}
      /\ recorded.flag = TRUE
  BY <1>2 DEF ClientStates
<1>4. /\ ok => SoundFrom(srv, server) /\ srv.cur = None
      /\ server.cur = x /\ server.byServer = FALSE
  BY <1>2, SoundCalls, AttachFacts DEF TxnInv, CanStart
<1>5. x \notin Ids /\ x # None /\ None \notin Ids
  BY TransactionsAssumption DEF None
<1>8. ok \in BOOLEAN
  BY DEF CanStart, Detached
<1> HIDE DEF server, recorded, ok
<1>6. ASSUME ok, srv' = server, client' = recorded, UNCHANGED doubt
      PROVE  Waiting' /\ Agreed' /\ ServerBegan'
  <2>1. Waiting'
    BY <1>1, <1>3, <1>6 DEF TxnInv, Waiting, Erred, Calm
  <2>2. Agreed'
    <3>1. CASE Erred
      BY <1>6, <3>1 DEF Agreed, Erred
    <3>2. CASE ~Erred
      <4>1. ~("piped" \notin doubt' /\ \E r \in client.sess : ~r.pending)
        BY <1>4, <1>5, <1>6, <3>2, AgreeNow
      <4>2. /\ client'.flag = TRUE /\ srv'.cur = x /\ client'.sess = client.sess
            /\ client'.ctx = {x}
        BY <1>3, <1>4, <1>6
      <4> QED
        BY <1>5, <4>1, <4>2, AgreesWhen
    <3> QED
      BY <3>1, <3>2
  <2>3. ServerBegan'
    BY <1>4, <1>6 DEF ServerBegan
  <2> QED
    BY <2>1, <2>2, <2>3
<1>7. Single(recorded.sess) /\ Single(recorded.ctx)
  BY <1>2, <1>3 DEF Single
<1> QED
  BY <1>1, <1>3, <1>4, <1>6, <1>7, <1>8, CallKeeps

(* tpc_end *)
LEMMA TpcEndInv ==
    ASSUME TxnInv, NEW arg \in Xids \cup {None}, TpcEnd(arg) PROVE TxnInv'
<1> DEFINE server == Detach(srv)
           recorded == TpcEnded(client)
           ok == srv.cur \in Xids \cap Named(arg)
<1>1. /\ user # "pool" /\ Call(ok, server, recorded)
      /\ Credit(user) /\ UNCHANGED <<user, deferrer, told>>
  BY DEF TpcEnd, Frame
<1>2. client \in ClientStates /\ srv \in ServerStates /\ Single(client.sess)
  BY DEF TxnInv, Types
<1>3. /\ recorded \in ClientStates /\ recorded.sess = client.sess /\ recorded.ctx = {}
      /\ recorded.flag = FALSE
  BY <1>2 DEF ClientStates, TpcEnded
<1>4. SoundFrom(srv, server) /\ server.cur = None /\ server.byServer = FALSE
  BY <1>2, SoundCalls, DetachFacts DEF TxnInv
<1>5. None \notin Ids /\ None \notin Xids /\ (ok => srv.cur \notin Ids)
  BY TransactionsAssumption DEF None
<1>8. ok \in BOOLEAN
  OBVIOUS
<1> HIDE DEF server, recorded, ok
<1>6. ASSUME ok, srv' = server, client' = recorded, UNCHANGED doubt
      PROVE  Waiting' /\ Agreed' /\ ServerBegan'
  <2>1. Waiting'
    BY <1>1, <1>3, <1>6 DEF TxnInv, Waiting, Erred, Calm
  <2>2. Agreed'
    <3>1. CASE Erred
      BY <1>6, <3>1 DEF Agreed, Erred
    <3>2. CASE ~Erred
      <4>1. ~("piped" \notin doubt' /\ \E r \in client.sess : ~r.pending)
        BY <1>5, <1>6, <3>2, AgreeNow
      <4>2. client'.flag = FALSE /\ srv'.cur = None /\ client'.sess = client.sess
        BY <1>3, <1>4, <1>6
      <4> QED
        BY <1>5, <4>1, <4>2, AgreesWhen
    <3> QED
      BY <3>1, <3>2
  <2>3. ServerBegan'
    BY <1>4, <1>6 DEF ServerBegan
  <2> QED
    BY <2>1, <2>2, <2>3
<1>7. Single(recorded.sess) /\ Single(recorded.ctx)
  BY <1>2, <1>3 DEF Single
<1> QED
  BY <1>1, <1>3, <1>4, <1>6, <1>7, <1>8, CallKeeps

(* suspend_sessionless_transaction *)
LEMMA SuspendInv == ASSUME TxnInv, Suspend PROVE TxnInv'
<1> DEFINE server == Detach(srv)
           recorded == ApplyState([client EXCEPT !.sess = {}], "unset")
           ok == srv.cur \in Ids
<1>1. /\ user # "pool" /\ Call(ok, server, recorded)
      /\ Credit(user) /\ UNCHANGED <<user, deferrer, told>>
  BY DEF Suspend, Frame
<1>2. client \in ClientStates /\ srv \in ServerStates /\ Single(client.ctx)
  BY DEF TxnInv, Types
<1>3. /\ recorded \in ClientStates /\ recorded.sess = {} /\ recorded.ctx = client.ctx
      /\ recorded.flag = FALSE
  BY <1>2 DEF ClientStates, ApplyState
<1>4. SoundFrom(srv, server) /\ server.cur = None /\ server.byServer = FALSE
  BY <1>2, SoundCalls, DetachFacts DEF TxnInv
<1>5. None \notin Ids /\ None \notin Xids
  BY TransactionsAssumption DEF None
<1>8. ok \in BOOLEAN
  OBVIOUS
<1> HIDE DEF server, recorded, ok
<1>6. ASSUME srv' = server, client' = recorded PROVE Waiting' /\ Agreed' /\ ServerBegan'
  <2>1. Waiting' /\ ServerBegan'
    BY <1>3, <1>4, <1>6 DEF Waiting, ServerBegan
  <2>2. /\ client'.flag = FALSE /\ srv'.cur = None /\ client'.sess = {}
        /\ srv'.cur \notin Ids /\ srv'.cur \notin Xids
    BY <1>3, <1>4, <1>5, <1>6
  <2>3. Agreed'
    BY <2>2, AgreesWhen
  <2> QED
    BY <2>1, <2>3
<1>7. Single(recorded.sess) /\ Single(recorded.ctx)
  BY <1>2, <1>3 DEF Single
<1> QED
  BY <1>1, <1>3, <1>4, <1>6, <1>7, <1>8, CallKeeps

(* start_sessionless_transaction *)
LEMMA StartInv ==
    ASSUME TxnInv, NEW id \in Ids, NEW resume \in BOOLEAN, NEW deferred \in BOOLEAN,
           Start(id, resume, deferred)
    PROVE  TxnInv'
<1>0. /\ client.sess = {} /\ user # "pool" /\ Credit(user) /\ UNCHANGED <<user, told>>
      /\ client \in ClientStates /\ srv \in ServerStates /\ Single(client.ctx)
      /\ id \in Txns
  BY DEF Start, TxnInv, Types, Txns
<1>1. CASE deferred
  <2> DEFINE b == Begun(id, resume, TRUE)
  <2>1. /\ client' = [client EXCEPT !.sess = {b}] /\ deferrer' = user
        /\ UNCHANGED <<srv, doubt>>
    BY <1>1 DEF Start
  <2>2. /\ b \in SessionlessData /\ b.pending = TRUE /\ b.op = {"start"} /\ b.id = id
    BY DEF Begun, SessionlessData
  <2> HIDE DEF b
  <2>3. /\ client' \in ClientStates /\ client'.sess = {b} /\ client'.ctx = client.ctx
        /\ client'.flag = client.flag
    BY <1>0, <2>1, <2>2 DEF ClientStates
  <2>4. Isolation' /\ asked' \in Borrowers \cup {None}
    <3>1. user \in Borrowers \cup {None} /\ (Calm' => Calm)
      BY <1>0, <2>1 DEF TxnInv, Types, Calm
    <3> QED
      BY <1>0, <3>1, CreditKeeps DEF TxnInv
  <2>5. Types'
    <3>1. Single(client'.sess) /\ Single(client'.ctx)
      BY <1>0, <2>3 DEF Single
    <3>2. deferrer' \in Borrowers \cup {None}
      BY <1>0, <2>1 DEF TxnInv, Types
    <3> QED
      BY <1>0, <2>1, <2>3, <2>4, <3>1, <3>2 DEF TxnInv, Types
  <2>6. Agreed' /\ PoolIsClean'
    BY <1>0, <2>1, <2>2, <2>3 DEF TxnInv, Agreed, PoolIsClean, Erred
  <2>7. Waiting'
    BY <1>0, <2>1, <2>2, <2>3 DEF Waiting
  <2>8. ServerBegan'
    BY <1>0, <2>1 DEF TxnInv, ServerBegan, Agreed, Erred
  <2>9. ToldTheTruth'
    BY <1>0, <2>1 DEF TxnInv, ToldTheTruth
  <2> QED
    BY <2>4, <2>5, <2>6, <2>7, <2>8, <2>9 DEF TxnInv
<1>2. CASE ~deferred
  <2> DEFINE server == Attach(srv, id, FALSE)
             b == Begun(id, resume, FALSE)
             recorded == ApplyState([client EXCEPT !.sess = {b}], "set")
             ok == CanStart(srv, id, resume)
  <2>1. Call(ok, server, recorded) /\ deferrer' = deferrer
    BY <1>2 DEF Start
  <2>2. /\ b \in SessionlessData /\ b.pending = FALSE
        /\ [b EXCEPT !.byServer = FALSE, !.pending = FALSE] = b
    <3>1. b \in SessionlessData /\ b.pending = FALSE /\ b.byServer = FALSE
      BY DEF Begun, SessionlessData
    <3> HIDE DEF b
    <3> QED
      BY <3>1 DEF SessionlessData
  <2>3. /\ recorded \in ClientStates /\ recorded.sess = {b}
        /\ recorded.ctx = client.ctx /\ recorded.flag = TRUE
    <3> DEFINE c == [client EXCEPT !.sess = {b}]
    <3> HIDE DEF b
    <3>1. c \in ClientStates /\ c.sess = {b} /\ c.ctx = client.ctx
      BY <1>0, <2>2 DEF ClientStates
    <3> HIDE DEF c
    <3>2. ApplyState(c, "set") = [c EXCEPT !.flag = TRUE, !.sess = {b}]
      <4>1. ApplyState(c, "set") =
                [c EXCEPT !.flag = TRUE,
                          !.sess = {[r EXCEPT !.byServer = FALSE, !.pending = FALSE] :
                                       r \in c.sess}]
        BY <3>1 DEF ApplyState
      <4>2. {[r EXCEPT !.byServer = FALSE, !.pending = FALSE] : r \in c.sess} = {b}
        BY <2>2, <3>1
      <4> QED
        BY <4>1, <4>2
    <3>3. recorded = [c EXCEPT !.flag = TRUE, !.sess = {b}]
      BY <3>2 DEF c
    <3> HIDE DEF recorded
    <3> QED
      BY <2>2, <3>1, <3>3 DEF ClientStates
  <2>4. /\ ok => SoundFrom(srv, server) /\ srv.cur = None
        /\ server.cur = id /\ server.byServer = FALSE
    BY <1>0, SoundCalls, AttachFacts DEF TxnInv, CanStart
  <2>5. id \notin Xids /\ id # None
    BY TransactionsAssumption DEF None
  <2>8. ok \in BOOLEAN
    BY DEF CanStart, Detached
  <2> HIDE DEF server, recorded, ok, b
  <2>6. ASSUME srv' = server, client' = recorded PROVE Waiting' /\ Agreed' /\ ServerBegan'
    BY <2>2, <2>3, <2>4, <2>5, <2>6 DEF Waiting, Agreed, ServerBegan
  <2>7. Single(recorded.sess) /\ Single(recorded.ctx)
    BY <1>0, <2>3 DEF Single
  <2> QED
    BY <1>0, <2>1, <2>3, <2>4, <2>6, <2>7, <2>8, CallKeeps
<1> QED
  BY <1>1, <1>2

(* commit and rollback *)
LEMMA EndInv ==
    ASSUME TxnInv, NEW f \in {"committed", "aborted"}, EndOfTransaction(f)
    PROVE  TxnInv'
<1> DEFINE server == EndCurrent(srv, f)
<1>0. /\ user # "pool" /\ Credit(user) /\ UNCHANGED <<user, deferrer, told>>
      /\ client \in ClientStates /\ srv \in ServerStates
      /\ Single(client.sess) /\ Single(client.ctx)
  BY DEF EndOfTransaction, Frame, TxnInv, Types
<1>1. SoundFrom(srv, srv) /\ SoundFrom(srv, server) /\ server.cur = None
      /\ server.byServer = FALSE
  BY <1>0, SoundCalls, EndCurrentFacts DEF TxnInv
<1> HIDE DEF server
<1>2. CASE Doubted({"error"}) /\ client' = client /\ srv' \in {srv, server}
  BY <1>0, <1>1, <1>2, AfterErrorSame
<1>3. CASE srv' = server /\ client' = Ended(client) /\ doubt' = {}
  <2>1. /\ client' \in ClientStates /\ client'.sess = {} /\ client'.ctx = client.ctx
        /\ client'.flag = FALSE
    BY <1>0, <1>3 DEF ClientStates, Ended
  <2>2. Isolation' /\ asked' \in Borrowers \cup {None}
    <3>1. user \in Borrowers \cup {None} /\ srv'.cur = None
      BY <1>0, <1>1, <1>3 DEF TxnInv, Types
    <3> QED
      BY <1>0, <3>1, CreditKeeps DEF TxnInv
  <2>3. Types'
    <3>1. Single(client'.sess) /\ Single(client'.ctx)
      BY <1>0, <2>1 DEF Single
    <3> QED
      BY <1>0, <1>1, <1>3, <2>1, <2>2, <3>1 DEF TxnInv, Types, SoundFrom
  <2>4. ToldTheTruth'
    BY <1>0, <1>1, <1>3, ToldKeeps DEF TxnInv, SoundFrom
  <2>5. PoolIsClean' /\ Waiting' /\ ServerBegan'
    BY <1>0, <1>1, <1>3, <2>1 DEF PoolIsClean, Waiting, ServerBegan
  <2>6. Agreed'
    <3>1. srv'.cur = None /\ None \notin Ids /\ None \notin Xids
      BY <1>1, <1>3, TransactionsAssumption DEF None
    <3> QED
      BY <2>1, <3>1, AgreesWhen
  <2> QED
    BY <2>2, <2>3, <2>4, <2>5, <2>6 DEF TxnInv
<1> QED
  BY <1>2, <1>3 DEF EndOfTransaction, Lost, server

(* A change of state of a branch that is attached, detached or prepared. *)
LEMMA ChangeStateInv ==
    ASSUME TxnInv, user # "pool", NEW t \in Xids, NEW ok \in BOOLEAN,
           NEW f \in {"prepared", "forgotten", "committed", "aborted"},
           NEW accepted \in BOOLEAN, NEW clears \in BOOLEAN, NEW say \in Sayings,
           ChangeState(t, ok, f, accepted, clears, say),
           ok => \/ srv.fate[t] = "active" /\ srv.cur \in {t, None}
                 \/ /\ srv.fate[t] = "prepared" /\ srv.cur = None
                    /\ f \in {"committed", "aborted"},
           accepted => say = f \/ (say = "committed" /\ f = "forgotten")
    PROVE  TxnInv'
<1> DEFINE server == Settle(srv, t, f)
           flagged == [client EXCEPT !.flag = server.cur # None]
<1>0. /\ Credit(user) /\ UNCHANGED <<user, deferrer>>
      /\ client \in ClientStates /\ srv \in ServerStates
      /\ Single(client.sess) /\ Single(client.ctx) /\ t \in Txns /\ f \in Fates
      /\ Xids \subseteq Txns /\ srv.fate \in [Txns -> Fates]
  BY DEF ChangeState, TxnInv, Types, Txns, Fates, ServerStates
<1>1. /\ server \in ServerStates /\ server.byServer = srv.byServer
      /\ server.cur = (IF srv.cur = t THEN None ELSE srv.cur)
      /\ server.fate = [srv.fate EXCEPT ![t] = f]
  BY <1>0, SettleFacts
<1>2. t \notin Ids /\ None \notin Ids /\ None \notin Xids
  BY TransactionsAssumption DEF None
<1>3. (server.cur # None) \in BOOLEAN
  OBVIOUS
<1> HIDE DEF server
<1>4. /\ flagged \in ClientStates /\ flagged.sess = client.sess
      /\ flagged.ctx = client.ctx /\ flagged.flag = (server.cur # None)
  <2> DEFINE v == server.cur # None
  <2>1. v \in BOOLEAN
    BY <1>3
  <2> HIDE DEF v
  <2>2. /\ [client EXCEPT !.flag = v] \in ClientStates
        /\ [client EXCEPT !.flag = v].sess = client.sess
        /\ [client EXCEPT !.flag = v].ctx = client.ctx
        /\ [client EXCEPT !.flag = v].flag = v
    BY <1>0, <2>1 DEF ClientStates
  <2> QED
    BY <2>2 DEF v
<1>5. \A x \in Xids : x # t => server.fate[x] = srv.fate[x]
  BY <1>0, <1>1
<1>6. server.fate[t] = f
  BY <1>0, <1>1
<1> HIDE DEF flagged
<1>7. ok => SoundFrom(srv, server)
  <2>1. ok => FatesFrom(srv, server)
    BY <1>5, <1>6 DEF FatesFrom
  <2>2. server.byServer => server.cur \in Ids
    BY <1>1, <1>2 DEF TxnInv, ServerBegan
  <2> QED
    BY <1>1, <2>1, <2>2 DEF SoundFrom
<1>8. SoundFrom(srv, srv)
  BY SoundCalls DEF TxnInv
<1>9. CASE ok /\ accepted /\ UNCHANGED doubt /\ srv' = server
           /\ told' = [told EXCEPT ![t] = say]
           /\ client' = [flagged EXCEPT !.ctx = IF clears THEN {} ELSE flagged.ctx]
  <2>1. /\ client' \in ClientStates /\ client'.sess = client.sess
        /\ client'.flag = (server.cur # None)
        /\ client'.ctx \in {{}, client.ctx}
    BY <1>4, <1>9 DEF ClientStates
  <2>2. Isolation' /\ asked' \in Borrowers \cup {None}
    <3>1. user \in Borrowers \cup {None} /\ (Calm' => Calm)
      BY <1>9 DEF TxnInv, Types, Calm
    <3> QED
      BY <1>0, <3>1, CreditKeeps DEF TxnInv
  <2>3. told \in [Xids -> Sayings] /\ told' \in [Xids -> Sayings] /\ told'[t] = say
        /\ \A x \in Xids : x # t => told'[x] = told[x]
    BY <1>9 DEF TxnInv, Types
  <2>4. Types'
    <3>1. Single(client'.sess) /\ Single(client'.ctx)
      BY <1>0, <2>1 DEF Single
    <3> QED
      BY <1>0, <1>1, <1>9, <2>1, <2>2, <2>3, <3>1 DEF TxnInv, Types
  <2>5. ToldTheTruth'
    <3>1. ASSUME NEW x \in Xids
          PROVE  /\ told'[x] \in {"committed", "aborted", "forgotten"} =>
                       srv'.fate[x] = told'[x]
                       \/ (told'[x] = "committed" /\ srv'.fate[x] = "forgotten")
                 /\ told'[x] = "prepared" =>
                       srv'.fate[x] \in {"prepared", "committed", "aborted"}
      <4>1. CASE x = t
        BY <1>6, <1>9, <2>3, <4>1
      <4>2. CASE x # t
        BY <1>5, <1>9, <2>3, <4>2 DEF TxnInv, ToldTheTruth
      <4> QED
        BY <4>1, <4>2
    <3> QED
      BY <3>1 DEF ToldTheTruth
  <2>6. PoolIsClean' /\ Waiting'
    BY <1>0, <1>9, <2>1 DEF TxnInv, PoolIsClean, Waiting, Erred, Calm
  <2>7. ServerBegan'
    BY <1>1, <1>2, <1>9, <2>1 DEF TxnInv, ServerBegan, Erred
  <2>8. Agreed'
    <3>1. CASE Erred
      BY <1>9, <3>1 DEF Agreed, Erred
    <3>2. CASE ~Erred
      <4>1. server.cur = None
        BY <1>1, <1>9
      <4>2. srv.cur \notin Ids
        BY <1>2, <1>9
      <4>3. ~("piped" \notin doubt' /\ \E r \in client.sess : ~r.pending)
        BY <1>9, <3>2, <4>2, AgreeNow
      <4>4. /\ client'.flag \in BOOLEAN /\ (client'.flag <=> srv'.cur # None)
            /\ srv'.cur = None /\ client'.sess = client.sess
        BY <1>9, <2>1, <4>1
      <4> QED
        BY <1>2, <4>3, <4>4, AgreesWhen
    <3> QED
      BY <3>1, <3>2
  <2> QED
    BY <2>2, <2>4, <2>5, <2>6, <2>7, <2>8 DEF TxnInv
<1>10. CASE ok /\ Doubted({"error"}) /\ srv' = server /\ client' = flagged /\ UNCHANGED told
  <2>1. /\ \A r \in client'.sess : r.pending =>
               r.op # {} /\ ("start" \in r.op => r.id \in Ids)
        /\ user \in Borrowers \cup {None}
    BY <1>0, <1>4, <1>10 DEF TxnInv, Waiting, Types
  <2> QED
    BY <1>0, <1>4, <1>7, <1>10, <2>1, AfterError
<1>11. CASE Doubted({"error"}) /\ client' = client /\ UNCHANGED told
            /\ (srv' = srv \/ (ok /\ srv' = server))
  BY <1>0, <1>7, <1>8, <1>11, AfterErrorSame
<1> QED
  BY <1>9, <1>10, <1>11 DEF ChangeState, Lost, server, flagged

(* The calls of two-phase commit name a branch. *)
LEMMA NamedIsBranch ==
    ASSUME TxnInv, NEW arg \in Xids \cup {None}, NEW t \in Named(arg)
    PROVE  t \in Xids
  BY DEF Named, TxnInv, Types, ClientStates

(* tpc_prepare *)
LEMMA TpcPrepareInv ==
    ASSUME TxnInv, NEW arg \in Xids \cup {None}, TpcPrepare(arg) PROVE TxnInv'
<1>1. user # "pool"
  BY DEF TpcPrepare
<1>2. PICK t \in Named(arg) :
          LET f == IF t \in srv.dirty THEN "prepared" ELSE "forgotten"
          IN  ChangeState(t, Reachable(t), f, TRUE, FALSE, f)
  BY DEF TpcPrepare
<1>3. t \in Xids
  BY NamedIsBranch
<1> DEFINE ok == Reachable(t)
           f == IF t \in srv.dirty THEN "prepared" ELSE "forgotten"
<1>4. /\ ok \in BOOLEAN /\ (ok => srv.fate[t] = "active" /\ srv.cur \in {t, None})
      /\ f \in {"prepared", "forgotten", "committed", "aborted"} /\ f \in Sayings
      /\ ChangeState(t, ok, f, TRUE, FALSE, f)
  BY <1>2 DEF Reachable, Sayings
<1> HIDE DEF ok, f
<1> QED
  BY <1>1, <1>3, <1>4, ChangeStateInv

(* tpc_commit *)
LEMMA TpcCommitInv ==
    ASSUME TxnInv, NEW arg \in Xids \cup {None}, NEW one \in BOOLEAN, TpcCommit(arg, one)
    PROVE  TxnInv'
<1>1. user # "pool"
  BY DEF TpcCommit
<1>2. PICK t \in Named(arg) :
        \E f \in (IF ~one THEN {"committed"}
                  ELSE IF t \in srv.dirty THEN {"committed", "aborted"}
                  ELSE {"forgotten"}) :
            ChangeState(t, IF one THEN Reachable(t)
                           ELSE srv.fate[t] = "prepared" /\ srv.cur = None,
                        f, CommitAccepts(one, f), TRUE, "committed")
  BY DEF TpcCommit
<1>3. t \in Xids
  BY NamedIsBranch
<1> DEFINE ok == IF one THEN Reachable(t) ELSE srv.fate[t] = "prepared" /\ srv.cur = None
<1>4. PICK f \in (IF ~one THEN {"committed"}
                  ELSE IF t \in srv.dirty THEN {"committed", "aborted"}
                  ELSE {"forgotten"}) :
            ChangeState(t, ok, f, CommitAccepts(one, f), TRUE, "committed")
  BY <1>2
<1> DEFINE accepted == CommitAccepts(one, f)
<1>5. /\ f \in {"prepared", "forgotten", "committed", "aborted"}
      /\ ~one => f = "committed"
  BY <1>4
<1>6. /\ ok \in BOOLEAN
      /\ ok => \/ srv.fate[t] = "active" /\ srv.cur \in {t, None}
               \/ srv.fate[t] = "prepared" /\ srv.cur = None /\ f \in {"committed", "aborted"}
  BY <1>5 DEF Reachable
<1>7. /\ accepted \in BOOLEAN /\ (accepted => f \in {"committed", "forgotten"})
  <2>1. accepted \in BOOLEAN
    <3>1. CASE one
      <4>1. accepted = (f \in {"committed", "forgotten"})
        BY <3>1 DEF CommitAccepts
      <4>2. (f \in {"committed", "forgotten"}) \in BOOLEAN
        OBVIOUS
      <4> HIDE DEF accepted
      <4> QED
        BY <4>1, <4>2
    <3>2. CASE ~one
      <4>1. accepted = (f = "committed")
        BY <3>2 DEF CommitAccepts
      <4>2. (f = "committed") \in BOOLEAN
        OBVIOUS
      <4> HIDE DEF accepted
      <4> QED
        BY <4>1, <4>2
    <3> QED
      BY <3>1, <3>2
  <2>2. accepted => f \in {"committed", "forgotten"}
    BY DEF CommitAccepts
  <2> QED
    BY <2>1, <2>2
<1>8. ChangeState(t, ok, f, accepted, TRUE, "committed") /\ "committed" \in Sayings
  BY <1>4 DEF Sayings
<1> HIDE DEF ok, accepted
<1> QED
  BY <1>1, <1>3, <1>5, <1>6, <1>7, <1>8, ChangeStateInv

(* tpc_rollback *)
LEMMA TpcRollbackInv ==
    ASSUME TxnInv, NEW arg \in Xids \cup {None}, TpcRollback(arg) PROVE TxnInv'
<1>1. user # "pool"
  BY DEF TpcRollback
<1>2. PICK t \in Named(arg) :
        ChangeState(t, Reachable(t) \/ (srv.fate[t] = "prepared" /\ srv.cur = None),
                    "aborted", TRUE, FALSE, "aborted")
  BY DEF TpcRollback
<1>3. t \in Xids
  BY NamedIsBranch
<1> DEFINE ok == Reachable(t) \/ (srv.fate[t] = "prepared" /\ srv.cur = None)
<1>4. /\ ok \in BOOLEAN
      /\ ok => \/ srv.fate[t] = "active" /\ srv.cur \in {t, None}
               \/ srv.fate[t] = "prepared" /\ srv.cur = None
      /\ "aborted" \in Sayings /\ ChangeState(t, ok, "aborted", TRUE, FALSE, "aborted")
  BY <1>2 DEF Reachable, Sayings
<1> HIDE DEF ok
<1> QED
  BY <1>1, <1>3, <1>4, ChangeStateInv

(* The session goes back to the pool, or stays because the rollback failed. *)
LEMMA ReleaseInv == ASSUME TxnInv, NEW in_del \in BOOLEAN, Release(in_del) PROVE TxnInv'
<1> DEFINE server == EndCurrent(srv, "aborted")
           begins == Piggyback(client) # {}
           what == IF begins THEN {"begin"} ELSE {}
<1>0. /\ user # "pool" /\ Credit(user) /\ UNCHANGED <<deferrer, told>>
      /\ client \in ClientStates /\ srv \in ServerStates /\ doubt \subseteq Doubts
      /\ Single(client.sess) /\ Single(client.ctx) /\ user \in Borrowers \cup {None}
      /\ asked \in Borrowers \cup {None}
  BY DEF Release, TxnInv, Types
<1>1. /\ SoundFrom(srv, srv) /\ SoundFrom(srv, server) /\ server.cur = None
      /\ server.byServer = FALSE
  BY <1>0, SoundCalls, EndCurrentFacts DEF TxnInv
<1>2. None \notin Ids /\ None \notin Xids
  BY TransactionsAssumption DEF None
<1>3. \/ /\ srv' = server /\ client' = Ended(client) /\ user' = "pool" /\ doubt' = {}
      \/ /\ client' = client /\ srv' \in {srv, server}
         /\ \/ user' = user /\ Doubted({"error"})
            \/ user' = "pool" /\ Doubted({"error", "del"})
      \/ /\ ~client.flag /\ user' = "pool" /\ Doubted(what) /\ UNCHANGED <<srv, client>>
  BY DEF Release, RollbackOnRelease
<1>4. /\ what \in SUBSET Doubts /\ "error" \notin what /\ "del" \notin what
      /\ "piped" \notin what /\ (begins => "begin" \in what)
  BY DEF Doubts
<1> HIDE DEF server, what
\* what holds of every release that succeeds
<1>5. ASSUME user' = "pool", srv' \in {srv, server}, client' \in ClientStates,
             Single(client'.sess), client'.ctx = client.ctx, doubt' \subseteq Doubts
      PROVE  Types' /\ Isolation' /\ ToldTheTruth'
  <2>1. asked' \in Borrowers \cup {None}
    BY <1>0 DEF Credit
  <2>2. Types'
    BY <1>0, <1>1, <1>5, <2>1 DEF TxnInv, Types, SoundFrom
  <2>3. ToldTheTruth'
    BY <1>0, <1>1, <1>5, ToldKeeps DEF TxnInv, SoundFrom
  <2> QED
    BY <1>5, <2>2, <2>3 DEF Isolation
<1>6. CASE srv' = server /\ client' = Ended(client) /\ user' = "pool" /\ doubt' = {}
  <2>1. /\ client' \in ClientStates /\ client'.sess = {} /\ client'.flag = FALSE
        /\ client'.ctx = client.ctx
    BY <1>0, <1>6 DEF ClientStates, Ended
  <2>2. Types' /\ Isolation' /\ ToldTheTruth'
    BY <1>5, <1>6, <2>1 DEF Single
  <2>3. PoolIsClean' /\ Agreed' /\ Waiting' /\ ServerBegan'
    BY <1>1, <1>2, <1>6, <2>1 DEF PoolIsClean, Agreed, Waiting, ServerBegan
  <2> QED
    BY <2>2, <2>3 DEF TxnInv
<1>7. CASE client' = client /\ srv' \in {srv, server} /\ user' = user /\ Doubted({"error"})
  BY <1>0, <1>1, <1>7, AfterErrorSame
<1>8. CASE client' = client /\ srv' \in {srv, server} /\ user' = "pool"
           /\ Doubted({"error", "del"})
  <2>1. {"error", "del"} \in SUBSET Doubts
    BY DEF Doubts
  <2>2. doubt' \subseteq Doubts /\ Erred' /\ "del" \in doubt'
    BY <1>0, <1>8, <2>1, DoubtedFacts
  <2>3. Types' /\ Isolation' /\ ToldTheTruth'
    BY <1>0, <1>5, <1>8, <2>2
  <2>4. ~Calm'
    BY <2>2 DEF Calm, Erred
  <2>5. PoolIsClean' /\ Agreed' /\ Waiting' /\ ServerBegan'
    BY <1>1, <1>8, <2>2, <2>4 DEF TxnInv, PoolIsClean, Agreed, Waiting, ServerBegan, SoundFrom
  <2> QED
    BY <2>3, <2>5 DEF TxnInv
<1>9. CASE ~client.flag /\ user' = "pool" /\ Doubted(what) /\ UNCHANGED <<srv, client>>
  <2>1. /\ doubt' \subseteq Doubts /\ (Erred' <=> Erred)
        /\ ("del" \in doubt' <=> "del" \in doubt) /\ (~Erred' => doubt' = doubt \cup what)
    BY <1>0, <1>4, <1>9, DoubtedFacts
  <2>2. Types' /\ Isolation' /\ ToldTheTruth'
    BY <1>0, <1>5, <1>9, <2>1
  <2>3. PoolIsClean' /\ ServerBegan'
    BY <1>9, <2>1 DEF TxnInv, PoolIsClean, ServerBegan
  <2>4. Agreed'
    <3>1. ~Erred' => ("piped" \in doubt' <=> "piped" \in doubt)
      BY <1>4, <2>1
    <3> QED
      BY <1>9, <2>1, <3>1 DEF TxnInv, Agreed
  <2>5. Waiting'
    <3>1. ASSUME NEW d \in client.sess, d.pending PROVE ~Calm'
      <4>1. begins
        BY <3>1 DEF Piggyback
      <4>2. "begin" \in doubt' \/ Erred'
        BY <1>4, <2>1, <4>1
      <4> QED
        BY <4>2 DEF Calm, Erred
    <3> QED
      BY <1>9, <2>1, <3>1 DEF TxnInv, Waiting
  <2> QED
    BY <2>2, <2>3, <2>4, <2>5 DEF TxnInv
<1> QED
  BY <1>3, <1>6, <1>7, <1>8, <1>9

(* The session is handed to a borrower. *)
LEMMA AcquireInv == ASSUME TxnInv, NEW b \in Borrowers, Acquire(b) PROVE TxnInv'
<1>1. /\ user = "pool" /\ user' = b /\ b # "pool"
      /\ UNCHANGED <<client, srv, doubt, asked, deferrer, told>>
  BY TransactionsAssumption DEF Acquire
<1>2. (Erred' <=> Erred) /\ (Calm' <=> Calm) /\ (Calm => ~Erred)
  BY <1>1 DEF Erred, Calm
<1>3. Types'
  BY <1>1 DEF TxnInv, Types
<1>4. ~Erred => srv.cur = None
  BY <1>1, AgreeNow DEF TxnInv, PoolIsClean
<1>5. Isolation'
  BY <1>1, <1>2, <1>4 DEF Isolation, Calm
<1>6. Waiting'
  <2>1. deferrer # "pool"
    BY TransactionsAssumption DEF TxnInv, Types, None
  <2> QED
    BY <1>1, <1>2, <2>1 DEF TxnInv, Waiting
<1>7. PoolIsClean' /\ Agreed' /\ ServerBegan' /\ ToldTheTruth'
  BY <1>1, <1>2 DEF TxnInv, PoolIsClean, Agreed, ServerBegan, ToldTheTruth
<1> QED
  BY <1>3, <1>5, <1>6, <1>7 DEF TxnInv

(* The timeout of a detached transaction expires. *)
LEMMA ExpireInv == ASSUME TxnInv, NEW t \in Txns, Expire(t) PROVE TxnInv'
<1>1. /\ srv.fate[t] = "active" /\ srv.cur # t /\ srv' = Settle(srv, t, "aborted")
      /\ UNCHANGED <<client, user, doubt, asked, deferrer, told>>
  BY DEF Expire, Detached
<1>2. srv \in ServerStates /\ srv.fate \in [Txns -> Fates] /\ "aborted" \in Fates
      /\ Xids \subseteq Txns
  BY DEF TxnInv, Types, ServerStates, Fates, Txns
<1>3. /\ srv' \in ServerStates /\ srv'.cur = srv.cur /\ srv'.byServer = srv.byServer
      /\ srv'.fate = [srv.fate EXCEPT ![t] = "aborted"]
  BY <1>1, <1>2, SettleFacts
<1>4. FatesFrom(srv, srv')
  <2>1. \A x \in Xids : x # t => srv'.fate[x] = srv.fate[x]
    BY <1>2, <1>3
  <2> QED
    BY <1>1, <2>1 DEF FatesFrom
<1>5. ToldTheTruth'
  BY <1>1, <1>4, ToldKeeps DEF TxnInv
<1>6. Types' /\ PoolIsClean' /\ Isolation'
  BY <1>1, <1>3 DEF TxnInv, Types, PoolIsClean, Isolation, Erred
<1>7. Waiting' /\ ServerBegan'
  BY <1>1, <1>3 DEF TxnInv, Waiting, ServerBegan, Erred, Calm
<1>8. Agreed'
  BY <1>1, <1>3 DEF TxnInv, Agreed, Erred
<1> QED
  BY <1>5, <1>6, <1>7, <1>8 DEF TxnInv

-----------------------------------------------------------------------------
(* Transactions: the execute *)

(* What it sends: a suspend is folded into the record, what waits there     *)
(* rides on the request and waits no longer.                                *)
LEMMA FoldFacts ==
    ASSUME TxnInv, NEW suspend \in BOOLEAN, suspend => CanSuspend,
           NEW folded, folded = (IF suspend THEN FoldSuspend(client) ELSE client)
    PROVE  /\ folded \in ClientStates /\ Single(folded.sess)
           /\ folded.ctx = client.ctx /\ folded.flag = client.flag
           /\ \A r \in folded.sess : r.pending => r.op # {}
           /\ \A r \in folded.sess : r.pending /\ "start" \in r.op
                => r.id \in Ids /\ (Calm => deferrer = user)
           /\ \A r \in folded.sess : \E d \in client.sess : r.byServer = d.byServer
           /\ client.sess # {} => folded.sess # {}
           /\ Piggyback(folded) = {} => folded = client
<1>0. client \in ClientStates /\ Single(client.sess) /\ client.sess \subseteq SessionlessData
      /\ Waiting
  BY DEF TxnInv, Types, ClientStates
<1>1. CASE ~suspend
  BY <1>0, <1>1 DEF Waiting
<1>2. CASE suspend
  <2>1. PICK d \in client.sess : ~d.byServer
    BY <1>2 DEF CanSuspend
  <2>2. client.sess = {d} /\ d \in SessionlessData
    BY <1>0 DEF Single
  <2> DEFINE e == [d EXCEPT !.op = IF d.pending THEN d.op \cup {"post"} ELSE {"post"},
                            !.pending = TRUE]
  <2>3. folded = [client EXCEPT !.sess = {e}]
    <3>1. {[r EXCEPT !.op = IF r.pending THEN r.op \cup {"post"} ELSE {"post"},
                     !.pending = TRUE] : r \in client.sess} = {e}
      BY <2>2
    <3> QED
      BY <1>2, <3>1 DEF FoldSuspend
  <2>4. /\ e \in SessionlessData /\ e.pending = TRUE /\ e.id = d.id
        /\ e.byServer = d.byServer
        /\ e.op = (IF d.pending THEN d.op \cup {"post"} ELSE {"post"})
    BY <2>2 DEF SessionlessData
  <2> HIDE DEF e
  <2>5. /\ folded \in ClientStates /\ folded.sess = {e}
        /\ folded.ctx = client.ctx /\ folded.flag = client.flag
    BY <1>0, <2>3, <2>4 DEF ClientStates
  <2>6. e.op # {} /\ ("start" \in e.op => d.pending /\ "start" \in d.op)
    BY <2>4
  <2>7. Piggyback(folded) # {}
    BY <2>4, <2>5 DEF Piggyback
  <2> QED
    BY <1>0, <2>2, <2>4, <2>5, <2>6, <2>7 DEF Single, Waiting
<1> QED
  BY <1>1, <1>2

(* take_sessionless_piggyback *)
LEMMA TakenFacts ==
    ASSUME NEW c \in ClientStates, Single(c.sess)
    PROVE  /\ Taken(c) \in ClientStates /\ Single(Taken(c).sess)
           /\ Taken(c).ctx = c.ctx /\ Taken(c).flag = c.flag
           /\ \A r \in Taken(c).sess : ~r.pending
           /\ \A r \in Taken(c).sess : \E d \in c.sess : r.byServer = d.byServer
           /\ c.sess # {} => Taken(c).sess # {}
<1>1. CASE c.sess = {}
  <2>1. Taken(c) = [c EXCEPT !.sess = {}]
    BY <1>1 DEF Taken
  <2> QED
    BY <1>1, <2>1 DEF ClientStates, Single
<1>2. ASSUME NEW d \in c.sess
      PROVE  /\ Taken(c) \in ClientStates /\ Single(Taken(c).sess)
             /\ Taken(c).ctx = c.ctx /\ Taken(c).flag = c.flag
             /\ \A r \in Taken(c).sess : ~r.pending
             /\ \A r \in Taken(c).sess : \E x \in c.sess : r.byServer = x.byServer
             /\ Taken(c).sess # {}
  <2>1. c.sess = {d} /\ d \in SessionlessData
    BY DEF Single, ClientStates
  <2> DEFINE e == [d EXCEPT !.pending = FALSE]
  <2>2. Taken(c) = [c EXCEPT !.sess = {e}]
    <3>1. {[r EXCEPT !.pending = FALSE] : r \in c.sess} = {e}
      BY <2>1
    <3> QED
      BY <3>1 DEF Taken
  <2>3. e \in SessionlessData /\ e.pending = FALSE /\ e.byServer = d.byServer
    BY <2>1 DEF SessionlessData
  <2> HIDE DEF e
  <2>4. /\ Taken(c) \in ClientStates /\ Taken(c).sess = {e}
        /\ Taken(c).ctx = c.ctx /\ Taken(c).flag = c.flag
    BY <2>2, <2>3 DEF ClientStates
  <2> QED
    BY <2>1, <2>3, <2>4 DEF Single
<1> QED
  BY <1>1, <1>2

(* What the server makes of it, and which state it reports. *)
Outcome(run, ride, kind) ==
    \/ run.sync = "unset" /\ run.server.cur = None /\ ~run.server.byServer
    \/ run.sync = "server" /\ run.server.cur \in Ids
    \/ run.sync = "set" /\ run.server.cur \in Ids /\ ~run.server.byServer
    \/ run.sync = "none" /\ ride = {} /\ run.server = Work(srv, kind)

\* An execute: what the server makes of it, and which state it reports.
LEMMA ExecutedFacts ==
    ASSUME TxnInv, NEW kind, NEW id, kind = "plsql" => id \in Ids,
           NEW ride, Single(ride),
           \A r \in ride : r \in SessionlessData /\ r.op # {},
           \A r \in ride : "start" \in r.op => r.id \in Ids,
           NEW run, run = Executed(kind, ride, id),
           \A r \in ride : Rides(r), kind = "plsql" => CanStart(run.begun, id, FALSE)
    PROVE  SoundFrom(srv, run.begun) /\ SoundFrom(srv, run.server)
           /\ Outcome(run, ride, kind)
<1> DEFINE begins == \E r \in ride : "start" \in r.op
           posted == \E r \in ride : "post" \in r.op
           begun == IF begins THEN Attach(srv, (CHOOSE r \in ride : TRUE).id, FALSE) ELSE srv
           worked == IF kind = "plsql" THEN Attach(begun, id, TRUE) ELSE Work(begun, kind)
<1>0. srv \in ServerStates /\ (srv.byServer => srv.cur \in Ids) /\ SoundFrom(srv, srv)
  BY SoundCalls DEF TxnInv, Types, ServerBegan
<1>1. /\ run.begun = begun
      /\ run.server = (IF posted THEN Detach(worked) ELSE worked)
      /\ run.sync = (IF posted THEN "unset"
                     ELSE IF kind = "plsql" THEN "server"
                     ELSE IF ride # {} THEN "set" ELSE "none")
  BY DEF Executed
<1>2. Ids \subseteq Txns /\ None \notin Ids /\ \A t \in Ids : t \notin Xids
  BY TransactionsAssumption DEF None, Txns
<1>3. begins => /\ begun.cur \in Ids /\ begun.byServer = FALSE /\ SoundFrom(srv, begun)
  <2> SUFFICES ASSUME begins
               PROVE  begun.cur \in Ids /\ begun.byServer = FALSE /\ SoundFrom(srv, begun)
    OBVIOUS
  <2>1. PICK e \in ride : "start" \in e.op
    OBVIOUS
  <2>2. (CHOOSE r \in ride : TRUE) = e
    BY DEF Single
  <2>3. begun = Attach(srv, e.id, FALSE) /\ e.id \in Ids /\ e.resume \in BOOLEAN
    BY <2>1, <2>2 DEF SessionlessData
  <2>4. CanStart(srv, e.id, e.resume)
    BY <2>1 DEF Rides
  <2> HIDE DEF begun
  <2> QED
    BY <1>0, <1>2, <2>3, <2>4, AttachFacts, SoundCalls DEF TxnInv
<1>4. ~begins => begun = srv
  OBVIOUS
<1>5. begun \in ServerStates /\ SoundFrom(srv, begun) /\ (begun.byServer => begun.cur \in Ids)
  BY <1>0, <1>3, <1>4 DEF SoundFrom
<1>6. ~posted => begins \/ ride = {}
  <2> SUFFICES ASSUME ~posted, NEW e \in ride PROVE begins
    OBVIOUS
  <2>1. e.op \in SUBSET {"start", "post"} /\ e.op # {} /\ "post" \notin e.op
    BY DEF SessionlessData
  <2>2. "start" \in e.op
    BY <2>1
  <2> QED
    BY <2>2
<1> HIDE DEF begins, begun
<1>7. CASE kind = "plsql"
  <2>1. worked = Attach(begun, id, TRUE) /\ id \in Ids
    BY <1>7
  <2>2. /\ worked \in ServerStates /\ worked.cur = id
        /\ worked.fate = [begun.fate EXCEPT ![id] = "active"]
    <3>1. id \in Txns /\ TRUE \in BOOLEAN
      BY <1>2, <2>1
    <3> HIDE DEF worked
    <3> QED
      BY <1>5, <2>1, <3>1, AttachFacts
  <2>3. begun.fate \in [Txns -> Fates] /\ Xids \subseteq Txns
    BY <1>5 DEF ServerStates, Txns
  <2>4. \A x \in Xids : worked.fate[x] = begun.fate[x]
    BY <1>2, <2>1, <2>2, <2>3
  <2>5. SoundFrom(srv, worked)
    BY <1>5, <2>1, <2>2, <2>4 DEF SoundFrom, FatesFrom
  <2> HIDE DEF worked, posted
  <2>6. SoundFrom(srv, Detach(worked)) /\ Detach(worked).cur = None
        /\ ~Detach(worked).byServer
    BY <2>2, <2>5, DetachFacts DEF SoundFrom, FatesFrom
  <2> QED
    BY <1>1, <1>5, <1>7, <2>1, <2>2, <2>5, <2>6 DEF Outcome
<1>8. CASE kind # "plsql"
  <2>1. worked = Work(begun, kind)
    BY <1>8
  <2>2. /\ worked \in ServerStates /\ (begun.cur # None => worked.cur = begun.cur)
        /\ worked.byServer = begun.byServer /\ worked.fate = begun.fate
    BY <1>5, <2>1, WorkFacts
  <2>3. SoundFrom(srv, worked)
    BY <1>2, <1>5, <2>2 DEF SoundFrom, FatesFrom
  <2>4. begins => worked.cur \in Ids /\ ~worked.byServer
    BY <1>2, <1>3, <2>2
  <2> HIDE DEF worked
  <2>5. SoundFrom(srv, Detach(worked)) /\ Detach(worked).cur = None
        /\ ~Detach(worked).byServer
    BY <2>2, <2>3, DetachFacts DEF SoundFrom, FatesFrom
  <2>6. CASE posted
    BY <1>1, <1>5, <2>5, <2>6 DEF Outcome
  <2>7. CASE ~posted /\ ride # {}
    BY <1>1, <1>5, <1>6, <1>8, <2>3, <2>4, <2>7 DEF Outcome
  <2>8. CASE ~posted /\ ride = {}
    <3>1. ~begins
      BY <2>8 DEF begins
    <3> QED
      BY <1>1, <1>4, <1>5, <1>8, <2>1, <2>3, <2>8, <3>1 DEF Outcome
  <2> QED
    BY <2>6, <2>7, <2>8
<1> QED
  BY <1>7, <1>8

(* What the client makes of the answer. *)
RecordedAs(n, c, sync, server) ==
    /\ n \in ClientStates /\ Single(n.sess) /\ n.ctx = c.ctx
    /\ n.flag \in BOOLEAN /\ (n.flag <=> server.cur # None)
    /\ \A r \in n.sess : ~r.pending
    /\ sync = "unset" => n.sess = {}
    /\ sync \in {"set", "server"} => n.sess # {}
    /\ sync = "server" => \A r \in n.sess : r.byServer
    /\ sync = "none" => n.sess = c.sess

\* What the client records of a response.
LEMMA RecordFacts ==
    ASSUME NEW c \in ClientStates, Single(c.sess), \A r \in c.sess : ~r.pending,
           NEW sync \in {"unset", "server", "set", "none"}, NEW server,
           NEW n, n = RecordExecute(c, sync, server)
    PROVE  RecordedAs(n, c, sync, server)
<1> DEFINE v == server.cur # None
           a == ApplyState(c, sync)
<1>0. v \in BOOLEAN /\ n = [a EXCEPT !.flag = v]
  BY DEF RecordExecute
<1> HIDE DEF v, a
<1>1. ASSUME a \in ClientStates, Single(a.sess), a.ctx = c.ctx,
             \A r \in a.sess : ~r.pending,
             sync = "unset" => a.sess = {}, sync \in {"set", "server"} => a.sess # {},
             sync = "server" => \A r \in a.sess : r.byServer,
             sync = "none" => a.sess = c.sess
      PROVE  RecordedAs(n, c, sync, server)
  <2>1. n \in ClientStates /\ n.sess = a.sess /\ n.ctx = a.ctx /\ n.flag = v
    BY <1>0, <1>1 DEF ClientStates
  <2> QED
    BY <1>0, <1>1, <2>1 DEF RecordedAs, v
<1>2. CASE sync = "unset"
  <2>1. a = [c EXCEPT !.sess = {}, !.flag = FALSE]
    BY <1>2 DEF a, ApplyState
  <2>2. a \in ClientStates /\ a.sess = {} /\ a.ctx = c.ctx
    BY <2>1 DEF ClientStates
  <2> QED
    BY <1>1, <1>2, <2>2 DEF Single
<1>3. CASE sync = "none"
  <2>1. a = c
    BY <1>3 DEF a, ApplyState
  <2> QED
    BY <1>1, <1>3, <2>1
<1>4. CASE sync \in {"set", "server"}
  <2> DEFINE by == sync = "server"
  <2>1. by \in BOOLEAN /\ (by <=> sync = "server")
    OBVIOUS
  <2> DEFINE S == IF c.sess # {}
                  THEN {[d EXCEPT !.byServer = by, !.pending = FALSE] : d \in c.sess}
                  ELSE {[Begun(None, FALSE, FALSE) EXCEPT !.byServer = by]}
  <2>2. a = [c EXCEPT !.flag = TRUE, !.sess = S]
    BY <1>4 DEF a, ApplyState
  <2> HIDE DEF by
  <2>3. \E e \in SessionlessData : S = {e} /\ ~e.pending /\ (e.byServer <=> by)
    <3>1. CASE c.sess = {}
      <4> DEFINE b == Begun(None, FALSE, FALSE)
                 e == [b EXCEPT !.byServer = by]
      <4>1. b \in SessionlessData /\ b.pending = FALSE
        BY DEF Begun, SessionlessData
      <4> HIDE DEF b
      <4>2. e \in SessionlessData /\ e.pending = FALSE /\ e.byServer = by
        BY <2>1, <4>1 DEF SessionlessData
      <4>3. S = {e}
        BY <3>1 DEF b
      <4> QED
        BY <4>2, <4>3
    <3>2. ASSUME NEW d \in c.sess
          PROVE  \E e \in SessionlessData : S = {e} /\ ~e.pending /\ (e.byServer <=> by)
      <4> DEFINE e == [d EXCEPT !.byServer = by, !.pending = FALSE]
      <4>1. c.sess = {d} /\ d \in SessionlessData
        BY DEF Single, ClientStates
      <4>2. e \in SessionlessData /\ e.pending = FALSE /\ e.byServer = by
        BY <2>1, <4>1 DEF SessionlessData
      <4>3. S = {e}
        BY <4>1
      <4> QED
        BY <4>2, <4>3
    <3> QED
      BY <3>1, <3>2
  <2> HIDE DEF S
  <2>4. PICK e \in SessionlessData : S = {e} /\ ~e.pending /\ (e.byServer <=> by)
    BY <2>3
  <2>5. a \in ClientStates /\ a.sess = {e} /\ a.ctx = c.ctx
    BY <2>2, <2>4 DEF ClientStates
  <2> QED
    BY <1>1, <1>4, <2>1, <2>4, <2>5 DEF Single
<1> QED
  BY <1>2, <1>3, <1>4

(* execute_query and its kin, with or without a suspend on success. *)
LEMMA ExecuteInv ==
    ASSUME TxnInv, NEW kind, NEW id, kind = "plsql" => id \in Ids,
           NEW suspend \in BOOLEAN, Execute(kind, id, suspend)
    PROVE  TxnInv'
<1> DEFINE folded == IF suspend THEN FoldSuspend(client) ELSE client
           ride == Piggyback(folded)
           sent == Taken(folded)
           run == Executed(kind, ride, id)
           ok == (\A d \in ride : Rides(d))
                 /\ (kind = "plsql" => CanStart(run.begun, id, FALSE))
           by == IF \E d \in ride : "start" \in d.op THEN deferrer ELSE user
<1>0. /\ user # "pool" /\ (suspend => CanSuspend) /\ UNCHANGED <<user, deferrer, told>>
      /\ Credit(by)
      /\ \/ /\ ok /\ UNCHANGED doubt
            /\ srv' = run.server /\ client' = RecordExecute(sent, run.sync, run.server)
         \/ ~ok /\ client' = sent /\ Doubted({"error"}) /\ UNCHANGED srv
         \/ ok /\ srv' = run.begun /\ client' = sent /\ Doubted({"error"})
         \/ Lost(ok, run.server, sent)
         \/ client' = folded /\ Doubted({"error"}) /\ UNCHANGED srv
  BY DEF Execute
<1>1. /\ folded \in ClientStates /\ Single(folded.sess)
      /\ folded.ctx = client.ctx /\ folded.flag = client.flag
      /\ \A r \in folded.sess : r.pending => r.op # {}
      /\ \A r \in folded.sess : r.pending /\ "start" \in r.op
            => r.id \in Ids /\ (Calm => deferrer = user)
      /\ \A r \in folded.sess : \E d \in client.sess : r.byServer = d.byServer
      /\ client.sess # {} => folded.sess # {}
      /\ Piggyback(folded) = {} => folded = client
  BY <1>0, FoldFacts
<1> HIDE DEF folded
<1>2. /\ sent \in ClientStates /\ Single(sent.sess) /\ sent.ctx = client.ctx
      /\ \A r \in sent.sess : ~r.pending
      /\ \A r \in sent.sess : \E d \in folded.sess : r.byServer = d.byServer
      /\ folded.sess # {} => sent.sess # {}
  BY <1>1, TakenFacts
<1>3. /\ Single(ride) /\ \A r \in ride : r \in SessionlessData /\ r.op # {}
      /\ \A r \in ride : "start" \in r.op => r.id \in Ids /\ (Calm => deferrer = user)
  BY <1>1 DEF Piggyback, Single, ClientStates
<1>4. Credit(by) /\ by \in Borrowers \cup {None} /\ (Calm => by = user)
  BY <1>0, <1>3 DEF TxnInv, Types
<1>5. ok \in BOOLEAN
  BY Zenon
<1>6. ok => /\ SoundFrom(srv, run.begun) /\ SoundFrom(srv, run.server)
            /\ Outcome(run, ride, kind)
  <2> DEFINE r0 == ride
             run0 == run
  <2>1. run0 = Executed(kind, r0, id)
    OBVIOUS
  <2> SUFFICES ASSUME ok
               PROVE  SoundFrom(srv, run0.begun) /\ SoundFrom(srv, run0.server)
                      /\ Outcome(run0, r0, kind)
    OBVIOUS
  <2>2. (\A d \in r0 : Rides(d)) /\ (kind = "plsql" => CanStart(run0.begun, id, FALSE))
    OBVIOUS
  <2>3. /\ Single(r0) /\ \A r \in r0 : r \in SessionlessData /\ r.op # {}
        /\ \A r \in r0 : "start" \in r.op => r.id \in Ids
    BY <1>3
  <2> HIDE DEF r0, run0
  <2> QED
    BY <2>1, <2>2, <2>3, ExecutedFacts, Zenon
<1> HIDE DEF ride, sent, run, ok, by
<1>7. SoundFrom(srv, srv)
  BY SoundCalls DEF TxnInv
<1>8. ASSUME Doubted({"error"}), client' \in {sent, folded}, SoundFrom(srv, srv') PROVE TxnInv'
  <2>1. \A r \in client'.sess : r.pending =>
            r.op # {} /\ ("start" \in r.op => r.id \in Ids)
    BY <1>0, <1>1, <1>2, <1>8
  <2>2. client' \in ClientStates /\ Single(client'.sess) /\ client'.ctx = client.ctx
    BY <1>1, <1>2, <1>8
  <2> QED
    BY <1>0, <1>4, <1>8, <2>1, <2>2, AfterError DEF TxnInv, Types
<1>9. CASE ok /\ UNCHANGED doubt /\ srv' = run.server
           /\ client' = RecordExecute(sent, run.sync, run.server)
  <2>0. run.sync \in {"unset", "server", "set", "none"}
    BY <1>6, <1>9 DEF Outcome
  <2>1. /\ client' \in ClientStates /\ Single(client'.sess) /\ client'.ctx = client.ctx
        /\ client'.flag \in BOOLEAN /\ (client'.flag <=> srv'.cur # None)
        /\ \A r \in client'.sess : ~r.pending
        /\ run.sync = "unset" => client'.sess = {}
        /\ run.sync \in {"set", "server"} => client'.sess # {}
        /\ run.sync = "server" => \A r \in client'.sess : r.byServer
        /\ run.sync = "none" => client'.sess = sent.sess
    <3> DEFINE y == run.sync
    <3>1. y \in {"unset", "server", "set", "none"} /\ client' = RecordExecute(sent, y, srv')
      BY <1>9, <2>0
    <3> HIDE DEF y
    <3>2. RecordedAs(client', sent, y, srv')
      BY <1>2, <3>1, RecordFacts, Zenon
    <3> QED
      BY <1>2, <3>2 DEF RecordedAs, y
  <2>2. Isolation' /\ asked' \in Borrowers \cup {None}
    <3>1. Calm' <=> Calm
      BY <1>9 DEF Calm
    <3> QED
      BY <1>0, <1>4, <3>1, CreditKeeps DEF TxnInv
  <2>3. Types'
    BY <1>0, <1>6, <1>9, <2>1, <2>2 DEF TxnInv, Types, SoundFrom
  <2>4. ToldTheTruth'
    BY <1>0, <1>6, <1>9, ToldKeeps DEF TxnInv, SoundFrom
  <2>5. PoolIsClean' /\ Waiting'
    BY <1>0, <1>9, <2>1 DEF TxnInv, PoolIsClean, Waiting, Erred
  <2>6. /\ None \notin Ids /\ None \notin Xids /\ \A t \in Ids : t \notin Xids
        /\ "local" \notin Ids /\ "local" \notin Xids
    BY TransactionsAssumption DEF None
  <2>7. CASE run.sync # "none"
    <3>1. ServerBegan'
      BY <1>6, <1>9, <2>1, <2>7 DEF ServerBegan, Outcome
    <3>2. Agreed'
      BY <1>6, <1>9, <2>1, <2>6, <2>7, AgreesWhen DEF Outcome
    <3> QED
      BY <2>2, <2>3, <2>4, <2>5, <3>1, <3>2 DEF TxnInv
  <2>8. CASE run.sync = "none"
    <3>1. ride = {} /\ srv' = Work(srv, kind) /\ folded = client
      BY <1>1, <1>6, <1>9, <2>8 DEF ride, Outcome
    <3>2. srv \in ServerStates
      BY DEF TxnInv, Types
    <3>3. /\ srv'.cur \in {srv.cur, "local"} /\ (srv.cur # None => srv'.cur = srv.cur)
          /\ srv'.byServer = srv.byServer
      BY <3>1, <3>2, WorkFacts
    <3>4. client'.sess = sent.sess
      BY <2>1, <2>8
    <3>5. \A d \in client.sess : ~d.pending
      BY <3>1 DEF ride, Piggyback
    <3>6. ServerBegan'
      BY <1>2, <1>9, <2>6, <3>1, <3>3, <3>4 DEF TxnInv, ServerBegan, Erred
    <3>7. Agreed'
      <4>1. CASE Erred
        BY <1>9, <4>1 DEF Agreed, Erred
      <4>2. CASE ~Erred
        <5>1. /\ srv.cur \in Ids => \E r \in client.sess : ~r.pending
              /\ "piped" \notin doubt /\ (\E r \in client.sess : ~r.pending)
                    => srv.cur \in Ids
              /\ srv.cur \in Xids => client.ctx = {srv.cur}
          BY <4>2, AgreeNow
        <5>2. /\ srv'.cur \in Ids <=> srv.cur \in Ids
              /\ srv'.cur \in Xids => srv'.cur = srv.cur
          <6>1. CASE srv.cur = None
            BY <2>6, <3>3, <6>1
          <6>2. CASE srv.cur # None
            BY <3>3, <6>2
          <6> QED
            BY <6>1, <6>2
        <5>3. (\E r \in client.sess : ~r.pending) <=> (\E r \in client'.sess : ~r.pending)
          BY <1>2, <2>1, <3>1, <3>4, <3>5
        <5> QED
          BY <1>9, <2>1, <5>1, <5>2, <5>3, AgreesWhen
      <4> QED
        BY <4>1, <4>2
    <3> QED
      BY <2>2, <2>3, <2>4, <2>5, <3>6, <3>7 DEF TxnInv
  <2> QED
    BY <2>7, <2>8
<1> QED
  BY <1>0, <1>5, <1>6, <1>7, <1>8, <1>9 DEF Lost

-----------------------------------------------------------------------------
(* Transactions: the theorems *)

(* Every step keeps the invariant. *)
LEMMA NextInv == ASSUME TxnInv, [Next]_vars PROVE TxnInv'
<1>1. ASSUME NEW id \in Ids, NEW resume \in BOOLEAN, NEW deferred \in BOOLEAN,
             Start(id, resume, deferred)
      PROVE  TxnInv'
  BY <1>1, StartInv
<1>2. CASE Suspend
  BY <1>2, SuspendInv
<1>3. ASSUME NEW kind \in {"query", "dml"}, NEW suspend \in BOOLEAN,
             Execute(kind, None, suspend)
      PROVE  TxnInv'
  <2>1. kind # "plsql"
    OBVIOUS
  <2> QED
    BY <1>3, <2>1, ExecuteInv
<1>4. ASSUME NEW id \in Ids, Execute("plsql", id, FALSE) PROVE TxnInv'
  BY <1>4, ExecuteInv
<1>5. CASE Commit
  BY <1>5, EndInv DEF Commit
<1>6. CASE Rollback
  BY <1>6, EndInv DEF Rollback
<1>7. CASE PipelineCommit
  BY <1>7, PipelineCommitInv
<1>8. ASSUME NEW x \in Xids, NEW resume \in BOOLEAN, TpcBegin(x, resume) PROVE TxnInv'
  BY <1>8, TpcBeginInv
<1>9. ASSUME NEW arg \in Xids \cup {None}, TpcEnd(arg) PROVE TxnInv'
  BY <1>9, TpcEndInv
<1>10. ASSUME NEW arg \in Xids \cup {None}, TpcPrepare(arg) PROVE TxnInv'
  BY <1>10, TpcPrepareInv
<1>11. ASSUME NEW arg \in Xids \cup {None}, TpcRollback(arg) PROVE TxnInv'
  BY <1>11, TpcRollbackInv
<1>12. ASSUME NEW arg \in Xids \cup {None}, NEW one \in BOOLEAN, TpcCommit(arg, one)
       PROVE  TxnInv'
  BY <1>12, TpcCommitInv
<1>13. ASSUME NEW in_del \in BOOLEAN, Release(in_del) PROVE TxnInv'
  BY <1>13, ReleaseInv
<1>14. ASSUME NEW b \in Borrowers, Acquire(b) PROVE TxnInv'
  BY <1>14, AcquireInv
<1>15. ASSUME NEW t \in Txns, Expire(t) PROVE TxnInv'
  BY <1>15, ExpireInv
<1>16. CASE UNCHANGED vars
  BY <1>16 DEF vars, TxnInv, Types, PoolIsClean, Isolation, Agreed, Waiting, ServerBegan,
     ToldTheTruth, Erred, Calm
<1> QED
  BY <1>1, <1>2, <1>3, <1>4, <1>5, <1>6, <1>7, <1>8, <1>9, <1>10, <1>11, <1>12, <1>13,
     <1>14, <1>15, <1>16 DEF Next

(* A transaction that the server's own PL/SQL began: the client holds one   *)
(* record, of a begun transaction that is not its own.                      *)
LEMMA ServersOwn ==
    ASSUME TxnInv, ~Erred, srv.byServer
    PROVE  /\ user # "pool" /\ srv.cur \in Ids /\ srv.cur \notin Xids /\ srv.cur # None
           /\ ~CanSuspend /\ client.sess # {} /\ Piggyback(client) = {}
<1>1. srv.cur \in Ids /\ \A r \in client.sess : r.byServer
  BY DEF TxnInv, ServerBegan
<1>2. srv.cur \notin Xids /\ srv.cur # None
  BY <1>1, TransactionsAssumption DEF None
<1>3. user # "pool"
  BY <1>2, AgreeNow DEF TxnInv, PoolIsClean
<1>4. PICK d \in client.sess : ~d.pending
  BY <1>1, AgreeNow
<1>5. \A r \in client.sess : r = d
  BY DEF TxnInv, Types, Single
<1> QED
  BY <1>1, <1>2, <1>3, <1>4, <1>5 DEF CanSuspend, Piggyback

(* A change of a branch's state leaves it alone. *)
LEMMA ChangeStateAlone ==
    ASSUME NEW t \in Xids, NEW ok \in BOOLEAN, NEW f, NEW accepted, NEW clears, NEW say,
           ChangeState(t, ok, f, accepted, clears, say),
           ok => srv.cur \in {t, None}, srv.cur \notin Xids, srv.cur # None
    PROVE  UNCHANGED srv
<1>1. ~ok
  OBVIOUS
<1> QED
  BY <1>1 DEF ChangeState, Lost

(* No step leaves such a transaction except by ending it. *)
LEMMA OnlyEnds ==
    ASSUME TxnInv, ~Erred, srv.byServer, [Next]_vars
    PROVE  \/ srv'.cur = srv.cur
           \/ \E f \in {"committed", "aborted"} : srv' = EndCurrent(srv, f)
<1>0. /\ srv.cur \in Ids /\ srv.cur \notin Xids /\ srv.cur # None
      /\ ~CanSuspend /\ client.sess # {} /\ Piggyback(client) = {} /\ srv \in ServerStates
  BY ServersOwn DEF TxnInv, Types
<1>1. \A id, resume, deferred : ~Start(id, resume, deferred)
  BY <1>0 DEF Start
<1>2. ~Suspend
  BY <1>0 DEF Suspend
<1>3. ASSUME NEW kind, NEW id, NEW suspend \in BOOLEAN, Execute(kind, id, suspend)
      PROVE  srv'.cur = srv.cur
  <2>1. ~suspend
    BY <1>0, <1>3 DEF Execute
  <2> DEFINE run == Executed(kind, {}, id)
             ok == kind = "plsql" => CanStart(run.begun, id, FALSE)
  <2>2. \/ ok /\ srv' \in {run.server, run.begun, srv}
        \/ srv' = srv
    BY <1>0, <1>3, <2>1 DEF Execute, Lost
  <2>3. run.begun = srv /\ (kind # "plsql" => run.server = Work(srv, kind))
    BY DEF Executed
  <2>4. ok => kind # "plsql"
    BY <1>0, <2>3 DEF CanStart
  <2> HIDE DEF run, ok
  <2>5. Work(srv, kind).cur = srv.cur
    BY <1>0, WorkFacts
  <2> QED
    BY <2>2, <2>3, <2>4, <2>5
<1>4. ASSUME NEW f \in {"committed", "aborted"}, EndOfTransaction(f)
      PROVE  srv' = srv \/ srv' = EndCurrent(srv, f)
  BY <1>4 DEF EndOfTransaction, Lost
<1>5. CASE Commit
  BY <1>4, <1>5 DEF Commit
<1>6. CASE Rollback
  BY <1>4, <1>6 DEF Rollback
<1>7. CASE PipelineCommit
  BY <1>7 DEF PipelineCommit, Lost
<1>8. ASSUME NEW x, NEW resume, TpcBegin(x, resume) PROVE srv' = srv
  <2>1. ~CanStart(srv, x, resume)
    BY <1>0 DEF CanStart
  <2> QED
    BY <1>8, <2>1 DEF TpcBegin, Call, Answered, Lost
<1>9. ASSUME NEW arg, TpcEnd(arg) PROVE srv' = srv
  BY <1>0, <1>9 DEF TpcEnd, Call, Answered, Lost
<1>10. ASSUME NEW arg \in Xids \cup {None}, TpcPrepare(arg) PROVE srv' = srv
  <2>1. PICK t \in Named(arg) :
            LET f == IF t \in srv.dirty THEN "prepared" ELSE "forgotten"
            IN  ChangeState(t, Reachable(t), f, TRUE, FALSE, f)
    BY <1>10 DEF TpcPrepare
  <2> DEFINE ok == Reachable(t)
             f == IF t \in srv.dirty THEN "prepared" ELSE "forgotten"
  <2>2. ok \in BOOLEAN /\ (ok => srv.cur \in {t, None}) /\ t \in Xids
        /\ ChangeState(t, ok, f, TRUE, FALSE, f)
    BY <2>1, NamedIsBranch DEF Reachable
  <2> HIDE DEF ok, f
  <2> QED
    BY <1>0, <2>2, ChangeStateAlone
<1>11. ASSUME NEW arg \in Xids \cup {None}, TpcRollback(arg) PROVE srv' = srv
  <2>1. PICK t \in Named(arg) :
          ChangeState(t, Reachable(t) \/ (srv.fate[t] = "prepared" /\ srv.cur = None),
                      "aborted", TRUE, FALSE, "aborted")
    BY <1>11 DEF TpcRollback
  <2> DEFINE ok == Reachable(t) \/ (srv.fate[t] = "prepared" /\ srv.cur = None)
  <2>2. ok \in BOOLEAN /\ (ok => srv.cur \in {t, None}) /\ t \in Xids
        /\ ChangeState(t, ok, "aborted", TRUE, FALSE, "aborted")
    BY <2>1, NamedIsBranch DEF Reachable
  <2> HIDE DEF ok
  <2> QED
    BY <1>0, <2>2, ChangeStateAlone
<1>12. ASSUME NEW arg \in Xids \cup {None}, NEW one \in BOOLEAN, TpcCommit(arg, one)
       PROVE  srv' = srv
  <2>1. PICK t \in Named(arg) :
        \E f \in (IF ~one THEN {"committed"}
                  ELSE IF t \in srv.dirty THEN {"committed", "aborted"}
                  ELSE {"forgotten"}) :
            ChangeState(t, IF one THEN Reachable(t)
                           ELSE srv.fate[t] = "prepared" /\ srv.cur = None,
                        f, CommitAccepts(one, f), TRUE, "committed")
    BY <1>12 DEF TpcCommit
  <2> DEFINE ok == IF one THEN Reachable(t) ELSE srv.fate[t] = "prepared" /\ srv.cur = None
  <2>2. PICK f : ChangeState(t, ok, f, CommitAccepts(one, f), TRUE, "committed")
    BY <2>1
  <2>3. ok \in BOOLEAN /\ (ok => srv.cur \in {t, None}) /\ t \in Xids
    BY <2>1, NamedIsBranch DEF Reachable
  <2> HIDE DEF ok
  <2> QED
    BY <1>0, <2>2, <2>3, ChangeStateAlone
<1>13. ASSUME NEW in_del, Release(in_del)
       PROVE  srv' = srv \/ srv' = EndCurrent(srv, "aborted")
  BY <1>13 DEF Release
<1>14. ASSUME NEW b, Acquire(b) PROVE srv' = srv
  BY <1>14 DEF Acquire
<1>15. ASSUME NEW t \in Txns, Expire(t) PROVE srv'.cur = srv.cur
  <2>1. srv.cur # t /\ srv' = Settle(srv, t, "aborted")
    BY <1>15 DEF Expire, Detached
  <2>2. Settle(srv, t, "aborted").cur = srv.cur
    BY <1>0, <2>1 DEF Settle, ServerStates
  <2> QED
    BY <2>1, <2>2
<1>16. CASE UNCHANGED vars
  BY <1>16 DEF vars
<1> QED
  BY <1>1, <1>2, <1>3, <1>5, <1>6, <1>7, <1>8, <1>9, <1>10, <1>11, <1>12, <1>13,
     <1>14, <1>15, <1>16 DEF Next

(* Whatever borrowers and network do, a released session carries a          *)
(* transaction on the server only after an error that no commit or rollback *)
(* followed, a raised flag only if __del__ ignored a failed rollback, and a *)
(* borrower meets another's transaction only after an error or a deferred   *)
(* begin that was handed over.                                              *)
THEOREM HandoverIsClean == Spec => []NothingCrossesRelease
<1>1. TxnInv /\ [Next]_vars => TxnInv'
  BY NextInv
<1> QED
  BY <1>1, InitInv, InvImplies, PTL DEF Spec

(* Flag, record and context agree with the server until an error tells the  *)
(* borrower otherwise, a record that a pipelined commit left behind apart,  *)
(* and what was told of a branch stays true.                                *)
THEOREM ClientKnowsServer == Spec => []ClientKnows
<1>1. TxnInv /\ [Next]_vars => TxnInv'
  BY NextInv
<1> QED
  BY <1>1, InitInv, InvImplies, PTL DEF Spec

(* Unless an error came before, the client never detaches a transaction     *)
(* that the server's own PL/SQL began: it is committed or rolled back, or   *)
(* it stays.                                                                *)
THEOREM ServerTransactionKept == Spec => KeepsServerTransaction
<1>1. TxnInv /\ [Next]_vars => TxnInv'
  BY NextInv
<1>2. ASSUME TxnInv, [Next]_vars
      PROVE  ["error" \notin doubt /\ srv.byServer /\ srv'.cur = None
                => srv'.fate[srv.cur] # "active"]_vars
  <2> SUFFICES ASSUME ~Erred, srv.byServer, srv'.cur = None
               PROVE  srv'.fate[srv.cur] # "active"
    BY DEF Erred
  <2>1. srv.cur \in Ids /\ srv.cur # None /\ srv \in ServerStates
    BY <1>2, ServersOwn DEF TxnInv, Types
  <2>2. PICK f \in {"committed", "aborted"} : srv' = EndCurrent(srv, f)
    BY <1>2, <2>1, OnlyEnds
  <2>3. srv'.fate = [srv.fate EXCEPT ![srv.cur] = f]
    BY <2>1, <2>2, EndCurrentFacts
  <2>4. srv.fate \in [Txns -> Fates] /\ srv.cur \in Txns
    BY <2>1 DEF ServerStates, Txns
  <2> QED
    BY <2>3, <2>4
<1> QED
  BY <1>1, <1>2, InitInv, PTL DEF Spec, KeepsServerTransaction

-----------------------------------------------------------------------------
(* Retry: the policy's arithmetic *)

(* Each shift doubles the factor of the one before it. The provers compute  *)
(* powers of numerals only, so the shifts, which backoff_for saturates at   *)
(* 31, are taken one by one.                                                *)
LEMMA Doubling == ASSUME NEW k \in 0..30 PROVE 2^k \in Nat /\ 2^(k + 1) = 2 * 2^k
<1>1. CASE k = 0 BY <1>1
<1>2. CASE k = 1 BY <1>2
<1>3. CASE k = 2 BY <1>3
<1>4. CASE k = 3 BY <1>4
<1>5. CASE k = 4 BY <1>5
<1>6. CASE k = 5 BY <1>6
<1>7. CASE k = 6 BY <1>7
<1>8. CASE k = 7 BY <1>8
<1>9. CASE k = 8 BY <1>9
<1>10. CASE k = 9 BY <1>10
<1>11. CASE k = 10 BY <1>11
<1>12. CASE k = 11 BY <1>12
<1>13. CASE k = 12 BY <1>13
<1>14. CASE k = 13 BY <1>14
<1>15. CASE k = 14 BY <1>15
<1>16. CASE k = 15 BY <1>16
<1>17. CASE k = 16 BY <1>17
<1>18. CASE k = 17 BY <1>18
<1>19. CASE k = 18 BY <1>19
<1>20. CASE k = 19 BY <1>20
<1>21. CASE k = 20 BY <1>21
<1>22. CASE k = 21 BY <1>22
<1>23. CASE k = 22 BY <1>23
<1>24. CASE k = 23 BY <1>24
<1>25. CASE k = 24 BY <1>25
<1>26. CASE k = 25 BY <1>26
<1>27. CASE k = 26 BY <1>27
<1>28. CASE k = 27 BY <1>28
<1>29. CASE k = 28 BY <1>29
<1>30. CASE k = 29 BY <1>30
<1>31. CASE k = 30 BY <1>31
<1> QED
  BY <1>1, <1>2, <1>3, <1>4, <1>5, <1>6, <1>7, <1>8,
     <1>9, <1>10, <1>11, <1>12, <1>13, <1>14, <1>15, <1>16,
     <1>17, <1>18, <1>19, <1>20, <1>21, <1>22, <1>23, <1>24,
     <1>25, <1>26, <1>27, <1>28, <1>29, <1>30, <1>31

(* A failed attempt's backoff is a number up to the cap, no smaller than    *)
(* the one before it; the first is the base itself.                         *)
LEMMA BackoffMonotone ==
    ASSUME NEW p \in Policies, NEW m \in Nat \ {0}
    PROVE  /\ BackoffFor(p, m) \in Nat
           /\ BackoffFor(p, m) <= p.cap
           /\ BackoffFor(p, m) <= BackoffFor(p, m + 1)
           /\ BackoffFor(p, 1) = Smaller(p.base, p.cap)
<1> DEFINE f == Smaller(m - 1, 31)
           g == Smaller(m + 1 - 1, 31)
<1>1. p.base \in 0..MaxDuration /\ p.cap \in 0..MaxDuration /\ MaxDuration \in Nat
  BY RetryAssumption DEF Policies
<1>2. f \in 0..31 /\ ((g = f + 1 /\ f \in 0..30) \/ g = f)
  BY DEF Smaller
<1>3. 2^f \in Nat /\ 2^g \in Nat /\ (2^g = 2 * 2^f \/ 2^g = 2^f)
  <2>1. CASE f \in 0..30
    <3>1. 2^f \in Nat /\ 2^(f + 1) = 2 * 2^f
      BY <2>1, Doubling
    <3> HIDE DEF f, g
    <3> QED
      BY <1>2, <3>1
  <2>2. CASE f = 31
    <3>1. 2^31 = 2147483648
      OBVIOUS
    <3> HIDE DEF f, g
    <3> QED
      BY <1>2, <2>2, <3>1
  <2> QED
    BY <1>2, <2>1, <2>2
<1>4. ASSUME NEW x \in Nat, NEW y \in Nat, y = 2 * x \/ y = x, NEW b \in Nat
      PROVE  b * x \in Nat /\ b * y \in Nat /\ b * x <= b * y
  <2>1. b * x \in Nat
    OBVIOUS
  <2>2. y = 2 * x => b * y = 2 * (b * x)
    OBVIOUS
  <2> QED
    BY <1>4, <2>1, <2>2
<1>5. p.base * 2^f \in Nat /\ p.base * 2^g \in Nat /\ p.base * 2^f <= p.base * 2^g
  <2> HIDE DEF f, g
  <2> QED
    BY <1>1, <1>3, <1>4
<1>6. BackoffFor(p, m) \in Nat /\ BackoffFor(p, m) <= p.cap
      /\ BackoffFor(p, m) <= BackoffFor(p, m + 1)
  <2>1. BackoffFor(p, m) = IF p.base = 0 THEN 0 ELSE
            Smaller(IF p.base * 2^f > MaxDuration THEN p.cap ELSE p.base * 2^f, p.cap)
    BY DEF BackoffFor
  <2>2. BackoffFor(p, m + 1) = IF p.base = 0 THEN 0 ELSE
            Smaller(IF p.base * 2^g > MaxDuration THEN p.cap ELSE p.base * 2^g, p.cap)
    BY DEF BackoffFor
  <2> HIDE DEF f, g
  <2> QED
    BY <1>1, <1>5, <2>1, <2>2 DEF Smaller
<1>7. BackoffFor(p, 1) = Smaller(p.base, p.cap)
  <2>1. Smaller(1 - 1, 31) = 0
    BY DEF Smaller
  <2>2. 2^0 = 1
    OBVIOUS
  <2>3. BackoffFor(p, 1) = IF p.base = 0 THEN 0 ELSE
            Smaller(IF p.base > MaxDuration THEN p.cap ELSE p.base, p.cap)
    <3>0. 2^(Smaller(1 - 1, 31)) = 1
      BY <2>1, <2>2
    <3>1. p.base * 2^(Smaller(1 - 1, 31)) = p.base
      BY <1>1, <3>0
    <3>2. BackoffFor(p, 1) = LET scaled == p.base * 2^(Smaller(1 - 1, 31)) IN
              IF p.base = 0 THEN 0
              ELSE Smaller(IF scaled > MaxDuration THEN p.cap ELSE scaled, p.cap)
      BY DEF BackoffFor
    <3> QED
      BY <3>1, <3>2
  <2> QED
    BY <1>1, <2>3 DEF Smaller
<1> QED
  BY <1>6, <1>7

-----------------------------------------------------------------------------
(* Retry: the inductive invariant *)

(* The loop's counters: an attempt that runs, or that succeeded, is started *)
(* and not failed; one that failed went to sleep unless it was surfaced.    *)
Counters ==
    /\ attempts \in Nat /\ applied \in Nat /\ applied <= started
    /\ started = IF stage = "running" \/ outcome = "ok" THEN attempts + 1 ELSE attempts
    /\ stage # "done" => /\ outcome = "none" /\ attempts <= policy.max
                     /\ applied <= attempts
    /\ started <= policy.max + 1
    /\ outcome = "ok" => applied >= 1

(* What is not idempotent never comes back to the head of the loop. *)
OneShot ==
    ~policy.idempotent =>
        /\ started <= 1
        /\ stage # "done" => attempts = 0 /\ stage \in {"loop", "running"}

(* A session that was lost is on its way to be replaced. *)
LostIsReconnecting ==
    /\ stage \in {"loop", "running"} => conn = "up"
    /\ stage = "sleep" => err \in {"transient", "lost"} /\ (conn = "lost" => err = "lost")

(* The k-th backoff slept is the k-th of the policy. *)
BackoffsFollowPolicy ==
    /\ backoffs \in Seq(Nat) /\ Len(backoffs) <= attempts
    /\ stage # "done" => Len(backoffs) = attempts
    /\ \A k \in DOMAIN backoffs : backoffs[k] = BackoffFor(policy, k)

Shape ==
    /\ policy \in Policies /\ stage \in {"loop", "running", "sleep", "reconnect", "done"}
    /\ err \in Errors \cup {"none"} /\ conn \in {"up", "lost"} /\ cancelled \in BOOLEAN
    /\ outcome \in Errors \cup {"none", "ok", "cancelled", "reconnect"}

RetryInv == Shape /\ Counters /\ OneShot /\ LostIsReconnecting /\ BackoffsFollowPolicy

(* What the properties say follows from the invariant. *)
LEMMA RetryInvImplies == RetryInv => SafeToRepeat /\ PolicyHolds
<1> SUFFICES ASSUME RetryInv PROVE SafeToRepeat /\ PolicyHolds
  OBVIOUS
<1> USE DEF RetryInv
<1>0. policy \in Policies /\ policy.max \in Nat /\ policy.idempotent \in BOOLEAN
  BY RetryAssumption DEF Shape, Policies
<1>1. RetryTypeOK
  BY <1>0 DEF Shape, Counters, RetryTypeOK
<1>2. WithinBudget
  BY DEF Counters, WithinBudget
<1>3. BackoffGrows
  <2>1. ASSUME NEW k \in DOMAIN backoffs
        PROVE  /\ backoffs[k] <= policy.cap
               /\ k > 1 => backoffs[k - 1] <= backoffs[k]
    <3>1. k \in Nat \ {0} /\ backoffs[k] = BackoffFor(policy, k)
      BY DEF BackoffsFollowPolicy
    <3>2. BackoffFor(policy, k) <= policy.cap
      BY <1>0, <3>1, BackoffMonotone
    <3>3. ASSUME k > 1 PROVE backoffs[k - 1] <= backoffs[k]
      <4>1. k - 1 \in Nat \ {0} /\ k - 1 \in DOMAIN backoffs
        BY <3>1, <3>3 DEF BackoffsFollowPolicy
      <4>2. BackoffFor(policy, k - 1) <= BackoffFor(policy, (k - 1) + 1)
        BY <1>0, <4>1, BackoffMonotone
      <4>3. (k - 1) + 1 = k
        BY <3>1
      <4> QED
        BY <3>1, <4>1, <4>2, <4>3 DEF BackoffsFollowPolicy
    <3> QED
      BY <3>1, <3>2, <3>3
  <2>2. backoffs # << >> => backoffs[1] = Smaller(policy.base, policy.cap)
    <3>1. backoffs # << >> => 1 \in DOMAIN backoffs
      BY DEF BackoffsFollowPolicy
    <3>2. BackoffFor(policy, 1) = Smaller(policy.base, policy.cap)
      BY <1>0, BackoffMonotone
    <3> QED
      BY <3>1, <3>2 DEF BackoffsFollowPolicy
  <2> QED
    BY <2>1, <2>2 DEF BackoffGrows
<1>4. AppliedOnce
  BY <1>0, <1>1 DEF Counters, OneShot, AppliedOnce, RetryTypeOK
<1>5. NeverOnLostSession
  BY DEF LostIsReconnecting, NeverOnLostSession
<1> QED
  BY <1>1, <1>2, <1>3, <1>4, <1>5 DEF SafeToRepeat, PolicyHolds

(* The loop starts with nothing tried. *)
LEMMA RetryInitInv == RetryInit => RetryInv
<1> SUFFICES ASSUME RetryInit PROVE RetryInv
  OBVIOUS
<1>1. policy \in Policies /\ policy.max \in Nat
  BY RetryAssumption DEF RetryInit, Policies
<1>2. Shape /\ LostIsReconnecting
  BY DEF RetryInit, Shape, LostIsReconnecting
<1>3. Counters /\ OneShot
  BY <1>1 DEF RetryInit, Counters, OneShot
<1>4. BackoffsFollowPolicy
  BY DEF RetryInit, BackoffsFollowPolicy
<1> QED
  BY <1>2, <1>3, <1>4 DEF RetryInv

(* A failed attempt is counted, judged, and either surfaced or slept on. *)
LEMMA FailInv == ASSUME RetryInv, NEW e \in Errors, FailAttempt(e) PROVE RetryInv'
<1> USE DEF RetryInv
<1>0. policy \in Policies /\ policy.max \in Nat /\ policy.idempotent \in BOOLEAN
  BY RetryAssumption DEF Shape, Policies
<1>1. /\ stage = "running" /\ conn = "up" /\ err' = e /\ attempts' = attempts + 1
      /\ policy' = policy /\ started' = started /\ cancelled' = cancelled
      /\ applied' \in {applied, applied + 1}
      /\ conn' = IF e = "lost" THEN "lost" ELSE "up"
      /\ outcome = "none" /\ started = attempts + 1 /\ attempts \in Nat
  BY DEF FailAttempt, Counted, LostIsReconnecting, Counters
<1>2. applied' \in Nat /\ applied' <= started
  BY <1>1 DEF Counters
<1>3. CASE Decide(policy, e, attempts') = "Surface"
  <2>1. stage' = "done" /\ outcome' = e /\ backoffs' = backoffs
    BY <1>1, <1>3 DEF FailAttempt, After, Finish
  <2>2. Shape'
    BY <1>1, <2>1 DEF Shape, Errors
  <2>3. Counters' /\ OneShot'
    BY <1>0, <1>1, <1>2, <2>1 DEF Counters, OneShot, Errors
  <2>4. LostIsReconnecting' /\ BackoffsFollowPolicy'
    BY <1>1, <2>1 DEF LostIsReconnecting, BackoffsFollowPolicy
  <2> QED
    BY <2>2, <2>3, <2>4
<1>4. CASE Decide(policy, e, attempts') # "Surface"
  <2>1. /\ stage' = "sleep" /\ outcome' = outcome
        /\ backoffs' = Append(backoffs, BackoffFor(policy, attempts + 1))
    BY <1>1, <1>4 DEF FailAttempt, After
  <2>2. policy.idempotent /\ attempts + 1 <= policy.max /\ e \in {"transient", "lost"}
    BY <1>0, <1>1, <1>4 DEF Decide, RetryHint, Errors
  <2>3. Shape'
    BY <1>1, <2>1 DEF Shape
  <2>4. Counters' /\ OneShot'
    BY <1>0, <1>1, <1>2, <2>1, <2>2 DEF Counters, OneShot
  <2>5. LostIsReconnecting'
    BY <1>1, <2>1, <2>2 DEF LostIsReconnecting
  <2>6. BackoffsFollowPolicy'
    <3>1. BackoffFor(policy, attempts + 1) \in Nat
      BY <1>0, <1>1, BackoffMonotone
    <3>2. Len(backoffs) = attempts /\ backoffs \in Seq(Nat)
      BY <1>1 DEF BackoffsFollowPolicy
    <3>3. ASSUME NEW k \in DOMAIN backoffs' PROVE backoffs'[k] = BackoffFor(policy, k)
      <4>1. CASE k \in DOMAIN backoffs
        BY <2>1, <3>1, <3>2, <4>1 DEF BackoffsFollowPolicy
      <4>2. CASE k = attempts + 1
        BY <2>1, <3>1, <3>2, <4>2
      <4> QED
        BY <2>1, <3>1, <3>2, <4>1, <4>2
    <3>4. backoffs' \in Seq(Nat) /\ Len(backoffs') = attempts + 1
      BY <2>1, <3>1, <3>2
    <3> QED
      BY <1>1, <2>1, <3>3, <3>4 DEF BackoffsFollowPolicy
  <2> QED
    BY <2>3, <2>4, <2>5, <2>6
<1> QED
  BY <1>3, <1>4

(* Every step of the loop keeps the invariant. *)
LEMMA RetryNextInv == RetryInv /\ [RetryNext]_retryVars => RetryInv'
<1> SUFFICES ASSUME RetryInv, [RetryNext]_retryVars PROVE RetryInv'
  OBVIOUS
<1> USE DEF RetryInv
<1>0. policy \in Policies /\ policy.max \in Nat /\ policy.idempotent \in BOOLEAN
  BY RetryAssumption DEF Shape, Policies
<1>1. CASE StartAttempt
  <2>1. CASE cancelled
    BY <1>0, <1>1, <2>1 DEF StartAttempt, Finish, Shape, Counters, OneShot,
       LostIsReconnecting, BackoffsFollowPolicy
  <2>2. CASE ~cancelled
    BY <1>0, <1>1, <2>2 DEF StartAttempt, Shape, Counters, OneShot,
       LostIsReconnecting, BackoffsFollowPolicy
  <2> QED
    BY <2>1, <2>2
<1>2. CASE Succeed
  BY <1>0, <1>2 DEF Succeed, Finish, Shape, Counters, OneShot, LostIsReconnecting,
     BackoffsFollowPolicy
<1>3. CASE Sleep
  <2>1. CASE cancelled
    BY <1>0, <1>3, <2>1 DEF Sleep, Finish, Shape, Counters, OneShot,
       LostIsReconnecting, BackoffsFollowPolicy
  <2>2. CASE ~cancelled
    <3>1. stage' = (IF err = "lost" THEN "reconnect" ELSE "loop")
      BY <1>3, <2>2 DEF Sleep, AfterSleep, RetryHint, Shape, Errors
    <3> QED
      BY <1>0, <1>3, <2>2, <3>1 DEF Sleep, Shape, Counters, OneShot,
         LostIsReconnecting, BackoffsFollowPolicy
  <2> QED
    BY <2>1, <2>2
<1>4. CASE ReconnectStep
  <2>0. err # "ok" /\ (stage = "reconnect" => policy.idempotent)
    BY DEF Shape, Errors, OneShot
  <2> QED
    BY <1>0, <1>4, <2>0 DEF ReconnectStep, Finish, Shape, Counters, OneShot,
       LostIsReconnecting, BackoffsFollowPolicy
<1>5. CASE Cancel
  BY <1>0, <1>5 DEF Cancel, Shape, Counters, OneShot, LostIsReconnecting,
     BackoffsFollowPolicy
<1>6. CASE \E e \in Errors : FailAttempt(e)
  BY <1>6, FailInv
<1>7. CASE UNCHANGED retryVars
  BY <1>7 DEF retryVars, Shape, Counters, OneShot, LostIsReconnecting,
     BackoffsFollowPolicy
<1> QED
  BY <1>1, <1>2, <1>3, <1>4, <1>5, <1>6, <1>7 DEF RetryNext

-----------------------------------------------------------------------------
(* Retry: the theorems *)

(* run_with_retry and run_with_retry_reconnecting, whatever the policy, the *)
(* failures and the lost acknowledgements: a non-idempotent operation takes *)
(* effect at most once, a reported success took effect, and no attempt runs *)
(* on a session known to be lost.                                           *)
THEOREM RetriesAreSafe == RetrySpec => []SafeToRepeat
<1>1. RetryInv => SafeToRepeat
  BY RetryInvImplies
<1> QED
  BY <1>1, RetryInitInv, RetryNextInv, PTL DEF RetrySpec

(* The policy's numbers, for every max_retries, base_backoff, max_backoff   *)
(* and range of Duration: at most max_retries + 1 attempts, and backoffs    *)
(* that start at the base, never shrink and never exceed the cap, through   *)
(* the overflow of checked_mul and the saturation of the shift.             *)
THEOREM RetriesWithinPolicy == RetrySpec => []PolicyHolds
<1>1. RetryInv => PolicyHolds
  BY RetryInvImplies
<1> QED
  BY <1>1, RetryInitInv, RetryNextInv, PTL DEF RetrySpec

(* After the caller's Cx is cancelled the loop starts no further attempt. *)
THEOREM CancelStopsAttempts == RetrySpec => CancelWins
<1>1. [RetryNext]_retryVars => [cancelled => started' = started]_retryVars
  BY DEF RetryNext, retryVars, StartAttempt, Succeed, Sleep, ReconnectStep, Cancel,
     FailAttempt, Finish
<1> QED
  BY <1>1, PTL DEF RetrySpec, CancelWins

-----------------------------------------------------------------------------
(* Connect: the endpoints of a descriptor *)

\* A non-empty set of naturals has a least element.
LEMMA LeastNat ==
    ASSUME NEW S \in SUBSET Nat, S # {}
    PROVE  \E m \in S : \A k \in S : m <= k
<1> DEFINE R == OpToRel(<, Nat)
<1>1. IsWellFoundedOn(R, Nat)
  BY NatLessThanWellFounded
<1>2. \A k, m \in Nat : k < m => <<k, m>> \in R
  BY DEF OpToRel
<1> HIDE DEF R
<1>3. \E m \in S : \A k \in S : ~(<<k, m>> \in R)
  BY <1>1, WFMin
<1>4. PICK m \in S : \A k \in S : ~(<<k, m>> \in R)
  BY <1>3
<1>5. ASSUME NEW k \in S PROVE m <= k
  <2>1. ~(k < m) BY <1>2, <1>4
  <2>2. QED BY <2>1
<1>6. QED BY <1>5

\* FlattenSeq has a value after each of the sequences it puts together.
LEMMA FlattenLoop ==
    ASSUME NEW ss, Len(ss) \in Nat \ {0}
    PROVE  \E f : /\ f = [i \in 1..Len(ss) |-> IF i = 1 THEN ss[i] ELSE f[i - 1] \o ss[i]]
                  /\ FlattenSeq(ss) = f[Len(ss)]
<1> DEFINE Loop(f, n) == f = [i \in 1..n |-> IF i = 1 THEN ss[i] ELSE f[i - 1] \o ss[i]]
           T == {n \in Nat : ~\E f : Loop(f, n)}
<1>1. T = {}
  <2> SUFFICES ASSUME T # {} PROVE FALSE
    OBVIOUS
  <2>1. PICK m \in T : \A k \in T : m <= k
    BY LeastNat
  <2>2. CASE m = 0
    <3>1. Loop([i \in 1..0 |-> << >>], 0)
      OBVIOUS
    <3> QED
      BY <2>2, <3>1
  <2>3. CASE m # 0
    <3>0. m \in Nat
      OBVIOUS
    <3>1. m - 1 \in Nat /\ m - 1 \notin T
      <4> HIDE DEF T
      <4> QED
        BY <2>1, <2>3, <3>0
    <3>2. PICK f : Loop(f, m - 1)
      BY <3>1
    <3> DEFINE h == [i \in 1..m |-> IF i # m THEN f[i]
                                    ELSE IF i = 1 THEN ss[1] ELSE f[m - 1] \o ss[m]]
    <3>3. ASSUME NEW k \in 1..m
          PROVE  h[k] = IF k = 1 THEN ss[k] ELSE h[k - 1] \o ss[k]
      <4>1. CASE k = m /\ k # 1
        <5>1. h[k - 1] = f[m - 1]
          BY <2>3, <3>1, <4>1
        <5>2. h[k] = f[m - 1] \o ss[m]
          BY <4>1
        <5> QED
          BY <4>1, <5>1, <5>2
      <4>2. CASE k = m /\ k = 1
        BY <4>2
      <4>3. CASE k # m
        <5>1. k \in 1..(m - 1) /\ h[k] = f[k]
          BY <3>1, <4>3
        <5>2. f[k] = IF k = 1 THEN ss[k] ELSE f[k - 1] \o ss[k]
          BY <3>2, <5>1
        <5>3. k # 1 => h[k - 1] = f[k - 1]
          BY <5>1, <3>1
        <5> QED
          BY <5>1, <5>2, <5>3
      <4> QED
        BY <4>1, <4>2, <4>3
    <3>4. Loop(h, m)
      BY <3>3
    <3> QED
      BY <2>1, <3>4
  <2> QED
    BY <2>2, <2>3
<1>2. \E f : Loop(f, Len(ss))
  BY <1>1
<1> DEFINE flatten == CHOOSE f : Loop(f, Len(ss))
<1>3. Loop(flatten, Len(ss))
  BY <1>2
<1>4. FlattenSeq(ss) = flatten[Len(ss)]
  BY DEF FlattenSeq
<1> QED
  BY <1>3, <1>4

\* Flattening sequences over S gives a sequence over S.
LEMMA FlattenMembers ==
    ASSUME NEW S, NEW n \in Nat, NEW ss \in [1..n -> Seq(S)]
    PROVE  FlattenSeq(ss) \in Seq(S)
<1>0. ss \in Seq(Seq(S)) /\ Len(ss) = n /\ DOMAIN ss = 1..n
  BY SeqDef, LenProperties
<1>1. CASE n = 0
  <2>1. FlattenSeq(ss) = ss
    BY <1>0, <1>1 DEF FlattenSeq
  <2>2. ss = << >>
    BY <1>0, <1>1, EmptySeq
  <2> QED
    BY <2>1, <2>2
<1>2. CASE n # 0
  <2>1. PICK f : /\ f = [i \in 1..n |-> IF i = 1 THEN ss[i] ELSE f[i - 1] \o ss[i]]
                 /\ FlattenSeq(ss) = f[n]
    BY <1>0, <1>2, FlattenLoop
  <2> DEFINE T == {k \in Nat : k \in 1..n /\ f[k] \notin Seq(S)}
  <2>2. T = {}
    <3> SUFFICES ASSUME T # {} PROVE FALSE
      OBVIOUS
    <3>1. PICK m \in T : \A k \in T : m <= k
      BY LeastNat
    <3>2. m \in 1..n /\ f[m] = IF m = 1 THEN ss[m] ELSE f[m - 1] \o ss[m]
      BY <2>1
    <3>3. CASE m = 1
      BY <3>2, <3>3
    <3>4. CASE m # 1
      <4>1. m - 1 \in 1..n /\ m - 1 \notin T
        <5> HIDE DEF T
        <5> QED
          BY <3>1, <3>2, <3>4
      <4>2. f[m - 1] \in Seq(S) /\ ss[m] \in Seq(S)
        BY <3>2, <4>1
      <4> QED
        BY <3>2, <3>4, <4>2, ConcatProperties
    <3> QED
      BY <3>3, <3>4
  <2>3. n \in 1..n
    BY <1>2
  <2> QED
    BY <2>1, <2>2, <2>3
<1> QED
  BY <1>1, <1>2

\* What is kept of a sequence was in it.
LEMMA KeptMembers ==
    ASSUME NEW T, NEW S, NEW s \in Seq(T)
    PROVE  Kept(s, S) \in Seq(T \cap S)
<1> DEFINE ss == [k \in DOMAIN s |-> IF s[k] \in S THEN <<s[k]>> ELSE <<>>]
<1>1. DOMAIN s = 1..Len(s) /\ Len(s) \in Nat
  OBVIOUS
<1>2. ss \in [1..Len(s) -> Seq(T \cap S)]
  <2>1. ASSUME NEW k \in 1..Len(s)
        PROVE  (IF s[k] \in S THEN <<s[k]>> ELSE <<>>) \in Seq(T \cap S)
    <3>1. s[k] \in T
      BY <1>1
    <3>2. \A U : <<>> \in Seq(U) /\ \A x \in U : <<x>> \in Seq(U)
      OBVIOUS
    <3>3. s[k] \in S => s[k] \in T \cap S
      BY <3>1
    <3> QED
      BY <3>2, <3>3
  <2> QED
    BY <1>1, <2>1
<1> HIDE DEF ss
<1>3. FlattenSeq(ss) \in Seq(T \cap S)
  BY <1>1, <1>2, FlattenMembers
<1> QED
  BY <1>3 DEF Kept, ss

\* active_children invents no child.
LEMMA ActiveMembers ==
    ASSUME NEW T, NEW s \in Seq(T), NEW fails_over, NEW balanced,
           NEW c \in ActiveChildren(s, fails_over, balanced)
    PROVE  c \in Seq(T)
<1>1. PICK b \in IF balanced THEN Shuffles(s) ELSE {s} :
          c = IF fails_over \/ b = <<>> THEN b ELSE <<b[1]>>
  BY DEF ActiveChildren
<1>2. b \in Seq(T)
  <2>1. CASE balanced
    <3>1. PICK p \in [DOMAIN s -> DOMAIN s] : b = [i \in DOMAIN s |-> s[p[i]]]
      BY <1>1, <2>1 DEF Shuffles
    <3>2. DOMAIN s = 1..Len(s) /\ Len(s) \in Nat /\ \A i \in DOMAIN s : s[i] \in T
      OBVIOUS
    <3>3. b \in [1..Len(s) -> T]
      BY <3>1, <3>2
    <3> QED
      BY <3>2, <3>3, SeqDef
  <2>2. CASE ~balanced
    BY <1>1, <2>2
  <2> QED
    BY <2>1, <2>2
<1>3. b # <<>> => b[1] \in T
  BY <1>2
<1> QED
  BY <1>1, <1>2, <1>3

\* One member of each set is a member of each set.
LEMMA OneOfEachMembers ==
    ASSUME NEW T, NEW n \in Nat, NEW sets, DOMAIN sets = 1..n,
           \A k \in 1..n : sets[k] \subseteq T,
           NEW c \in OneOfEach(sets)
    PROVE  c \in [1..n -> T] /\ \A k \in 1..n : c[k] \in sets[k]
  BY DEF OneOfEach

\* the endpoints of DESCRIPTION i, and those of the descriptor
OwnEndpoints(i) == {Endpoint(a, i) : a \in Hosted(AddressesOf(i))}
AllEndpoints == UNION {OwnEndpoints(i) : i \in Descriptions}
Groups == {g \in Seq(AllEndpoints) : g # <<>>}

\* What the parser returns, level by level.
LEMMA DescriptorParts ==
    ASSUME descriptor \in DescriptorType
    PROVE  /\ descriptor.descriptions \in Seq(DescriptionType)
           /\ Descriptions = 1..Len(descriptor.descriptions)
           /\ Len(descriptor.descriptions) \in Nat
           /\ \A i \in Descriptions : descriptor.descriptions[i].lists \in Seq(AddressLists)
<1>1. descriptor.descriptions \in Seq(DescriptionType)
  BY DEF DescriptorType
<1>2. /\ Descriptions = 1..Len(descriptor.descriptions)
      /\ Len(descriptor.descriptions) \in Nat
  BY <1>1 DEF Descriptions
<1>3. \A i \in Descriptions : descriptor.descriptions[i] \in DescriptionType
  BY <1>1, <1>2
<1>4. \A x \in DescriptionType : x.lists \in Seq(AddressLists)
  BY DEF DescriptionType
<1> QED
  BY <1>1, <1>2, <1>3, <1>4

\* An address list gives endpoints of the DESCRIPTION it belongs to.
LEMMA ListEndpointsOwn ==
    ASSUME descriptor \in DescriptorType, NEW i \in Descriptions, NEW list \in ListsOf(i),
           NEW e \in ListEndpoints(i, list)
    PROVE  e \in Seq(OwnEndpoints(i))
<1> DEFINE A == Hosted(Range(list.addresses))
           hosted == Kept(list.addresses, A)
<1>1. list \in AddressLists /\ list.addresses \in Seq(Addresses)
  <2>1. descriptor.descriptions[i].lists \in Seq(AddressLists)
    BY DescriptorParts
  <2>2. list \in AddressLists
    BY <2>1 DEF ListsOf, Range
  <2> QED
    BY <2>2 DEF AddressLists
<1>2. A \subseteq Hosted(AddressesOf(i))
  BY DEF Hosted, AddressesOf
<1>3. hosted \in Seq(Addresses \cap A)
  BY <1>1, KeptMembers
<1>4. PICK c \in ActiveChildren(hosted, list.failover,
                     list.load_balance \/ descriptor.descriptions[i].load_balance) :
          e = [k \in DOMAIN c |-> Endpoint(c[k], i)]
  BY DEF ListEndpoints
<1> HIDE DEF hosted, A
<1>5. c \in Seq(Addresses \cap A)
  BY <1>3, <1>4, ActiveMembers
<1>6. DOMAIN c = 1..Len(c) /\ Len(c) \in Nat /\ \A k \in DOMAIN c : c[k] \in A
  BY <1>5
<1>7. e \in [1..Len(c) -> OwnEndpoints(i)]
  BY <1>2, <1>4, <1>6 DEF OwnEndpoints
<1> QED
  BY <1>6, <1>7, SeqDef

\* So does a DESCRIPTION.
LEMMA DescriptionEndpointsOwn ==
    ASSUME descriptor \in DescriptorType, NEW i \in Descriptions,
           NEW e \in DescriptionEndpoints(i)
    PROVE  e \in Seq(OwnEndpoints(i))
<1> DEFINE desc == descriptor.descriptions[i]
<1>1. desc.lists \in Seq(AddressLists) /\ desc.lists \in Seq(ListsOf(i))
  <2>1. desc.lists \in Seq(AddressLists)
    BY DescriptorParts
  <2>2. \A k \in 1..Len(desc.lists) : desc.lists[k] \in ListsOf(i)
    BY <2>1 DEF ListsOf, Range
  <2>3. desc.lists \in [1..Len(desc.lists) -> ListsOf(i)] /\ Len(desc.lists) \in Nat
    BY <2>1, <2>2
  <2> QED
    BY <2>1, <2>3, SeqDef
<1>2. PICK c \in ActiveChildren(desc.lists, desc.failover, desc.load_balance) :
        \E x \in OneOfEach([k \in DOMAIN c |-> ListEndpoints(i, c[k])]) : e = FlattenSeq(x)
  BY DEF DescriptionEndpoints
<1> DEFINE sets == [k \in DOMAIN c |-> ListEndpoints(i, c[k])]
<1>3. PICK x \in OneOfEach(sets) : e = FlattenSeq(x)
  BY <1>2
<1> HIDE DEF desc
<1>4. c \in Seq(ListsOf(i))
  BY <1>1, <1>2, ActiveMembers
<1>5. DOMAIN sets = 1..Len(c) /\ Len(c) \in Nat /\ \A k \in 1..Len(c) : c[k] \in ListsOf(i)
  BY <1>4
<1>6. \A k \in 1..Len(c) : sets[k] \subseteq Seq(OwnEndpoints(i))
  <2> SUFFICES ASSUME NEW k \in 1..Len(c) PROVE sets[k] \subseteq Seq(OwnEndpoints(i))
    OBVIOUS
  <2>1. sets[k] = ListEndpoints(i, c[k]) /\ c[k] \in ListsOf(i)
    BY <1>5
  <2> QED
    BY <2>1, ListEndpointsOwn
<1> HIDE DEF sets
<1>7. x \in [1..Len(c) -> Seq(OwnEndpoints(i))]
  BY <1>3, <1>5, <1>6, OneOfEachMembers
<1> QED
  BY <1>3, <1>5, <1>7, FlattenMembers

\* The candidates: groups that are not empty, of endpoints of the descriptor.
LEMMA Resolved ==
    ASSUME descriptor \in DescriptorType, NEW gs \in ResolveConnectAddresses
    PROVE  gs \in Seq(Groups)
<1> DEFINE all == [i \in Descriptions |-> i]
<1>1. all \in Seq(Descriptions)
  <2>1. Descriptions = 1..Len(descriptor.descriptions) /\ Len(descriptor.descriptions) \in Nat
    BY DescriptorParts
  <2>2. all \in [1..Len(descriptor.descriptions) -> Descriptions]
    BY <2>1
  <2> QED
    BY <2>1, <2>2, SeqDef
<1>2. PICK o \in ActiveChildren(all, descriptor.failover, descriptor.load_balance) :
        \E g \in OneOfEach([k \in DOMAIN o |-> DescriptionEndpoints(o[k])]) :
            gs = Kept(g, Range(g) \ {<<>>})
  BY DEF ResolveConnectAddresses
<1> DEFINE sets == [k \in DOMAIN o |-> DescriptionEndpoints(o[k])]
<1>3. PICK g \in OneOfEach(sets) : gs = Kept(g, Range(g) \ {<<>>})
  BY <1>2
<1> HIDE DEF all
<1>4. o \in Seq(Descriptions)
  BY <1>1, <1>2, ActiveMembers
<1>5. DOMAIN sets = 1..Len(o) /\ Len(o) \in Nat /\ \A k \in 1..Len(o) : o[k] \in Descriptions
  BY <1>4
<1>6. \A k \in 1..Len(o) : sets[k] \subseteq Seq(AllEndpoints)
  <2> SUFFICES ASSUME NEW k \in 1..Len(o), NEW e \in sets[k] PROVE e \in Seq(AllEndpoints)
    OBVIOUS
  <2>1. e \in DescriptionEndpoints(o[k]) /\ o[k] \in Descriptions
    BY <1>5
  <2>2. e \in Seq(OwnEndpoints(o[k]))
    BY <2>1, DescriptionEndpointsOwn
  <2>3. OwnEndpoints(o[k]) \subseteq AllEndpoints
    BY <2>1 DEF AllEndpoints
  <2> QED
    BY <2>2, <2>3
<1> HIDE DEF sets
<1>7. g \in [1..Len(o) -> Seq(AllEndpoints)]
  BY <1>3, <1>5, <1>6, OneOfEachMembers
<1>8. g \in Seq(Seq(AllEndpoints))
  BY <1>5, <1>7, SeqDef
<1>9. gs \in Seq(Seq(AllEndpoints) \cap (Range(g) \ {<<>>}))
  BY <1>3, <1>8, KeptMembers
<1>10. Seq(AllEndpoints) \cap (Range(g) \ {<<>>}) \subseteq Groups
  BY DEF Groups
<1> QED
  BY <1>9, <1>10

-----------------------------------------------------------------------------
(* Connect: the inductive invariant *)

LoginMessages == {"Negotiation", "DataTypes", "Token", "AuthPhaseOne", "AuthPhaseTwo"}
Exchanged == {m \in LoginMessages : m = "Token" => NeedsTcps}

(* The peer has the plan and the protocol of an address of its DESCRIPTION. *)
Genuine(p) ==
    /\ p.desc \in Descriptions /\ p.plan = p.desc
    /\ \E a \in AddressesOf(p.desc) : a.host = p.origin /\ a.tls = p.tls

(* Connect data and the REDIRECT flag come together, with their target.     *)
Obeys(p, flag, data) ==
    (flag <=> data # "") /\ p.host = (IF flag THEN data ELSE p.origin)

(* The loops, the candidates and the login. *)
ConnectShape ==
    /\ descriptor \in DescriptorType
    /\ pc \in {"check", "token", "resolve", "dial", "done"} \cup Established
    /\ result \in Results /\ (pc = "done" <=> result # "none")
    /\ groups \in Seq(Groups) /\ todo \in Seq(AllEndpoints)
    /\ pc = "dial" => todo # <<>> /\ groups # <<>>
    /\ round \in Nat /\ consulted \in BOOLEAN
    /\ resend_rounds \in 0..MaxResend + 1 /\ redirect_rounds \in 0..MaxRedirect + 1
    /\ pc # "done" => resend_rounds <= MaxResend /\ redirect_rounds <= MaxRedirect
    /\ steps \in Seq(Exchanged) /\ (pc = "login" => steps # <<>>)

(* Once a transport is there it is genuine, and the next CONNECT obeys the  *)
(* last redirect; before, there was none to obey.                           *)
PeerIsGenuine ==
    /\ pc \in Established => Genuine(peer) /\ Obeys(peer, request.flag, request.data)
    /\ pc \in {"check", "token", "resolve", "dial"} => request = OwnData

(* A token is asked for only where every address is TCPS, and a login with  *)
(* a token has a TCPS transport.                                            *)
TokensAreSafe ==
    /\ pc = "token" => NeedsTcps /\ ~TokenRefused
    /\ consulted => \A a \in Usable : a.tls
    /\ pc = "login" /\ NeedsTcps => peer.tls

(* What was sent was sent so. *)
WireIsSafe ==
    \A w \in wire :
        /\ Genuine(w.to) /\ Obeys(w.to, w.flag, w.data)
        /\ w.msg \in LoginMessages \cup {"CONNECT"}
        /\ w.msg = "Token" => w.to.tls

PhaseInv == phase \in Phases /\ PhaseIsFurthest

ConnectInv == ConnectShape /\ PeerIsGenuine /\ TokensAreSafe /\ WireIsSafe /\ PhaseInv

\* What the properties say follows from the invariant.
LEMMA ConnectInvImplies ==
    ConnectInv => StaysSecure /\ ConnectTypeOK /\ PhaseIsFurthest
<1> SUFFICES ASSUME ConnectInv PROVE StaysSecure /\ ConnectTypeOK /\ PhaseIsFurthest
  OBVIOUS
<1> USE DEF ConnectInv
<1>1. TokenStaysOnTcps
  BY DEF TokensAreSafe, WireIsSafe, TokenStaysOnTcps
<1>2. KeepsItsSecurity
  BY DEF WireIsSafe, Genuine, KeepsItsSecurity
<1>3. RedirectObeyed
  BY DEF WireIsSafe, Obeys, RedirectObeyed
<1>4. AllEndpoints \subseteq Endpoints
  BY DEF AllEndpoints, OwnEndpoints, Endpoints, Usable
<1>5. \A g \in Range(groups) : g # <<>> /\ Range(g) \subseteq Endpoints
  <2> SUFFICES ASSUME NEW g \in Range(groups) PROVE g # <<>> /\ Range(g) \subseteq Endpoints
    OBVIOUS
  <2>1. g \in Groups
    BY DEF ConnectShape, Range
  <2>2. g \in Seq(AllEndpoints) /\ g # <<>>
    BY <2>1 DEF Groups
  <2> QED
    BY <1>4, <2>2 DEF Range
<1>6. Range(todo) \subseteq Endpoints
  BY <1>4 DEF ConnectShape, Range
<1>7. ConnectTypeOK
  BY <1>5, <1>6 DEF ConnectShape, PhaseInv, ConnectTypeOK
<1> QED
  BY <1>1, <1>2, <1>3, <1>7 DEF StaysSecure, PhaseInv

-----------------------------------------------------------------------------
(* Connect: phases, and what never changes *)

\* The phases are ranked from Dns to Session.
LEMMA RankFacts ==
    /\ \A p \in Phases : Rank(p) \in 1..11 /\ Ranked[Rank(p)] = p
    /\ {"Dns", "Session", "Accept", "Wallet", "Tcp", "Tls", "Connect"} \subseteq Phases
    /\ LoginMessages \ {"Token"} \subseteq Phases
    /\ Rank("Session") = 11 /\ Ranked[11] = "Session"
<1>1. DOMAIN Ranked = 1..11
  BY DEF Ranked
<1>2. \A p \in Phases : \E i \in 1..11 : Ranked[i] = p
  BY <1>1 DEF Phases, Range
<1>3. \A p \in Phases : Rank(p) \in 1..11 /\ Ranked[Rank(p)] = p
  BY <1>1, <1>2 DEF Rank
<1>4. /\ Ranked[1] = "Dns" /\ Ranked[2] = "Wallet" /\ Ranked[3] = "Tcp" /\ Ranked[4] = "Tls"
      /\ Ranked[5] = "Connect" /\ Ranked[6] = "Accept" /\ Ranked[7] = "Negotiation"
      /\ Ranked[8] = "DataTypes" /\ Ranked[9] = "AuthPhaseOne" /\ Ranked[10] = "AuthPhaseTwo"
      /\ Ranked[11] = "Session"
  BY DEF Ranked
<1>5. \A i \in 1..11 : Ranked[i] \in Phases
  BY <1>1 DEF Phases, Range
<1>6. /\ {"Dns", "Session", "Accept", "Wallet", "Tcp", "Tls", "Connect"} \subseteq Phases
      /\ LoginMessages \ {"Token"} \subseteq Phases
  BY <1>4, <1>5 DEF LoginMessages
<1>7. Rank("Session") = 11
  <2>1. Rank("Session") \in 1..11 /\ Ranked[Rank("Session")] = "Session"
    BY <1>3, <1>6
  <2>2. ASSUME NEW i \in 1..11, Ranked[i] = "Session" PROVE i = 11
    <3>1. i = 1 \/ i = 2 \/ i = 3 \/ i = 4 \/ i = 5 \/ i = 6 \/ i = 7 \/ i = 8 \/ i = 9
          \/ i = 10 \/ i = 11
      OBVIOUS
    <3> QED
      BY <1>4, <2>2, <3>1
  <2> QED
    BY <2>1, <2>2
<1> QED
  BY <1>3, <1>4, <1>6, <1>7

\* record_connect_phase never goes back.
LEMMA FurtherFacts ==
    ASSUME NEW p \in Phases, NEW q \in Phases
    PROVE  /\ Further(p, q) \in Phases
           /\ Rank(Further(p, q)) >= Rank(p) /\ Rank(Further(p, q)) >= Rank(q)
<1>1. Rank(p) \in 1..11 /\ Rank(q) \in 1..11
  BY RankFacts
<1> QED
  BY <1>1 DEF Further

\* The phase a message of the login stands for.
LEMMA PhaseOfFacts == \A m \in LoginMessages : PhaseOf(m) \in Phases
  BY RankFacts DEF PhaseOf, LoginMessages

\* A later phase keeps what the messages sent so far ask of it.
LEMMA PhaseLater ==
    ASSUME PhaseInv, WireIsSafe, wire' = wire, phase' \in Phases, Rank(phase') >= Rank(phase),
           result' = "connected" => phase' = "Session"
    PROVE  PhaseInv'
<1>1. Rank(phase) \in 1..11 /\ Rank(phase') \in 1..11
  BY RankFacts DEF PhaseInv
<1>2. ASSUME NEW w \in wire
      PROVE  Rank(phase') >= Rank(IF w.msg = "CONNECT" THEN "Accept" ELSE PhaseOf(w.msg))
  <2> DEFINE m == IF w.msg = "CONNECT" THEN "Accept" ELSE PhaseOf(w.msg)
  <2>1. m \in Phases
    BY RankFacts, PhaseOfFacts DEF WireIsSafe
  <2>2. Rank(m) \in 1..11 /\ Rank(phase) >= Rank(m)
    BY <2>1, RankFacts DEF PhaseInv, PhaseIsFurthest
  <2> HIDE DEF m
  <2>3. Rank(phase') >= Rank(m)
    BY <1>1, <2>2
  <2> QED
    BY <2>3 DEF m
<1> QED
  BY <1>2 DEF PhaseInv, PhaseIsFurthest

\* So does a message whose phase is recorded when it is sent.
LEMMA PhaseOfSent ==
    ASSUME PhaseInv, WireIsSafe, NEW msg \in LoginMessages \cup {"CONNECT"}, Sent(msg),
           phase' \in Phases, Rank(phase') >= Rank(phase),
           Rank(phase') >= Rank(IF msg = "CONNECT" THEN "Accept" ELSE PhaseOf(msg)),
           result' = "connected" => phase' = "Session"
    PROVE  PhaseInv'
<1>1. Rank(phase) \in 1..11 /\ Rank(phase') \in 1..11
  BY RankFacts DEF PhaseInv
<1>2. ASSUME NEW w \in wire
      PROVE  Rank(phase') >= Rank(IF w.msg = "CONNECT" THEN "Accept" ELSE PhaseOf(w.msg))
  <2> DEFINE m == IF w.msg = "CONNECT" THEN "Accept" ELSE PhaseOf(w.msg)
  <2>1. m \in Phases
    BY RankFacts, PhaseOfFacts DEF WireIsSafe
  <2>2. Rank(m) \in 1..11 /\ Rank(phase) >= Rank(m)
    BY <2>1, RankFacts DEF PhaseInv, PhaseIsFurthest
  <2> HIDE DEF m
  <2>3. Rank(phase') >= Rank(m)
    BY <1>1, <2>2
  <2> QED
    BY <2>3 DEF m
<1>3. ASSUME NEW w \in wire', w \notin wire PROVE w.msg = msg
  BY <1>3 DEF Sent
<1>4. ASSUME NEW w \in wire'
      PROVE  Rank(phase') >= Rank(IF w.msg = "CONNECT" THEN "Accept" ELSE PhaseOf(w.msg))
  <2>1. CASE w \in wire
    BY <1>2, <2>1
  <2>2. CASE w \notin wire
    BY <1>3, <2>2
  <2> QED
    BY <2>1, <2>2
<1> QED
  BY <1>4 DEF PhaseInv, PhaseIsFurthest

\* The descriptor and the credential are fixed, and so is what they decide.
LEMMA InputsFixed ==
    ASSUME UNCHANGED inputs
    PROVE  /\ descriptor' = descriptor /\ credential' = credential
           /\ Groups' = Groups /\ AllEndpoints' = AllEndpoints /\ Exchanged' = Exchanged
           /\ Usable' = Usable /\ (NeedsTcps' <=> NeedsTcps) /\ (TokenRefused' <=> TokenRefused)
           /\ \A p : Genuine(p)' <=> Genuine(p)
<1>1. descriptor' = descriptor /\ credential' = credential
  BY DEF inputs
<1>2. AllEndpoints' = AllEndpoints /\ Usable' = Usable
  BY <1>1 DEF AllEndpoints, OwnEndpoints, Usable, Descriptions, AddressesOf, ListsOf
<1>3. (NeedsTcps' <=> NeedsTcps) /\ Exchanged' = Exchanged
  BY <1>1 DEF NeedsTcps, Exchanged
<1>4. TokenRefused' <=> TokenRefused
  BY <1>2, <1>3 DEF TokenRefused
<1>5. \A p : Genuine(p)' <=> Genuine(p)
  BY <1>1 DEF Genuine, Descriptions, AddressesOf, ListsOf
<1> QED
  BY <1>1, <1>2, <1>3, <1>4, <1>5 DEF Groups

\* A message goes to a genuine peer with the request in force.
LEMMA SentIsSafe ==
    ASSUME UNCHANGED inputs, WireIsSafe, NEW msg \in LoginMessages \cup {"CONNECT"}, Sent(msg),
           Genuine(peer), Obeys(peer, request.flag, request.data), msg = "Token" => peer.tls
    PROVE  WireIsSafe'
<1> DEFINE new == [msg |-> msg, to |-> peer, flag |-> request.flag, data |-> request.data]
<1>1. wire' = wire \cup {new}
  BY DEF Sent
<1>2. /\ Genuine(new.to) /\ Obeys(new.to, new.flag, new.data)
      /\ new.msg \in LoginMessages \cup {"CONNECT"} /\ (new.msg = "Token" => new.to.tls)
  OBVIOUS
<1> HIDE DEF new
<1>3. ASSUME NEW w \in wire'
      PROVE  /\ Genuine(w.to) /\ Obeys(w.to, w.flag, w.data)
             /\ w.msg \in LoginMessages \cup {"CONNECT"} /\ (w.msg = "Token" => w.to.tls)
  BY <1>1, <1>2 DEF WireIsSafe
<1>4. ASSUME NEW w \in wire' PROVE Genuine(w.to)'
  BY <1>3, InputsFixed
<1> QED
  BY <1>3, <1>4 DEF WireIsSafe, Obeys

\* Nothing is sent.
LEMMA SilentIsSafe ==
    ASSUME UNCHANGED inputs, WireIsSafe, wire' = wire
    PROVE  WireIsSafe'
<1>1. \A w \in wire : Genuine(w.to)'
  BY InputsFixed DEF WireIsSafe
<1> QED
  BY <1>1 DEF WireIsSafe, Obeys

-----------------------------------------------------------------------------
(* Connect: one lemma per action *)

\* A sequence that is not empty has a length of one or more.
LEMMA NotEmpty ==
    ASSUME NEW S, NEW s \in Seq(S), s # <<>>
    PROVE  Len(s) \in Nat /\ (Len(s) = 1 \/ Len(s) > 1)
<1>1. Len(s) \in Nat /\ Len(s) # 0
  BY EmptySeq, LenProperties
<1>2. \A n \in Nat : n # 0 => n = 1 \/ n > 1
  OBVIOUS
<1> QED
  BY <1>1, <1>2, Zenon

\* An error ends the connect wherever it is.
LEMMA FailKeeps ==
    ASSUME ConnectInv, NEW error \in Results \ {"none", "connected"}, Fail(error),
           UNCHANGED <<inputs, groups, todo, round, peer, steps, consulted>>,
           resend_rounds' \in 0..MaxResend + 1, redirect_rounds' \in 0..MaxRedirect + 1
    PROVE  ConnectShape' /\ PeerIsGenuine' /\ TokensAreSafe'
<1>0. pc' = "done" /\ result' = error
  BY DEF Fail
<1>1. ConnectShape'
  BY <1>0, InputsFixed DEF ConnectInv, ConnectShape, Established, Results
<1>2. PeerIsGenuine'
  BY <1>0 DEF PeerIsGenuine, Established
<1>3. TokensAreSafe'
  BY <1>0, InputsFixed DEF ConnectInv, TokensAreSafe
<1> QED
  BY <1>1, <1>2, <1>3

\* Recording a phase is a step forward.
LEMMA RecordKeeps ==
    ASSUME ConnectInv, UNCHANGED inputs, wire' = wire, result' # "connected",
           \/ phase' = phase
           \/ \E q \in Phases : Record(q)
    PROVE  WireIsSafe' /\ PhaseInv'
<1>1. phase \in Phases /\ Rank(phase) \in 1..11
  BY RankFacts DEF ConnectInv, PhaseInv
<1>2. phase' \in Phases /\ Rank(phase') >= Rank(phase)
  BY <1>1, FurtherFacts DEF Record
<1>3. PhaseInv'
  BY <1>2, PhaseLater DEF ConnectInv
<1> QED
  BY <1>3, SilentIsSafe DEF ConnectInv

\* A token is asked for only where every address is TCPS.
LEMMA CheckKeeps == ASSUME ConnectInv, Check PROVE ConnectInv'
<1>1. pc = "check" /\ UNCHANGED <<inputs, failover, peer, listener, steps, wire, consulted>>
  BY DEF Check
<1>2. /\ UNCHANGED <<inputs, groups, todo, round, peer, steps, consulted>>
      /\ request' = request /\ resend_rounds' = resend_rounds
      /\ redirect_rounds' = redirect_rounds /\ wire' = wire
  BY <1>1 DEF failover, listener
<1>3. /\ resend_rounds' \in 0..MaxResend + 1 /\ redirect_rounds' \in 0..MaxRedirect + 1
      /\ result = "none"
  BY <1>1, <1>2 DEF ConnectInv, ConnectShape
<1>4. phase' = phase \/ \E q \in Phases : Record(q)
  BY RankFacts DEF Check, LoginMessages
<1>5. CASE \E error \in Results \ {"none", "connected"} : Fail(error)
  <2>1. ConnectShape' /\ PeerIsGenuine' /\ TokensAreSafe'
    BY <1>2, <1>3, <1>5, FailKeeps
  <2>2. result' # "connected"
    BY <1>5 DEF Fail
  <2> QED
    BY <1>2, <1>4, <2>1, <2>2, RecordKeeps DEF ConnectInv
<1>6. CASE /\ ~TokenRefused /\ result' = result
           /\ pc' = (IF credential = "source" THEN "token" ELSE "resolve")
  <2>1. ConnectShape'
    BY <1>1, <1>2, <1>3, <1>6, InputsFixed DEF ConnectInv, ConnectShape
  <2>2. PeerIsGenuine'
    BY <1>1, <1>2, <1>6 DEF ConnectInv, PeerIsGenuine, Established, OwnData
  <2>3. TokensAreSafe'
    BY <1>2, <1>6, InputsFixed DEF ConnectInv, TokensAreSafe, NeedsTcps
  <2> QED
    BY <1>2, <1>3, <1>4, <1>6, <2>1, <2>2, <2>3, RecordKeeps DEF ConnectInv
<1> QED
  BY <1>5, <1>6 DEF Check, Results

\* The source is consulted after that check.
LEMMA GetTokenKeeps == ASSUME ConnectInv, GetToken PROVE ConnectInv'
<1>1. /\ pc = "token" /\ consulted' = TRUE
      /\ UNCHANGED <<inputs, failover, peer, listener, steps, wire>>
  BY DEF GetToken
<1>2. /\ UNCHANGED <<inputs, groups, todo, round, peer, steps>>
      /\ request' = request /\ resend_rounds' = resend_rounds
      /\ redirect_rounds' = redirect_rounds /\ wire' = wire
  BY <1>1 DEF failover, listener
<1>3. result = "none" /\ NeedsTcps /\ \A a \in Usable : a.tls
  BY <1>1 DEF ConnectInv, ConnectShape, TokensAreSafe, TokenRefused
<1>4. (pc' = "resolve" /\ result' = result) \/ (pc' = "done" /\ result' = "TokenSource")
  BY DEF GetToken, Fail
<1>5. phase' = phase \/ \E q \in Phases : Record(q)
  BY RankFacts DEF GetToken, LoginMessages
<1>6. ConnectShape'
  BY <1>1, <1>2, <1>3, <1>4, InputsFixed DEF ConnectInv, ConnectShape, Results
<1>7. PeerIsGenuine'
  BY <1>1, <1>2, <1>4 DEF ConnectInv, PeerIsGenuine, Established, OwnData
<1>8. TokensAreSafe'
  BY <1>1, <1>2, <1>3, <1>4, InputsFixed DEF TokensAreSafe
<1> QED
  BY <1>2, <1>3, <1>4, <1>5, <1>6, <1>7, <1>8, RecordKeeps DEF ConnectInv

\* The candidates come from the descriptor, and the first group is not empty.
LEMMA PrepareKeeps == ASSUME ConnectInv, Prepare PROVE ConnectInv'
<1>1. /\ pc = "resolve"
      /\ UNCHANGED <<inputs, round, tried, peer, listener, steps, wire, consulted>>
  BY DEF Prepare
<1>2. /\ UNCHANGED <<inputs, round, peer, steps, consulted>>
      /\ request' = request /\ resend_rounds' = resend_rounds
      /\ redirect_rounds' = redirect_rounds /\ wire' = wire
  BY <1>1 DEF listener
<1>3. result = "none"
  BY <1>1 DEF ConnectInv, ConnectShape
<1>4. /\ groups' \in ResolveConnectAddresses
      /\ \/ pc' = "done" /\ result' \in {"Wallet", "AllAddressesFailed"} /\ todo' = todo
         \/ pc' = "dial" /\ result' = result /\ groups' # <<>> /\ todo' = groups'[1]
  BY DEF Prepare, Fail
<1>5. phase' = phase \/ \E q \in Phases : Record(q)
  BY RankFacts DEF Prepare
<1>6. groups' \in Seq(Groups)
  BY <1>4, Resolved DEF ConnectInv, ConnectShape
<1>7. pc' = "dial" => todo' \in Groups
  BY <1>4, <1>6
<1>8. todo' \in Seq(AllEndpoints) /\ (pc' = "dial" => todo' # <<>>)
  BY <1>4, <1>7 DEF Groups, ConnectInv, ConnectShape
<1>9. ConnectShape'
  BY <1>1, <1>2, <1>3, <1>4, <1>6, <1>8, InputsFixed DEF ConnectInv, ConnectShape, Results
<1>10. PeerIsGenuine'
  BY <1>1, <1>2, <1>4 DEF ConnectInv, PeerIsGenuine, Established, OwnData
<1>11. TokensAreSafe'
  BY <1>2, <1>4, InputsFixed DEF ConnectInv, TokensAreSafe
<1> QED
  BY <1>2, <1>3, <1>4, <1>5, <1>9, <1>10, <1>11, RecordKeeps DEF ConnectInv

\* An endpoint of the descriptor makes a genuine peer.
LEMMA DialledIsGenuine ==
    ASSUME NEW e \in AllEndpoints
    PROVE  /\ Genuine(Dialled(e.host, e.tls, e.desc, e.host))
           /\ Obeys(Dialled(e.host, e.tls, e.desc, e.host), FALSE, "")
<1>1. PICK i \in Descriptions : \E a \in Hosted(AddressesOf(i)) : e = Endpoint(a, i)
  BY DEF AllEndpoints, OwnEndpoints
<1>2. PICK a \in Hosted(AddressesOf(i)) : e = Endpoint(a, i)
  BY <1>1
<1>3. e.host = a.host /\ e.tls = a.tls /\ e.desc = i /\ a \in AddressesOf(i)
  BY <1>2 DEF Endpoint, Hosted
<1> QED
  BY <1>3 DEF Genuine, Obeys, Dialled, PlanOf

\* The transport is that of the endpoint dialled; the request is the client's own.
LEMMA DialSucceedsKeeps == ASSUME ConnectInv, DialSucceeds PROVE ConnectInv'
<1>1. /\ pc = "dial" /\ pc' = "connect"
      /\ peer' = Dialled(todo[1].host, todo[1].tls, todo[1].desc, todo[1].host)
      /\ phase' = Further(phase, "Connect")
      /\ UNCHANGED <<inputs, groups, todo, round, listener, steps, result, wire, consulted>>
  BY DEF DialSucceeds
<1>2. /\ UNCHANGED <<inputs, groups, todo, round, steps, consulted>>
      /\ request' = request /\ resend_rounds' = resend_rounds
      /\ redirect_rounds' = redirect_rounds /\ wire' = wire /\ result' = result
  BY <1>1 DEF listener
<1>3. result = "none" /\ todo[1] \in AllEndpoints /\ request = OwnData
  BY <1>1 DEF ConnectInv, ConnectShape, PeerIsGenuine
<1>4. Genuine(peer') /\ Obeys(peer', FALSE, "")
  BY <1>1, <1>3, DialledIsGenuine
<1>5. ConnectShape'
  BY <1>1, <1>2, <1>3, InputsFixed DEF ConnectInv, ConnectShape, Established
<1>6. PeerIsGenuine'
  <2>1. request'.flag = FALSE /\ request'.data = ""
    BY <1>2, <1>3 DEF OwnData
  <2>2. Obeys(peer', request'.flag, request'.data)
    BY <1>4, <2>1
  <2>3. Genuine(peer)'
    BY <1>2, <1>4 DEF Genuine, Descriptions, AddressesOf, ListsOf, inputs
  <2> QED
    BY <1>1, <2>2, <2>3 DEF PeerIsGenuine, Obeys
<1>7. TokensAreSafe'
  BY <1>1, <1>2, InputsFixed DEF ConnectInv, TokensAreSafe
<1>8. Record("Connect")
  BY <1>1 DEF Record
<1> QED
  BY <1>2, <1>3, <1>5, <1>6, <1>7, <1>8, RecordKeeps, RankFacts DEF ConnectInv

\* Failover goes on with a candidate of the descriptor, or ends.
LEMMA DialFailsKeeps == ASSUME ConnectInv, DialFails PROVE ConnectInv'
<1>1. /\ pc = "dial" /\ Advance /\ (Record("Tcp") \/ Record("Tls"))
      /\ UNCHANGED <<inputs, peer, listener, steps, wire, consulted>>
  BY DEF DialFails
<1>2. /\ UNCHANGED <<inputs, peer, steps, consulted>>
      /\ request' = request /\ resend_rounds' = resend_rounds
      /\ redirect_rounds' = redirect_rounds /\ wire' = wire
  BY <1>1 DEF listener
<1>3. /\ result = "none" /\ todo \in Seq(AllEndpoints) /\ todo # <<>>
      /\ groups \in Seq(Groups) /\ groups # <<>> /\ round \in Nat
  BY <1>1 DEF ConnectInv, ConnectShape
<1>A. /\ Len(todo) \in Nat /\ (Len(todo) = 1 \/ Len(todo) > 1)
      /\ Len(groups) \in Nat /\ (Len(groups) = 1 \/ Len(groups) > 1)
  BY <1>3, NotEmpty
<1>4. /\ groups' \in Seq(Groups) /\ todo' \in Seq(AllEndpoints) /\ round' \in Nat
      /\ \/ pc' = "dial" /\ result' = "none" /\ todo' # <<>> /\ groups' # <<>>
         \/ pc' = "done" /\ result' = "AllAddressesFailed"
  <2>1. CASE Len(todo) > 1
    <3>1. /\ todo' = Tail(todo) /\ groups' = groups /\ round' = round
          /\ pc' = pc /\ result' = result
      <4>1. Len(todo) # 1
        <5>1. \A n \in Nat : n > 1 => n # 1
          OBVIOUS
        <5> QED
          BY <1>A, <2>1, <5>1, Zenon
      <4> QED
        BY <1>1, <2>1, <4>1 DEF Advance
    <3>2. Tail(todo) \in Seq(AllEndpoints) /\ Len(Tail(todo)) = Len(todo) - 1
      BY <1>3, <2>1
    <3>3. todo' # <<>>
      BY <1>3, <2>1, <3>1, <3>2
    <3> QED
      BY <1>1, <1>3, <3>1, <3>2, <3>3
  <2>2. CASE Len(todo) = 1 /\ RoundsLeft
    <3>1. /\ todo' = groups[1] /\ groups' = groups /\ round' = round + 1
          /\ pc' = pc /\ result' = result
      BY <1>1, <1>A, <2>2 DEF Advance
    <3>2. groups[1] \in Groups
      BY <1>3
    <3> QED
      BY <1>1, <1>3, <3>1, <3>2 DEF Groups
  <2>3. CASE Len(todo) = 1 /\ ~RoundsLeft /\ Len(groups) > 1
    <3>1. /\ todo' = groups[2] /\ groups' = Tail(groups) /\ round' = 0
          /\ pc' = pc /\ result' = result
      BY <1>1, <1>A, <2>3 DEF Advance
    <3>2. groups[2] \in Groups /\ Tail(groups) \in Seq(Groups)
          /\ Len(Tail(groups)) = Len(groups) - 1
      BY <1>3, <2>3
    <3>3. groups' # <<>>
      BY <1>3, <2>3, <3>1, <3>2
    <3> QED
      BY <1>1, <1>3, <3>1, <3>2, <3>3 DEF Groups
  <2>4. CASE Len(todo) = 1 /\ ~RoundsLeft /\ Len(groups) = 1
    BY <1>1, <1>3, <2>4 DEF Advance, Fail
  <2> QED
    BY <1>A, <2>1, <2>2, <2>3, <2>4
<1>5. ConnectShape'
  BY <1>1, <1>2, <1>3, <1>4, InputsFixed DEF ConnectInv, ConnectShape, Results
<1>6. PeerIsGenuine'
  BY <1>1, <1>2, <1>4 DEF ConnectInv, PeerIsGenuine, Established, OwnData
<1>7. TokensAreSafe'
  BY <1>1, <1>2, <1>4, InputsFixed DEF ConnectInv, TokensAreSafe
<1> QED
  BY <1>1, <1>2, <1>4, <1>5, <1>6, <1>7, RecordKeeps, RankFacts DEF ConnectInv

\* A certificate that does not verify ends the connect.
LEMMA DialIsRejectedKeeps == ASSUME ConnectInv, DialIsRejected PROVE ConnectInv'
<1>1. /\ pc = "dial" /\ Record("Tls") /\ Fail("Tls")
      /\ UNCHANGED <<inputs, groups, todo, round, peer, listener, steps, wire, consulted>>
  BY DEF DialIsRejected
<1>2. /\ UNCHANGED <<inputs, groups, todo, round, peer, steps, consulted>>
      /\ resend_rounds' = resend_rounds /\ redirect_rounds' = redirect_rounds /\ wire' = wire
  BY <1>1 DEF listener
<1>3. resend_rounds' \in 0..MaxResend + 1 /\ redirect_rounds' \in 0..MaxRedirect + 1
  BY <1>2 DEF ConnectInv, ConnectShape
<1>4. "Tls" \in Results \ {"none", "connected"} /\ result' # "connected"
  BY <1>1 DEF Results, Fail
<1>5. ConnectShape' /\ PeerIsGenuine' /\ TokensAreSafe'
  BY <1>1, <1>2, <1>3, <1>4, FailKeeps
<1> QED
  BY <1>1, <1>2, <1>4, <1>5, RecordKeeps, RankFacts DEF ConnectInv

\* A CONNECT goes to the peer with the request in force.
LEMMA SendConnectKeeps == ASSUME ConnectInv, SendConnect PROVE ConnectInv'
<1>1. /\ pc = "connect" /\ Sent("CONNECT") /\ Record("Accept") /\ pc' = "reply"
      /\ UNCHANGED <<inputs, failover, peer, listener, steps, result, consulted>>
  BY DEF SendConnect
<1>2. /\ UNCHANGED <<inputs, groups, todo, round, peer, steps, consulted>>
      /\ request' = request /\ resend_rounds' = resend_rounds
      /\ redirect_rounds' = redirect_rounds /\ result' = result
  BY <1>1 DEF failover, listener
<1>3. result = "none" /\ Genuine(peer) /\ Obeys(peer, request.flag, request.data)
  BY <1>1 DEF ConnectInv, ConnectShape, PeerIsGenuine, Established
<1>4. ConnectShape'
  BY <1>1, <1>2, <1>3, InputsFixed DEF ConnectInv, ConnectShape, Established
<1>5. PeerIsGenuine'
  <2>1. Genuine(peer)'
    BY <1>2, <1>3 DEF Genuine, Descriptions, AddressesOf, ListsOf, inputs
  <2> QED
    BY <1>1, <1>2, <1>3, <2>1 DEF PeerIsGenuine, Obeys
<1>6. TokensAreSafe'
  BY <1>1, <1>2, InputsFixed DEF ConnectInv, TokensAreSafe
<1>7. WireIsSafe'
  BY <1>1, <1>2, <1>3, SentIsSafe DEF ConnectInv
<1>8. PhaseInv'
  <2>1. /\ phase' \in Phases /\ Rank(phase') >= Rank(phase) /\ Rank(phase') >= Rank("Accept")
    BY <1>1, FurtherFacts, RankFacts DEF ConnectInv, PhaseInv, Record
  <2> QED
    BY <1>1, <1>2, <1>3, <2>1, PhaseOfSent DEF ConnectInv
<1> QED
  BY <1>4, <1>5, <1>6, <1>7, <1>8 DEF ConnectInv

\* A RESEND changes neither peer nor request, and not more than MaxResend follow.
LEMMA ResendKeeps == ASSUME ConnectInv, Resend PROVE ConnectInv'
<1>1. /\ pc = "reply" /\ resend_rounds' = resend_rounds + 1
      /\ UNCHANGED <<inputs, failover, peer, redirect_rounds, steps, wire, consulted>>
  BY DEF Resend
<1>2. /\ UNCHANGED <<inputs, groups, todo, round, peer, steps, consulted>>
      /\ redirect_rounds' = redirect_rounds /\ wire' = wire
  BY <1>1 DEF failover
<1>3. /\ result = "none" /\ Genuine(peer) /\ Obeys(peer, request.flag, request.data)
      /\ resend_rounds \in 0..MaxResend /\ redirect_rounds \in 0..MaxRedirect
      /\ MaxResend \in Nat /\ MaxRedirect \in Nat
  <2>1. MaxResend \in Nat /\ MaxRedirect \in Nat
    BY ConnectAssumption
  <2> QED
    BY <1>1, <2>1 DEF ConnectInv, ConnectShape, PeerIsGenuine, Established
<1>4. resend_rounds' \in 0..MaxResend + 1 /\ redirect_rounds' \in 0..MaxRedirect + 1
  BY <1>1, <1>2, <1>3
<1>5. phase' = phase \/ \E q \in Phases : Record(q)
  BY RankFacts DEF Resend
<1>6. CASE \E error \in {"ConnectResendLoop", "Tls", "UnexpectedPacket"} : Fail(error)
  <2>1. PICK error \in Results \ {"none", "connected"} : Fail(error)
    BY <1>6 DEF Results
  <2>2. ConnectShape' /\ PeerIsGenuine' /\ TokensAreSafe'
    BY <1>2, <1>4, <2>1, FailKeeps
  <2>3. result' # "connected"
    BY <2>1 DEF Fail
  <2> QED
    BY <1>2, <1>5, <2>2, <2>3, RecordKeeps DEF ConnectInv
<1>7. CASE /\ ~TooMany(resend_rounds', MaxResend) /\ pc' = "connect"
           /\ request' = request /\ result' = result
  <2>1. resend_rounds' <= MaxResend
    BY <1>1, <1>3, <1>7 DEF TooMany
  <2>2. ConnectShape'
    BY <1>1, <1>2, <1>3, <1>4, <1>7, <2>1, InputsFixed DEF ConnectInv, ConnectShape, Established
  <2>3. PeerIsGenuine'
    <3>1. Genuine(peer)'
      BY <1>2, <1>3 DEF Genuine, Descriptions, AddressesOf, ListsOf, inputs
    <3> QED
      BY <1>2, <1>3, <1>7, <3>1 DEF PeerIsGenuine, Obeys
  <2>4. TokensAreSafe'
    BY <1>2, <1>7, InputsFixed DEF ConnectInv, TokensAreSafe
  <2> QED
    BY <1>2, <1>3, <1>5, <1>7, <2>2, <2>3, <2>4, RecordKeeps DEF ConnectInv
<1> QED
  BY <1>6, <1>7 DEF Resend, AfterResend

\* A REDIRECT changes host and request together, and keeps protocol and plan.
LEMMA RedirectKeeps == ASSUME ConnectInv, Redirect PROVE ConnectInv'
<1>1. /\ pc = "reply" /\ redirect_rounds' = redirect_rounds + 1
      /\ UNCHANGED <<inputs, failover, steps, wire, consulted>>
  BY DEF Redirect, CountRedirect
<1>2. UNCHANGED <<inputs, groups, todo, round, steps, consulted>> /\ wire' = wire
  BY <1>1 DEF failover
<1>3. /\ result = "none" /\ Genuine(peer)
      /\ resend_rounds \in 0..MaxResend /\ redirect_rounds \in 0..MaxRedirect
      /\ MaxResend \in Nat /\ MaxRedirect \in Nat
  <2>1. MaxResend \in Nat /\ MaxRedirect \in Nat
    BY ConnectAssumption
  <2> QED
    BY <1>1, <2>1 DEF ConnectInv, ConnectShape, PeerIsGenuine, Established
<1>4. redirect_rounds' \in 0..MaxRedirect + 1
  BY <1>1, <1>3
<1>5. phase' = phase \/ \E q \in Phases : Record(q)
  BY RankFacts DEF Redirect
<1>6. CASE /\ \E error \in {"ConnectRedirectLoop", "RedirectUnsupported", "Io"} : Fail(error)
           /\ peer' = peer /\ resend_rounds' = resend_rounds
  <2>1. PICK error \in Results \ {"none", "connected"} : Fail(error)
    BY <1>6 DEF Results
  <2>2. ConnectShape' /\ PeerIsGenuine' /\ TokensAreSafe'
    BY <1>2, <1>3, <1>4, <1>6, <2>1, FailKeeps
  <2>3. result' # "connected"
    BY <2>1 DEF Fail
  <2> QED
    BY <1>2, <1>5, <2>2, <2>3, RecordKeeps DEF ConnectInv
<1>7. CASE \E target \in Targets :
             /\ ~TooMany(redirect_rounds', MaxRedirect)
             /\ peer' = RedirectTo(target) /\ request' = [flag |-> TRUE, data |-> target]
             /\ resend_rounds' = 0 /\ pc' = "connect" /\ result' = result
  <2>1. PICK target \in Targets :
             /\ ~TooMany(redirect_rounds', MaxRedirect)
             /\ peer' = RedirectTo(target) /\ request' = [flag |-> TRUE, data |-> target]
             /\ resend_rounds' = 0 /\ pc' = "connect" /\ result' = result
    BY <1>7
  <2>2. redirect_rounds' <= MaxRedirect
    BY <1>1, <1>3, <2>1 DEF TooMany
  <2>3. ConnectShape'
    BY <1>1, <1>2, <1>3, <1>4, <2>1, <2>2, InputsFixed DEF ConnectInv, ConnectShape, Established
  <2>4. PeerIsGenuine'
    <3>1. target # ""
      BY ConnectAssumption
    <3>2. /\ peer'.host = target /\ peer'.tls = peer.tls /\ peer'.desc = peer.desc
          /\ peer'.origin = peer.origin /\ peer'.plan = peer.desc
      BY <2>1 DEF RedirectTo, Dialled, PlanOf
    <3>3. Genuine(peer)'
      BY <1>2, <1>3, <3>2 DEF Genuine, Descriptions, AddressesOf, ListsOf, inputs
    <3>4. request'.flag = TRUE /\ request'.data = target
      BY <2>1
    <3>5. Obeys(peer, request.flag, request.data)'
      BY <3>1, <3>2, <3>4 DEF Obeys
    <3> QED
      BY <2>1, <3>3, <3>5 DEF PeerIsGenuine
  <2>5. TokensAreSafe'
    BY <1>2, <2>1, InputsFixed DEF ConnectInv, TokensAreSafe
  <2> QED
    BY <1>2, <1>3, <1>5, <2>1, <2>3, <2>4, <2>5, RecordKeeps DEF ConnectInv
<1> QED
  BY <1>6, <1>7 DEF Redirect

\* A refusal or the timeout ends the connect.
LEMMA ExchangeFailsKeeps == ASSUME ConnectInv, ExchangeFails PROVE ConnectInv'
<1>1. /\ Fail("Refused") \/ Fail("CallTimeout")
      /\ UNCHANGED <<inputs, phase, failover, peer, listener, steps, wire, consulted>>
  BY DEF ExchangeFails
<1>2. /\ UNCHANGED <<inputs, groups, todo, round, peer, steps, consulted>> /\ phase' = phase
      /\ resend_rounds' = resend_rounds /\ redirect_rounds' = redirect_rounds /\ wire' = wire
  BY <1>1 DEF failover, listener
<1>3. resend_rounds' \in 0..MaxResend + 1 /\ redirect_rounds' \in 0..MaxRedirect + 1
  BY <1>2 DEF ConnectInv, ConnectShape
<1>4. PICK error \in Results \ {"none", "connected"} : Fail(error)
  BY <1>1 DEF Results
<1>5. ConnectShape' /\ PeerIsGenuine' /\ TokensAreSafe'
  BY <1>2, <1>3, <1>4, FailKeeps
<1>6. result' # "connected"
  BY <1>4 DEF Fail
<1> QED
  BY <1>2, <1>5, <1>6, RecordKeeps DEF ConnectInv

\* Each shape of the login sends something, and a token only where one is meant.
LEMMA LoginShape ==
    ASSUME NEW fast \in BOOLEAN
    PROVE  Login(fast) \in Seq(Exchanged) /\ Login(fast) # <<>>
<1> DEFINE a == IF fast THEN <<>> ELSE <<"Negotiation", "DataTypes">>
           b == IF NeedsTcps THEN <<"Token">> ELSE <<"AuthPhaseOne", "AuthPhaseTwo">>
<1>0. /\ \A U : <<>> \in Seq(U) /\ \A x, y \in U : <<x>> \in Seq(U) /\ <<x, y>> \in Seq(U)
      /\ \A x, y : Len(<<x>>) = 1 /\ Len(<<x, y>>) = 2
  OBVIOUS
<1>1. a \in Seq(Exchanged)
  <2>1. "Negotiation" \in Exchanged /\ "DataTypes" \in Exchanged
    BY DEF Exchanged, LoginMessages
  <2> QED
    BY <1>0, <2>1
<1>2. b \in Seq(Exchanged) /\ Len(b) > 0
  <2>1. CASE NeedsTcps
    <3>1. "Token" \in Exchanged
      BY <2>1 DEF Exchanged, LoginMessages
    <3> QED
      BY <1>0, <2>1, <3>1
  <2>2. CASE ~NeedsTcps
    <3>1. "AuthPhaseOne" \in Exchanged /\ "AuthPhaseTwo" \in Exchanged
      BY DEF Exchanged, LoginMessages
    <3> QED
      BY <1>0, <2>2, <3>1
  <2> QED
    BY <2>1, <2>2
<1>3. Login(fast) = a \o b
  BY DEF Login
<1> HIDE DEF a, b
<1>4. Login(fast) \in Seq(Exchanged) /\ Len(Login(fast)) = Len(a) + Len(b)
  BY <1>1, <1>2, <1>3, ConcatProperties
<1>5. Len(Login(fast)) # 0
  BY <1>1, <1>2, <1>4
<1> QED
  BY <1>4, <1>5

\* A login that sends a token starts on TCPS only.
LEMMA AcceptKeeps == ASSUME ConnectInv, Accept PROVE ConnectInv'
<1>1. /\ pc = "reply" /\ UNCHANGED <<inputs, failover, peer, listener, wire, consulted>>
  BY DEF Accept
<1>2. /\ UNCHANGED <<inputs, groups, todo, round, peer, consulted>>
      /\ request' = request /\ resend_rounds' = resend_rounds
      /\ redirect_rounds' = redirect_rounds /\ wire' = wire
  BY <1>1 DEF failover, listener
<1>3. /\ result = "none" /\ Genuine(peer) /\ Obeys(peer, request.flag, request.data)
      /\ resend_rounds' \in 0..MaxResend + 1 /\ redirect_rounds' \in 0..MaxRedirect + 1
  BY <1>1, <1>2 DEF ConnectInv, ConnectShape, PeerIsGenuine, Established
<1>4. phase' = phase \/ \E q \in Phases : Record(q)
  BY RankFacts DEF Accept, LoginMessages
<1>5. CASE Fail("AccessTokenRequiresTcps") /\ steps' = steps
  <2>1. "AccessTokenRequiresTcps" \in Results \ {"none", "connected"} /\ result' # "connected"
    BY <1>5 DEF Results, Fail
  <2>2. ConnectShape' /\ PeerIsGenuine' /\ TokensAreSafe'
    BY <1>2, <1>3, <1>5, <2>1, FailKeeps
  <2> QED
    BY <1>2, <1>4, <2>1, <2>2, RecordKeeps DEF ConnectInv
<1>6. CASE /\ ~(NeedsTcps /\ ~peer.tls) /\ \E fast \in BOOLEAN : steps' = Login(fast)
           /\ pc' = "login" /\ result' = result
  <2>1. steps' \in Seq(Exchanged) /\ steps' # <<>>
    BY <1>6, LoginShape
  <2>2. ConnectShape'
    BY <1>1, <1>2, <1>3, <1>6, <2>1, InputsFixed DEF ConnectInv, ConnectShape, Established
  <2>3. PeerIsGenuine'
    <3>1. Genuine(peer)'
      BY <1>2, <1>3 DEF Genuine, Descriptions, AddressesOf, ListsOf, inputs
    <3> QED
      BY <1>2, <1>3, <1>6, <3>1 DEF PeerIsGenuine, Obeys
  <2>4. TokensAreSafe'
    BY <1>2, <1>6, InputsFixed DEF ConnectInv, TokensAreSafe
  <2> QED
    BY <1>2, <1>3, <1>4, <1>6, <2>2, <2>3, <2>4, RecordKeeps DEF ConnectInv
<1> QED
  BY <1>5, <1>6 DEF Accept

\* A round trip of the login sends the next message to the peer.
LEMMA LoginSends ==
    ASSUME ConnectInv, pc = "login", Sent(steps[1]), UNCHANGED inputs
    PROVE  /\ steps \in Seq(Exchanged) /\ steps # <<>> /\ steps[1] \in LoginMessages
           /\ WireIsSafe'
<1>1. steps \in Seq(Exchanged) /\ steps # <<>>
  BY DEF ConnectInv, ConnectShape
<1>2. steps[1] \in Exchanged
  BY <1>1
<1>3. steps[1] \in LoginMessages /\ (steps[1] = "Token" => peer.tls)
  BY <1>2 DEF Exchanged, ConnectInv, TokensAreSafe
<1>4. Genuine(peer) /\ Obeys(peer, request.flag, request.data)
  BY DEF ConnectInv, PeerIsGenuine, Established
<1> QED
  BY <1>1, <1>3, <1>4, SentIsSafe DEF ConnectInv

\* The last phase is no earlier than any other.
LEMMA SessionIsLast ==
    ASSUME NEW p \in Phases
    PROVE  /\ Further(p, "Session") = "Session"
           /\ \A m \in LoginMessages : Rank("Session") >= Rank(PhaseOf(m))
<1>1. Rank(p) \in 1..11 /\ Ranked[Rank(p)] = p /\ Rank("Session") = 11 /\ Ranked[11] = "Session"
  BY RankFacts
<1>2. Further(p, "Session") = "Session"
  BY <1>1 DEF Further
<1>3. \A m \in LoginMessages : Rank(PhaseOf(m)) \in 1..11
  BY PhaseOfFacts, RankFacts
<1> QED
  BY <1>1, <1>2, <1>3

\* A message of the login is sent and its phase recorded; the last opens the session.
LEMMA LoginStepKeeps == ASSUME ConnectInv, LoginStep PROVE ConnectInv'
<1>1. /\ pc = "login" /\ Sent(steps[1]) /\ steps' = Tail(steps)
      /\ UNCHANGED <<inputs, failover, peer, listener, consulted>>
  BY DEF LoginStep
<1>2. /\ UNCHANGED <<inputs, groups, todo, round, peer, consulted>>
      /\ request' = request /\ resend_rounds' = resend_rounds
      /\ redirect_rounds' = redirect_rounds
  BY <1>1 DEF failover, listener
<1>3. /\ steps \in Seq(Exchanged) /\ steps # <<>> /\ steps[1] \in LoginMessages /\ WireIsSafe'
  BY <1>1, <1>2, LoginSends
<1>4. /\ result = "none" /\ Genuine(peer) /\ Obeys(peer, request.flag, request.data)
  BY <1>1 DEF ConnectInv, ConnectShape, PeerIsGenuine, Established
<1>5. Tail(steps) \in Seq(Exchanged) /\ Len(Tail(steps)) = Len(steps) - 1
  BY <1>3
<1>6. phase \in Phases /\ PhaseOf(steps[1]) \in Phases /\ steps[1] # "CONNECT"
  BY <1>3, PhaseOfFacts DEF ConnectInv, PhaseInv, LoginMessages
<1>7. CASE Len(steps) > 1 /\ Record(PhaseOf(steps[1])) /\ pc' = pc /\ result' = result
  <2>1. steps' # <<>>
    <3>1. Len(steps') # 0
      BY <1>1, <1>3, <1>5, <1>7, LenProperties
    <3> QED
      BY <3>1
  <2>2. ConnectShape'
    BY <1>1, <1>2, <1>4, <1>5, <1>7, <2>1, InputsFixed DEF ConnectInv, ConnectShape
  <2>3. PeerIsGenuine'
    <3>1. Genuine(peer)'
      BY <1>2, <1>4 DEF Genuine, Descriptions, AddressesOf, ListsOf, inputs
    <3> QED
      BY <1>1, <1>2, <1>4, <1>7, <3>1 DEF PeerIsGenuine, Obeys
  <2>4. TokensAreSafe'
    BY <1>1, <1>2, <1>7, InputsFixed DEF ConnectInv, TokensAreSafe
  <2>5. PhaseInv'
    <3>1. /\ phase' \in Phases /\ Rank(phase') >= Rank(phase)
          /\ Rank(phase') >= Rank(PhaseOf(steps[1]))
      BY <1>6, <1>7, FurtherFacts DEF Record
    <3> QED
      BY <1>1, <1>3, <1>4, <1>6, <1>7, <3>1, PhaseOfSent DEF ConnectInv
  <2> QED
    BY <1>3, <2>2, <2>3, <2>4, <2>5 DEF ConnectInv
<1>8. CASE Record("Session") /\ pc' = "done" /\ result' = "connected"
  <2>1. ConnectShape'
    BY <1>1, <1>2, <1>5, <1>8, InputsFixed DEF ConnectInv, ConnectShape, Results, Established
  <2>2. PeerIsGenuine' /\ TokensAreSafe'
    BY <1>2, <1>8, InputsFixed DEF ConnectInv, PeerIsGenuine, TokensAreSafe, Established
  <2>3. PhaseInv'
    <3>1. phase' = "Session" /\ Rank("Session") >= Rank(PhaseOf(steps[1])) /\ phase' \in Phases
      BY <1>3, <1>6, <1>8, SessionIsLast, RankFacts DEF Record
    <3>2. Rank(phase') >= Rank(phase)
      BY <1>6, <3>1, RankFacts
    <3> QED
      BY <1>1, <1>3, <1>6, <3>1, <3>2, PhaseOfSent DEF ConnectInv
  <2> QED
    BY <1>3, <2>1, <2>2, <2>3 DEF ConnectInv
<1> QED
  BY <1>7, <1>8 DEF LoginStep

\* A login that fails has sent its message, and recorded its phase.
LEMMA LoginFailsKeeps == ASSUME ConnectInv, LoginFails PROVE ConnectInv'
<1>1. /\ pc = "login" /\ Sent(steps[1]) /\ Fail("Auth")
      /\ Record(PhaseOf(steps[1])) \/ Record("Session")
      /\ UNCHANGED <<inputs, failover, peer, listener, steps, consulted>>
  BY DEF LoginFails
<1>2. /\ UNCHANGED <<inputs, groups, todo, round, peer, steps, consulted>>
      /\ resend_rounds' = resend_rounds /\ redirect_rounds' = redirect_rounds
  BY <1>1 DEF failover, listener
<1>3. resend_rounds' \in 0..MaxResend + 1 /\ redirect_rounds' \in 0..MaxRedirect + 1
  BY <1>2 DEF ConnectInv, ConnectShape
<1>4. "Auth" \in Results \ {"none", "connected"} /\ result' # "connected"
  BY <1>1 DEF Results, Fail
<1>5. ConnectShape' /\ PeerIsGenuine' /\ TokensAreSafe'
  BY <1>1, <1>2, <1>3, <1>4, FailKeeps
<1>6. steps[1] \in LoginMessages /\ WireIsSafe'
  BY <1>1, <1>2, LoginSends
<1>7. phase \in Phases /\ PhaseOf(steps[1]) \in Phases /\ steps[1] # "CONNECT"
  BY <1>6, PhaseOfFacts DEF ConnectInv, PhaseInv, LoginMessages
<1>8. /\ phase' \in Phases /\ Rank(phase') >= Rank(phase)
      /\ Rank(phase') >= Rank(PhaseOf(steps[1]))
  <2>1. CASE Record(PhaseOf(steps[1]))
    BY <1>7, <2>1, FurtherFacts DEF Record
  <2>2. CASE Record("Session")
    <3>1. phase' = "Session" /\ Rank("Session") >= Rank(PhaseOf(steps[1])) /\ phase' \in Phases
      BY <1>6, <1>7, <2>2, SessionIsLast, RankFacts DEF Record
    <3>2. Rank(phase') >= Rank(phase)
      BY <1>7, <3>1, RankFacts
    <3> QED
      BY <3>1, <3>2
  <2> QED
    BY <1>1, <2>1, <2>2
<1>9. PhaseInv'
  BY <1>1, <1>4, <1>6, <1>7, <1>8, PhaseOfSent DEF ConnectInv
<1> QED
  BY <1>5, <1>6, <1>9 DEF ConnectInv

-----------------------------------------------------------------------------
(* Connect: the theorems *)

\* Before any I/O nothing is sent, dialled or asked for.
LEMMA ConnectInitInv == ConnectInit => ConnectInv
<1> SUFFICES ASSUME ConnectInit PROVE ConnectInv
  OBVIOUS
<1>1. ConnectShape
  <2>1. descriptor \in DescriptorType /\ MaxResend \in Nat /\ MaxRedirect \in Nat
    BY ConnectAssumption DEF ConnectInit
  <2>2. groups \in Seq(Groups) /\ todo \in Seq(AllEndpoints) /\ steps \in Seq(Exchanged)
    BY DEF ConnectInit
  <2> QED
    <3>1. /\ 0 \in 0..MaxResend + 1 /\ 0 \in 0..MaxRedirect + 1
          /\ 0 <= MaxResend /\ 0 <= MaxRedirect
      BY <2>1
    <3>2. "none" \in Results
      BY DEF Results
    <3> QED
      BY <2>1, <2>2, <3>1, <3>2 DEF ConnectInit, ConnectShape
<1>2. PeerIsGenuine /\ TokensAreSafe /\ WireIsSafe
  BY DEF ConnectInit, PeerIsGenuine, TokensAreSafe, WireIsSafe, Established
<1>3. PhaseInv
  BY RankFacts DEF ConnectInit, PhaseInv, PhaseIsFurthest
<1> QED
  BY <1>1, <1>2, <1>3 DEF ConnectInv

\* Every step of the client and of the listener keeps the invariant.
LEMMA ConnectNextInv == ConnectInv /\ [ConnectNext]_connectVars => ConnectInv'
<1> SUFFICES ASSUME ConnectInv, [ConnectNext]_connectVars PROVE ConnectInv'
  OBVIOUS
<1>1. CASE UNCHANGED connectVars
  <2>1. /\ UNCHANGED <<inputs, groups, todo, round, peer, steps, consulted>>
        /\ pc' = pc /\ result' = result /\ request' = request /\ phase' = phase
        /\ resend_rounds' = resend_rounds /\ redirect_rounds' = redirect_rounds /\ wire' = wire
    BY <1>1 DEF connectVars, failover, listener
  <2>2. ConnectShape'
    BY <2>1, InputsFixed DEF ConnectInv, ConnectShape
  <2>3. PeerIsGenuine'
    BY <2>1 DEF ConnectInv, PeerIsGenuine, Obeys, Genuine, Descriptions, AddressesOf, ListsOf,
       inputs
  <2>4. TokensAreSafe'
    BY <2>1, InputsFixed DEF ConnectInv, TokensAreSafe
  <2>5. WireIsSafe'
    BY <2>1, SilentIsSafe DEF ConnectInv
  <2>6. PhaseInv'
    BY <2>1 DEF ConnectInv, PhaseInv, PhaseIsFurthest
  <2> QED
    BY <2>2, <2>3, <2>4, <2>5, <2>6 DEF ConnectInv
<1>2. CASE ConnectNext
  BY <1>2, CheckKeeps, GetTokenKeeps, PrepareKeeps, DialSucceedsKeeps, DialFailsKeeps,
     DialIsRejectedKeeps, SendConnectKeeps, ResendKeeps, RedirectKeeps, AcceptKeeps,
     LoginStepKeeps, LoginFailsKeeps, ExchangeFailsKeeps DEF ConnectNext, ClientStep
<1> QED
  BY <1>1, <1>2

(* Connection::connect, for every descriptor and credential and whatever    *)
(* the listeners answer: a token is put on TCPS only and not even asked for *)
(* when an address could not carry it, every message travels with the       *)
(* protocol and the plan of the address dialled, through shuffles and       *)
(* failover, RESEND and REDIRECT, and a CONNECT carries the flag, the data  *)
(* and the target of the same redirect.                                     *)
THEOREM ConnectStaysSecure == ConnectSpec => []StaysSecure
<1>1. ConnectInv => StaysSecure
  BY ConnectInvImplies
<1> QED
  BY <1>1, ConnectInitInv, ConnectNextInv, PTL DEF ConnectSpec

(* The candidates dialled are endpoints of the descriptor, the loops of the *)
(* listener stay within their bounds, there is a result exactly when the    *)
(* connect is over, and the phase reported with it is never behind a        *)
(* message that was sent.                                                   *)
THEOREM PhaseReportedIsFurthest == ConnectSpec => [](ConnectTypeOK /\ PhaseIsFurthest)
<1>1. ConnectInv => ConnectTypeOK /\ PhaseIsFurthest
  BY ConnectInvImplies
<1> QED
  BY <1>1, ConnectInitInv, ConnectNextInv, PTL DEF ConnectSpec
=============================================================================
