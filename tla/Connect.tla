------------------------------ MODULE Connect ------------------------------
(***************************************************************************)
(* Connection::connect (crates/oracledb/src/lib.rs): the checks made before *)
(* any I/O, the endpoints a descriptor resolves to, failover and retry over *)
(* them, the CONNECT exchange with its RESEND and REDIRECT answers, and     *)
(* authentication, up to an established session.                            *)
(*                                                                          *)
(* A parsed descriptor is a record of the settings that decide control:     *)
(* FAILOVER and LOAD_BALANCE of its three levels, the protocol of every     *)
(* address, RETRY_COUNT and whether the wallet of a DESCRIPTION can be read. *)
(* A host is a string, "" an address without one. Packets are the kind of   *)
(* message; the listener and the network answer as they like.               *)
(***************************************************************************)
EXTENDS Integers, Sequences, FiniteSets, SequencesExt

CONSTANTS
    Descriptors,     \* the parsed descriptors tried
    Credentials,     \* "password", "token", "source" or "unsupported"
    Targets,         \* hosts a listener redirects to
    MaxResend,       \* MAX_CONNECT_RESEND_ROUNDS (8 in the code)
    MaxRedirect      \* MAX_CONNECT_REDIRECT_ROUNDS (8 in the code)

(* A descriptor as the parser returns it. *)
Addresses == [host : STRING, tls : BOOLEAN]
AddressLists == [failover : BOOLEAN, load_balance : BOOLEAN, addresses : Seq(Addresses)]
DescriptionType ==
    [failover : BOOLEAN, load_balance : BOOLEAN, retry_count : Nat, wallet : BOOLEAN,
     lists : Seq(AddressLists)]
DescriptorType ==
    [failover : BOOLEAN, load_balance : BOOLEAN, routable : BOOLEAN,
     descriptions : Seq(DescriptionType)]

ASSUME ConnectAssumption ==
    /\ Descriptors \subseteq DescriptorType
    /\ MaxResend \in Nat /\ MaxRedirect \in Nat
    /\ "" \notin Targets

VARIABLES
    descriptor, credential,   \* the descriptor and the options, fixed
    pc,              \* the await point
    phase,           \* connect_phase, reported with an error
    groups,          \* candidates by DESCRIPTION, the current one first
    todo,            \* candidates left in the current round
    round,           \* retry round of the current group
    peer,            \* the transport in use
    resend_rounds, redirect_rounds,
    request,         \* connect_data and packet_flags of the next CONNECT
    steps,           \* messages of the login still to be exchanged
    result,          \* "none", "connected" or the error returned
    tried,           \* history: endpoints dialled by the failover loop
    wire,            \* history: messages sent
    consulted        \* history: the token source was asked for a token

inputs == <<descriptor, credential>>
failover == <<groups, todo, round, tried>>
listener == <<resend_rounds, redirect_rounds, request>>
connectVars == <<inputs, pc, phase, failover, peer, listener, steps, result, wire, consulted>>

-----------------------------------------------------------------------------
(* The descriptor *)

Descriptions == DOMAIN descriptor.descriptions
ListsOf(i) == Range(descriptor.descriptions[i].lists)
AddressesOf(i) == UNION {Range(list.addresses) : list \in ListsOf(i)}
Hosted(A) == {a \in A : a.host # ""}
Usable == UNION {Hosted(AddressesOf(i)) : i \in Descriptions}

(* One transport endpoint keeps the index of the DESCRIPTION it came from. *)
Endpoint(a, i) == [host |-> a.host, tls |-> a.tls, desc |-> i]

(* active_children: LOAD_BALANCE shuffles the children of a level and      *)
(* FAILOVER=OFF keeps the first. All the orders a shuffle can give.        *)
Shuffles(s) ==
    {[i \in DOMAIN s |-> s[p[i]]] :
        p \in {q \in [DOMAIN s -> DOMAIN s] : \A i, j \in DOMAIN s : q[i] = q[j] => i = j}}

ActiveChildren(s, fails_over, balanced) ==
    {IF fails_over \/ c = <<>> THEN c ELSE <<c[1]>> :
        c \in IF balanced THEN Shuffles(s) ELSE {s}}

(* The members of a sequence that belong to S, in their order. *)
Kept(s, S) == FlattenSeq([k \in DOMAIN s |-> IF s[k] \in S THEN <<s[k]>> ELSE <<>>])

(* Every way to take one member of each set, in order. *)
OneOfEach(sets) ==
    {c \in [DOMAIN sets -> UNION Range(sets)] : \A k \in DOMAIN sets : c[k] \in sets[k]}

ListEndpoints(i, list) ==
    LET desc == descriptor.descriptions[i]
        hosted == Kept(list.addresses, Hosted(Range(list.addresses)))
    IN {[k \in DOMAIN c |-> Endpoint(c[k], i)] :
           c \in ActiveChildren(hosted, list.failover,
                                list.load_balance \/ desc.load_balance)}

DescriptionEndpoints(i) ==
    LET desc == descriptor.descriptions[i]
    IN UNION {{FlattenSeq(e) :
                  e \in OneOfEach([k \in DOMAIN c |-> ListEndpoints(i, c[k])])} :
                 c \in ActiveChildren(desc.lists, desc.failover, desc.load_balance)}

(* resolve_connect_addresses, already cut into one group for each          *)
(* DESCRIPTION, as chunk_by does; a DESCRIPTION without a host has none.   *)
ResolveConnectAddresses ==
    LET order == ActiveChildren([i \in Descriptions |-> i],
                                descriptor.failover, descriptor.load_balance)
    IN UNION {{Kept(g, Range(g) \ {<<>>}) :
                  g \in OneOfEach([k \in DOMAIN o |-> DescriptionEndpoints(o[k])])} :
                 o \in order}

(* prepare_description_connect_plan: what an endpoint of DESCRIPTION i is   *)
(* dialled, secured and retried with. The index stands for wallet, DN match *)
(* and SNI.                                                                 *)
BugPlanOf(i) ==
    [desc |-> 1, tls |-> \E a \in Hosted(AddressesOf(i)) : a.tls,
     retry_count |-> descriptor.descriptions[i].retry_count]

PlanOf(i) ==
    [desc |-> i, tls |-> \E a \in Hosted(AddressesOf(i)) : a.tls,
     retry_count |-> descriptor.descriptions[i].retry_count]
PlanFails(i) == PlanOf(i).tls /\ ~descriptor.descriptions[i].wallet

-----------------------------------------------------------------------------
(* The phase reported with an error is the furthest one reached. *)

Ranked == <<"Dns", "Wallet", "Tcp", "Tls", "Connect", "Accept", "Negotiation",
            "DataTypes", "AuthPhaseOne", "AuthPhaseTwo", "Session">>
Phases == Range(Ranked)
Rank(p) == CHOOSE i \in DOMAIN Ranked : Ranked[i] = p

Further(p, q) == IF Rank(q) <= Rank(p) THEN p ELSE q
Record(q) == phase' = Further(phase, q)

-----------------------------------------------------------------------------
(* Before any I/O *)

NoPeer == [host |-> "", tls |-> FALSE, origin |-> "", desc |-> 0, plan |-> 0]
OwnData == [flag |-> FALSE, data |-> ""]

ConnectInit ==
    /\ descriptor \in Descriptors /\ credential \in Credentials
    /\ pc = "check" /\ phase = "Dns" /\ result = "none"
    /\ groups = <<>> /\ todo = <<>> /\ round = 0 /\ tried = <<>>
    /\ peer = NoPeer /\ resend_rounds = 0 /\ redirect_rounds = 0
    /\ request = OwnData /\ steps = <<>> /\ wire = {} /\ consulted = FALSE

Fail(error) == pc' = "done" /\ result' = error

NeedsTcps == credential \in {"token", "source"}

(* One plaintext address anywhere in the descriptor refuses a token. *)
TokenRefused == NeedsTcps /\ \E a \in Usable : ~a.tls

(* The checks come in this order: auth mode, route, token over TCPS. *)
Check ==
    /\ pc = "check"
    /\ \/ /\ credential = "unsupported"
          /\ Fail("UnsupportedAuthMode") /\ Record("AuthPhaseOne")
       \/ /\ credential # "unsupported" /\ ~descriptor.routable
          /\ Fail("UnsupportedConnectSetting") /\ UNCHANGED phase
       \/ /\ credential # "unsupported" /\ descriptor.routable /\ TokenRefused
          /\ Fail("AccessTokenRequiresTcps") /\ Record("AuthPhaseOne")
       \/ /\ credential # "unsupported" /\ descriptor.routable /\ ~TokenRefused
          /\ pc' = (IF credential = "source" THEN "token" ELSE "resolve")
          /\ UNCHANGED <<phase, result>>
    /\ UNCHANGED <<inputs, failover, peer, listener, steps, wire, consulted>>

(* The pluggable source is asked once, before the first dial. *)
GetToken ==
    /\ pc = "token" /\ consulted' = TRUE
    /\ \/ pc' = "resolve" /\ UNCHANGED <<phase, result>>
       \/ Fail("TokenSource") /\ Record("AuthPhaseOne")
    /\ UNCHANGED <<inputs, failover, peer, listener, steps, wire>>

(* All plans are prepared before the first dial, so that an unreadable     *)
(* wallet is never taken for an address that does not answer.              *)
Prepare ==
    /\ pc = "resolve"
    /\ \E gs \in ResolveConnectAddresses :
        LET failing == {k \in DOMAIN gs : PlanFails(gs[k][1].desc)}
            reached == {k \in DOMAIN gs : \A f \in failing : k <= f}
        IN /\ groups' = gs
           /\ IF \E k \in reached : gs[k][1].tls THEN Record("Wallet") ELSE UNCHANGED phase
           /\ \/ failing # {} /\ Fail("Wallet") /\ UNCHANGED todo
              \/ failing = {} /\ gs = <<>> /\ Fail("AllAddressesFailed") /\ UNCHANGED todo
              \/ /\ failing = {} /\ gs # <<>>
                 /\ todo' = gs[1] /\ pc' = "dial" /\ UNCHANGED result
    /\ UNCHANGED <<inputs, round, tried, peer, listener, steps, wire, consulted>>

-----------------------------------------------------------------------------
(* Failover *)

(* dial: a TCPS endpoint is never dialled in plain text. *)
Dialled(host, tls, i, origin) ==
    [host |-> host, tls |-> tls, origin |-> origin, desc |-> i, plan |-> PlanOf(i).desc]

DialSucceeds ==
    /\ pc = "dial"
    /\ LET e == todo[1]
       IN /\ peer' = Dialled(e.host, e.tls, e.desc, e.host)
          /\ tried' = Append(tried, e) /\ phase' = Further(phase, "Connect")
    /\ pc' = "connect"
    /\ UNCHANGED <<inputs, groups, todo, round, listener, steps, result, wire, consulted>>

(* After a transient failure: the rest of the round, the next round of the *)
(* same DESCRIPTION, the next DESCRIPTION, or the end.                     *)
RoundsLeft == round < PlanOf(groups[1][1].desc).retry_count

BugAdvance ==
    IF Len(todo) > 1 THEN todo' = Tail(todo) /\ UNCHANGED <<groups, round, pc, result>>
    ELSE IF Len(groups) > 1
         THEN groups' = Tail(groups) /\ todo' = groups[2] /\ UNCHANGED <<round, pc, result>>
         ELSE Fail("AllAddressesFailed") /\ UNCHANGED <<groups, todo, round>>

Advance ==
    \/ /\ Len(todo) > 1
       /\ todo' = Tail(todo) /\ UNCHANGED <<groups, round, pc, result>>
    \/ /\ Len(todo) = 1 /\ RoundsLeft
       /\ todo' = groups[1] /\ round' = round + 1 /\ UNCHANGED <<groups, pc, result>>
    \/ /\ Len(todo) = 1 /\ ~RoundsLeft /\ Len(groups) > 1
       /\ groups' = Tail(groups) /\ todo' = groups[2] /\ round' = 0
       /\ UNCHANGED <<pc, result>>
    \/ /\ Len(todo) = 1 /\ ~RoundsLeft /\ Len(groups) = 1
       /\ Fail("AllAddressesFailed") /\ UNCHANGED <<groups, todo, round>>

DialFails ==
    /\ pc = "dial"
    /\ tried' = Append(tried, todo[1])
    /\ \/ Record("Tcp")
       \/ todo[1].tls /\ Record("Tls")
    /\ Advance
    /\ UNCHANGED <<inputs, peer, listener, steps, wire, consulted>>

(* A certificate that does not verify ends the connect. *)
DialIsRejected ==
    /\ pc = "dial" /\ todo[1].tls
    /\ tried' = Append(tried, todo[1]) /\ Record("Tls") /\ Fail("Tls")
    /\ UNCHANGED <<inputs, groups, todo, round, peer, listener, steps, wire, consulted>>

-----------------------------------------------------------------------------
(* The listener *)

Sent(msg) ==
    wire' = wire \cup {[msg |-> msg, to |-> peer, flag |-> request.flag, data |-> request.data]}

SendConnect ==
    /\ pc = "connect"
    /\ Sent("CONNECT") /\ Record("Accept") /\ pc' = "reply"
    /\ UNCHANGED <<inputs, failover, peer, listener, steps, result, consulted>>

TooMany(rounds, max) == rounds > max

(* RESEND: the same CONNECT again, after a new TLS handshake on the same   *)
(* socket when the listener asks for one.                                  *)
AfterResend == request

Resend ==
    /\ pc = "reply" /\ resend_rounds' = resend_rounds + 1
    /\ LET again == ~TooMany(resend_rounds', MaxResend)
       IN \/ ~again /\ Fail("ConnectResendLoop") /\ UNCHANGED <<phase, request>>
          \/ again /\ pc' = "connect" /\ request' = AfterResend /\ UNCHANGED <<phase, result>>
          \/ /\ again /\ peer.tls /\ Record("Tls")
             /\ pc' = "connect" /\ request' = AfterResend /\ UNCHANGED result
          \/ again /\ peer.tls /\ Record("Tls") /\ Fail("Tls") /\ UNCHANGED request
          \/ again /\ ~peer.tls /\ Fail("UnexpectedPacket") /\ UNCHANGED <<phase, request>>
    /\ UNCHANGED <<inputs, failover, peer, redirect_rounds, steps, wire, consulted>>

(* parse_redirect_target: the protocol of the target must be the one the   *)
(* session started with.                                                   *)
RedirectTo(target) == Dialled(target, peer.tls, peer.desc, peer.origin)
SameProtocol(tls) == tls = peer.tls

BugCountRedirect == UNCHANGED redirect_rounds
CountRedirect == redirect_rounds' = redirect_rounds + 1

Redirect ==
    /\ pc = "reply"
    /\ CountRedirect
    /\ LET follow == ~TooMany(redirect_rounds', MaxRedirect)
       IN \/ /\ ~follow /\ Fail("ConnectRedirectLoop")
             /\ UNCHANGED <<phase, peer, request, resend_rounds>>
          \/ \E target \in Targets, tls \in BOOLEAN :
               /\ follow
               /\ \/ /\ ~SameProtocol(tls) /\ Fail("RedirectUnsupported")
                     /\ UNCHANGED <<phase, peer, request, resend_rounds>>
                  \/ /\ SameProtocol(tls) /\ Record("Tcp") /\ Fail("Io")
                     /\ UNCHANGED <<peer, request, resend_rounds>>
                  \/ /\ SameProtocol(tls) /\ Record(IF tls THEN "Tls" ELSE "Tcp")
                     /\ peer' = RedirectTo(target)
                     /\ request' = [flag |-> TRUE, data |-> target]
                     /\ resend_rounds' = 0 /\ pc' = "connect" /\ UNCHANGED result
    /\ UNCHANGED <<inputs, failover, steps, wire, consulted>>

(* REFUSE, an unexpected packet, redirect data that do not parse, a closed *)
(* socket, or the connect timeout over the whole exchange.                 *)
Established == {"connect", "reply", "login"}
ExchangeFails ==
    /\ pc \in Established
    /\ Fail("Refused") \/ Fail("CallTimeout")
    /\ UNCHANGED <<inputs, phase, failover, peer, listener, steps, wire, consulted>>

-----------------------------------------------------------------------------
(* Login *)

(* The round trips of the four shapes: token or password, the fast bundle  *)
(* or the classic negotiation.                                             *)
Login(fast) ==
    (IF fast THEN <<>> ELSE <<"Negotiation", "DataTypes">>)
    \o (IF NeedsTcps THEN <<"Token">> ELSE <<"AuthPhaseOne", "AuthPhaseTwo">>)
PhaseOf(step) == IF step = "Token" THEN "AuthPhaseTwo" ELSE step

Accept ==
    /\ pc = "reply"
    /\ \/ NeedsTcps /\ ~peer.tls /\ Fail("AccessTokenRequiresTcps") /\ UNCHANGED <<phase, steps>>
       \/ /\ ~(NeedsTcps /\ ~peer.tls)
          /\ \E fast \in BOOLEAN :
               /\ steps' = Login(fast)
               /\ IF fast THEN Record("AuthPhaseTwo") ELSE UNCHANGED phase
          /\ pc' = "login" /\ UNCHANGED result
    /\ UNCHANGED <<inputs, failover, peer, listener, wire, consulted>>

(* One round trip; the last answer carries the session. *)
LoginStep ==
    /\ pc = "login"
    /\ Sent(steps[1]) /\ steps' = Tail(steps)
    /\ \/ /\ Len(steps) > 1
          /\ Record(PhaseOf(steps[1])) /\ UNCHANGED <<pc, result>>
       \/ /\ Len(steps) = 1
          /\ Record("Session") /\ pc' = "done" /\ result' = "connected"
    /\ UNCHANGED <<inputs, failover, peer, listener, consulted>>

(* A refusal, an answer that does not verify or, once the phase is Session, *)
(* a session field that is missing from the last answer.                   *)
LoginFails ==
    /\ pc = "login" /\ Sent(steps[1]) /\ Fail("Auth")
    /\ Record(PhaseOf(steps[1])) \/ (Len(steps) = 1 /\ Record("Session"))
    /\ UNCHANGED <<inputs, failover, peer, listener, steps, consulted>>

-----------------------------------------------------------------------------
ClientStep ==
    \/ Check \/ GetToken \/ Prepare
    \/ DialSucceeds \/ DialFails \/ DialIsRejected
    \/ SendConnect \/ Resend \/ Redirect \/ Accept
    \/ LoginStep \/ LoginFails

ConnectNext == ClientStep \/ ExchangeFails

(* Dials are bounded by the transport timeout and the listener always      *)
(* answers something; that the whole exchange is timed is not assumed.     *)
ConnectSpec == ConnectInit /\ [][ConnectNext]_connectVars /\ WF_connectVars(ClientStep)

-----------------------------------------------------------------------------
(* Properties *)

Results == {"none", "connected", "UnsupportedAuthMode", "UnsupportedConnectSetting",
            "AccessTokenRequiresTcps", "TokenSource", "Wallet", "AllAddressesFailed",
            "Tls", "ConnectResendLoop", "ConnectRedirectLoop", "UnexpectedPacket",
            "RedirectUnsupported", "Io", "Refused", "CallTimeout", "Auth"}

Endpoints == {Endpoint(a, i) : a \in Usable, i \in Descriptions}

(* The loop counters stay within the bound that ends the loop, the         *)
(* candidate dialled is one of the descriptor's, and a connect has a       *)
(* result exactly when it is over.                                         *)
ConnectTypeOK ==
    /\ pc \in {"check", "token", "resolve", "dial", "done"} \cup Established
    /\ phase \in Phases /\ result \in Results
    /\ pc = "done" <=> result # "none"
    /\ \A g \in Range(groups) : g # <<>> /\ Range(g) \subseteq Endpoints
    /\ Range(todo) \subseteq Endpoints /\ (pc = "dial" => todo # <<>>)
    /\ round \in Nat /\ consulted \in BOOLEAN
    /\ resend_rounds \in 0..MaxResend + 1 /\ redirect_rounds \in 0..MaxRedirect + 1
    /\ pc = "login" => steps # <<>>

(* An access token is never put on a plaintext transport, whatever the     *)
(* listener redirects to, and a token source is not even consulted for a   *)
(* descriptor one of whose addresses could not carry the token safely.     *)
TokenStaysOnTcps ==
    /\ \A w \in wire : w.msg = "Token" => w.to.tls
    /\ consulted => \A a \in Usable : a.tls

(* No DESCRIPTION inherits another's security settings, and no connect is  *)
(* downgraded: every message travels with the protocol of the address that *)
(* was dialled and with the plan and service of the DESCRIPTION that owns  *)
(* it, through shuffles, failover, renegotiations and redirects.           *)
KeepsItsSecurity ==
    \A w \in wire :
        /\ w.to.plan = w.to.desc /\ w.to.desc \in Descriptions
        /\ \E a \in AddressesOf(w.to.desc) : a.host = w.to.origin /\ a.tls = w.to.tls

(* A CONNECT carries the REDIRECT flag exactly when it carries connect     *)
(* data supplied by a redirect, and goes to the target that came with      *)
(* those data, however RESEND and REDIRECT answers interleave.             *)
RedirectObeyed ==
    \A w \in wire :
        /\ w.flag <=> w.data # ""
        /\ w.to.host = (IF w.flag THEN w.data ELSE w.to.origin)

Hosts(A) == {a.host : a \in A}
Tried == {e.host : e \in Range(tried)}
Touched(i) == Hosts(AddressesOf(i)) \cap Tried # {}
ListHosts(list) == Hosts(Hosted(Range(list.addresses)))
TouchedLists(i) == {list \in ListsOf(i) : ListHosts(list) \cap Tried # {}}
Owner(host) == CHOOSE i \in Descriptions : \E a \in AddressesOf(i) : a.host = host
Attempts(host) == Cardinality({k \in DOMAIN tried : tried[k].host = host})

(* FAILOVER=OFF confines the attempts to one child of its level, and the   *)
(* endpoints of a DESCRIPTION are tried together, in the descriptor's order *)
(* unless the list is balanced.                                            *)
StaysWithinFailover ==
    /\ descriptor.failover \/ Cardinality({i \in Descriptions : Touched(i)}) <= 1
    /\ \A i \in Descriptions :
        /\ descriptor.descriptions[i].failover \/ Cardinality(TouchedLists(i)) <= 1
        /\ \A list \in TouchedLists(i) :
               list.failover \/ Cardinality(ListHosts(list) \cap Tried) = 1
    /\ \A j, k \in DOMAIN tried : j < k =>
        /\ ~descriptor.load_balance => tried[j].desc <= tried[k].desc
        /\ tried[j].desc = tried[k].desc =>
               \A m \in j..k : tried[m].desc = tried[j].desc

(* When connect reports that all addresses failed, every endpoint failover *)
(* allows was tried, each RETRY_COUNT + 1 times with the count of the      *)
(* DESCRIPTION that owns it.                                               *)
GivesUpLast ==
    result = "AllAddressesFailed" =>
        /\ \A i \in Descriptions :
            LET desc == descriptor.descriptions[i]
                hosted == {list \in ListsOf(i) : ListHosts(list) # {}}
            IN /\ descriptor.failover /\ hosted # {}
                     /\ (desc.failover \/ hosted = ListsOf(i))
                     => Touched(i)
               /\ Touched(i) /\ desc.failover => TouchedLists(i) = hosted
               /\ \A list \in TouchedLists(i) :
                     list.failover => ListHosts(list) \subseteq Tried
        /\ \A h \in Tried : Attempts(h) = descriptor.descriptions[Owner(h)].retry_count + 1

(* "Furthest phase reached": the phase reported with an error is never     *)
(* behind a message that was sent, also when a redirect dials again.       *)
PhaseIsFurthest ==
    /\ \A w \in wire :
        Rank(phase) >= Rank(IF w.msg = "CONNECT" THEN "Accept" ELSE PhaseOf(w.msg))
    /\ result = "connected" => phase = "Session"

(* A listener that never stops asking for resends or redirects cannot keep *)
(* a connect from returning, even without the connect timeout.             *)
ConnectReturns == <>(pc = "done")

-----------------------------------------------------------------------------
(* Whatever the listeners answer, what leaves the client goes where and as  *)
(* the descriptor allows.                                                   *)
StaysSecure == TokenStaysOnTcps /\ KeepsItsSecurity /\ RedirectObeyed

(* Exactly the endpoints FAILOVER, LOAD_BALANCE and RETRY_COUNT call for    *)
(* are tried, and a failure reports how far the connect came.               *)
FailoverExact ==
    ConnectTypeOK /\ StaysWithinFailover /\ GivesUpLast /\ PhaseIsFurthest
============================================================================
