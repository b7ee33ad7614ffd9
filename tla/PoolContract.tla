---------------------------- MODULE PoolContract ----------------------------
(***************************************************************************)
(* What a connection pool promises its callers, without queues, reaper or  *)
(* locks: sessions are opened and closed, a caller holds one session to    *)
(* itself from the moment acquire returns until it gives it back, and the  *)
(* pool never closes a session under its holder unless it is shut down.    *)
(***************************************************************************)
CONSTANTS
    Tasks,      \* acquire calls
    Sessions    \* names a session may have

VARIABLES
    sess,     \* sessions open on the database
    owner,    \* the session each caller holds: a set of at most one
    served,   \* callers that were given a session at some time
    shut      \* the pool has been closed

cvars == <<sess, owner, served, shut>>

CInit ==
    /\ sess = {}
    /\ owner = [t \in Tasks |-> {}]
    /\ served = {}
    /\ shut = FALSE

Owned == UNION {owner[t] : t \in Tasks}

\* an open under way when the pool closes still finishes
OpenSession(s) ==
    /\ s \notin sess \cup Owned
    /\ sess' = sess \cup {s}
    /\ UNCHANGED <<owner, served, shut>>

\* only sessions nobody holds are closed, until the pool is shut
CloseSessions(S) ==
    /\ S \subseteq sess
    /\ shut \/ S \cap Owned = {}
    /\ sess' = sess \ S
    /\ UNCHANGED <<owner, served, shut>>

Lease(t, s) ==
    /\ ~shut /\ t \notin served
    /\ s \in sess \ Owned
    /\ owner' = [owner EXCEPT ![t] = {s}]
    /\ served' = served \cup {t}
    /\ UNCHANGED <<sess, shut>>

GiveBack(t) ==
    /\ owner[t] # {}
    /\ owner' = [owner EXCEPT ![t] = {}]
    /\ UNCHANGED <<sess, served, shut>>

\* close, or the drop of the last handle, which also closes sessions
Shut(S) ==
    /\ ~shut /\ shut' = TRUE
    /\ sess' = sess \ S
    /\ UNCHANGED <<owner, served>>

CNext ==
    \/ \E s \in Sessions : OpenSession(s)
    \/ \E S \in SUBSET sess : CloseSessions(S) \/ Shut(S)
    \/ \E t \in Tasks, s \in sess : Lease(t, s)
    \/ \E t \in Tasks : GiveBack(t)

ContractSpec == CInit /\ [][CNext]_cvars

-----------------------------------------------------------------------------
CTypeOK ==
    /\ sess \subseteq Sessions
    /\ owner \in [Tasks -> SUBSET Sessions]
    /\ served \subseteq Tasks /\ shut \in BOOLEAN

\* A session has at most one holder.
Exclusive == \A t, u \in Tasks : owner[t] \cap owner[u] # {} => t = u

\* Until the pool is shut, what a caller holds is open.
HeldIsOpen == ~shut => Owned \subseteq sess

ContractInv == CTypeOK /\ Exclusive /\ HeldIsOpen
=============================================================================
