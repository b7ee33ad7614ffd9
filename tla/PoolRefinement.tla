--------------------------- MODULE PoolRefinement ---------------------------
(***************************************************************************)
(* The pool engine implements the pool contract: its alive sessions are    *)
(* the contract's sessions, and a PooledConnection guard is ownership.     *)
(***************************************************************************)
EXTENDS PoolEngine

GuardOf(t) == IF pc[t] = "hold" THEN {lease[t]} ELSE {}

Contract ==
    INSTANCE PoolContract WITH
        Sessions <- 1..MaxConnId,
        sess     <- alive,
        owner    <- [t \in Tasks |-> GuardOf(t)],
        served   <- {t \in Tasks : pc[t] \in {"hold", "done"}},
        shut     <- ~pool.open

\* Every behaviour of the engine is one the contract allows: acquire grants an
\* open session nobody else holds, and until close no session is closed
\* under its guard.
ImplementsContract == Contract!ContractSpec
=============================================================================
