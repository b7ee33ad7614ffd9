------------------------------- MODULE Retry -------------------------------
(***************************************************************************)
(* The retry executor of crates/oracledb/src/retry.rs (run_with_retry and  *)
(* run_with_retry_reconnecting) around one operation of a connection whose *)
(* acknowledgement may be lost after the server has applied it.            *)
(*                                                                         *)
(* Time is left out but for the backoff, which decide computes in the      *)
(* units of base_backoff; Duration::checked_mul fails above MaxDuration.   *)
(***************************************************************************)
EXTENDS Integers, Sequences, FiniteSets

CONSTANTS
    RetryBudgets,    \* max_retries of the policies tried
    Bases, Caps,     \* base_backoff and max_backoff of the policies tried
    MaxDuration      \* what a Duration can hold

ASSUME RetryAssumption ==
    /\ RetryBudgets \subseteq Nat /\ Bases \subseteq 0..MaxDuration
    /\ Caps \subseteq 0..MaxDuration /\ MaxDuration \in Nat

VARIABLES
    policy,      \* max, base, cap; idempotent and hook (a reconnect hook), fixed
    stage,          \* "loop", "running", "sleep", "reconnect", "done"
    attempts,    \* attempts_made: failed attempts
    err,         \* the last failure: "none", "transient", "lost", "never", "cancelled"
    backoffs,    \* the backoffs slept so far
    conn,        \* the session: "up" or "lost"
    applied,     \* server: times the operation took effect
    started,     \* attempts started
    cancelled,   \* the caller's Cx is cancelled
    outcome       \* "none", "ok" or the error handed to the caller

retryVars == <<policy, stage, attempts, err, backoffs, conn, applied, started, cancelled, outcome>>

Policies == [max : RetryBudgets, base : Bases, cap : Caps,
             idempotent : BOOLEAN, hook : BOOLEAN]
Errors == {"transient", "lost", "never"}

-----------------------------------------------------------------------------
(* The policy *)

Smaller(a, b) == IF a < b THEN a ELSE b

\* backoff_for: base * 2^(made - 1), the shift at most 31, capped
BackoffFor(p, made) ==
    LET scaled == p.base * 2^(Smaller(made - 1, 31))
    IN  IF p.base = 0 THEN 0
        ELSE Smaller(IF scaled > MaxDuration THEN p.cap ELSE scaled, p.cap)

\* Error::retry_hint
RetryHint(e) ==
    CASE e = "transient" -> "RetrySameConnection"
      [] e = "lost"      -> "ReconnectThenRetry"
      [] OTHER           -> "Never"

BugDecide(p, e, made) ==
    IF made > p.max \/ RetryHint(e) = "Never" THEN "Surface" ELSE RetryHint(e)
BugBudget(p, e, made) ==
    IF ~p.idempotent \/ made > p.max + 1 \/ RetryHint(e) = "Never" THEN "Surface" ELSE RetryHint(e)

\* decide: the idempotency gate, the budget, then the error's own hint
Decide(p, e, made) ==
    IF ~p.idempotent \/ made > p.max \/ RetryHint(e) = "Never" THEN "Surface" ELSE RetryHint(e)

-----------------------------------------------------------------------------
RetryInit ==
    /\ policy \in Policies
    /\ stage = "loop" /\ attempts = 0 /\ err = "none" /\ backoffs = << >>
    /\ conn = "up" /\ applied = 0 /\ started = 0 /\ cancelled = FALSE /\ outcome = "none"

Finish(r) == stage' = "done" /\ outcome' = r

BugStartAttempt ==
    /\ stage = "loop"
    /\ IF cancelled /\ started = 0
       THEN Finish("cancelled") /\ UNCHANGED started
       ELSE stage' = "running" /\ started' = started + 1 /\ UNCHANGED outcome
    /\ UNCHANGED <<policy, attempts, err, backoffs, conn, applied, cancelled>>

\* the head of the loop: cancellation is observed before every attempt
StartAttempt ==
    /\ stage = "loop"
    /\ IF cancelled
       THEN Finish("cancelled") /\ UNCHANGED started
       ELSE stage' = "running" /\ started' = started + 1 /\ UNCHANGED outcome
    /\ UNCHANGED <<policy, attempts, err, backoffs, conn, applied, cancelled>>

\* the operation (external) succeeds, having taken effect
Succeed ==
    /\ stage = "running" /\ conn = "up"
    /\ applied' = applied + 1
    /\ Finish("ok")
    /\ UNCHANGED <<policy, attempts, err, backoffs, conn, started, cancelled>>

\* where the loop goes after a failure
After(action) ==
    CASE action = "Surface"             -> Finish(err') /\ UNCHANGED backoffs
      [] OTHER -> /\ stage' = "sleep" /\ UNCHANGED outcome
                  /\ backoffs' = Append(backoffs, BackoffFor(policy, attempts'))

Counted(n) == n + 1

\* the operation fails, before or after the server applied it (external); a
\* lost connection stays lost, and a call on it fails
FailAttempt(e) ==
    /\ stage = "running"
    /\ conn = "lost" => e = "lost"
    /\ applied' \in IF conn = "up" /\ e # "never" THEN {applied, applied + 1} ELSE {applied}
    /\ conn' = IF e = "lost" THEN "lost" ELSE conn
    /\ err' = e
    /\ attempts' = Counted(attempts)
    /\ After(Decide(policy, e, attempts'))
    /\ UNCHANGED <<policy, started, cancelled>>

\* what follows the backoff
AfterSleep(e) == IF RetryHint(e) = "ReconnectThenRetry" THEN "reconnect" ELSE "loop"

\* backoff_sleep: cancellation wins over the timer
Sleep ==
    /\ stage = "sleep"
    /\ IF cancelled THEN Finish("cancelled")
       ELSE stage' = AfterSleep(err) /\ UNCHANGED outcome
    /\ UNCHANGED <<policy, attempts, err, backoffs, conn, applied, started, cancelled>>

\* hook.reconnect: there is none, it fails, or the session is replaced
ReconnectStep ==
    /\ stage = "reconnect"
    /\ \/ ~policy.hook /\ Finish(err) /\ UNCHANGED conn
       \/ policy.hook /\ Finish("reconnect") /\ UNCHANGED conn
       \/ policy.hook /\ stage' = "loop" /\ conn' = "up" /\ UNCHANGED outcome
    /\ UNCHANGED <<policy, attempts, err, backoffs, applied, started, cancelled>>

\* the caller cancels at any time
Cancel ==
    /\ ~cancelled /\ stage # "done"
    /\ cancelled' = TRUE
    /\ UNCHANGED <<policy, stage, attempts, err, backoffs, conn, applied, started, outcome>>

RetryNext ==
    \/ StartAttempt \/ Succeed \/ Sleep \/ ReconnectStep \/ Cancel
    \/ \E e \in Errors : FailAttempt(e)

\* an attempt ends, a sleep ends, a reconnect ends
Progress == StartAttempt \/ Succeed \/ Sleep \/ ReconnectStep \/ \E e \in Errors : FailAttempt(e)

RetrySpec == RetryInit /\ [][RetryNext]_retryVars /\ WF_retryVars(Progress)

-----------------------------------------------------------------------------
(* Properties *)

(* The loop's state has its types; attempts_made trails the attempts        *)
(* started by the one that is running.                                      *)
RetryTypeOK ==
    /\ policy \in Policies /\ stage \in {"loop", "running", "sleep", "reconnect", "done"}
    /\ started - attempts \in {0, 1} /\ applied \in 0..started
    /\ err \in Errors \cup {"none"} /\ conn \in {"up", "lost"}
    /\ outcome \in Errors \cup {"none", "ok", "cancelled", "reconnect"}

(* A non-idempotent operation takes effect at most once however its         *)
(* acknowledgements are lost ("A non-idempotent operation is NEVER          *)
(* retried"), and a reported success took effect.                           *)
AppliedOnce ==
    /\ ~policy.idempotent => applied <= 1
    /\ outcome = "ok" => applied >= 1

(* max_retries = n permits at most n + 1 executions. *)
WithinBudget == started <= policy.max + 1

(* The backoffs never shrink from one retry to the next and never exceed    *)
(* the cap: neither the doubling's overflow nor the shift's saturation      *)
(* turns a long wait into a short one.                                      *)
BackoffGrows ==
    /\ \A k \in DOMAIN backoffs : backoffs[k] <= policy.cap
    /\ \A k \in DOMAIN backoffs : k > 1 => backoffs[k - 1] <= backoffs[k]
    /\ backoffs # << >> => backoffs[1] = Smaller(policy.base, policy.cap)

(* No attempt runs on a session already known to be lost. *)
NeverOnLostSession == stage \in {"loop", "running"} => conn = "up"

(* Once the caller has cancelled, at most the attempt or reconnect in       *)
(* progress goes on: no new attempt is started.                             *)
CancelWins == [][cancelled => started' = started]_retryVars

(* The loop ends whatever fails. *)
Returns == <>(stage = "done")

-----------------------------------------------------------------------------
(* A retry never repeats an effect it must not repeat, nor runs where it    *)
(* cannot have one.                                                         *)
SafeToRepeat == AppliedOnce /\ NeverOnLostSession

(* The policy's numbers hold: executions, backoffs and their cap.           *)
PolicyHolds == RetryTypeOK /\ WithinBudget /\ BackoffGrows

(* The executor ends, and starts nothing new for a caller that has left.    *)
AlwaysStops == CancelWins /\ Returns
=============================================================================
