------------------------------ MODULE MCCalls ------------------------------
(***************************************************************************)
(* Connect and Retry for TLC.  A connect and a retried operation are calls *)
(* that follow each other and share nothing but the session that the one   *)
(* opens and the other runs on, so a behaviour is one of the two, and the  *)
(* other is a call that has ended.                                         *)
(***************************************************************************)
EXTENDS MCConnect, Retry

\* an operation that was not started: its caller had cancelled
Uncalled ==
    /\ policy = CHOOSE p \in Policies : TRUE
    /\ stage = "done" /\ attempts = 0 /\ err = "none" /\ backoffs = << >>
    /\ conn = "up" /\ applied = 0 /\ started = 0 /\ cancelled = TRUE
    /\ outcome = "cancelled"

\* a connect that was refused before any I/O
Unconnected ==
    /\ descriptor = CHOOSE d \in Descriptors : TRUE
    /\ credential = CHOOSE c \in Credentials : TRUE
    /\ pc = "done" /\ phase = "Dns" /\ result = "UnsupportedAuthMode"
    /\ groups = <<>> /\ todo = <<>> /\ round = 0 /\ tried = <<>>
    /\ peer = NoPeer /\ resend_rounds = 0 /\ redirect_rounds = 0
    /\ request = OwnData /\ steps = <<>> /\ wire = {} /\ consulted = FALSE

CallsInit == (ConnectInit /\ Uncalled) \/ (RetryInit /\ Unconnected)

CallsNext ==
    \/ ConnectNext /\ UNCHANGED retryVars
    \/ RetryNext /\ UNCHANGED connectVars

CallsSpec ==
    /\ CallsInit /\ [][CallsNext]_<<connectVars, retryVars>>
    /\ WF_connectVars(ClientStep /\ UNCHANGED retryVars)
    /\ WF_retryVars(Progress /\ UNCHANGED connectVars)
============================================================================
