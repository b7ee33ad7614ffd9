----------------------------- MODULE MCConnect -----------------------------
(***************************************************************************)
(* Descriptors for model checking Connect: two DESCRIPTIONs, the first with *)
(* two address lists, under every combination of FAILOVER and LOAD_BALANCE  *)
(* on the three levels; and, with failover on, mixed protocols, an          *)
(* unreadable wallet, an address without a host and a source route.         *)
(***************************************************************************)
EXTENDS Connect

Address(host, tls) == [host |-> host, tls |-> tls]
List(fails_over, balanced, addresses) ==
    [failover |-> fails_over, load_balance |-> balanced, addresses |-> addresses]
Description(fails_over, balanced, retries, wallet, lists) ==
    [failover |-> fails_over, load_balance |-> balanced, retry_count |-> retries,
     wallet |-> wallet, lists |-> lists]

FailoverDescriptors ==
    {[failover |-> f, load_balance |-> b, routable |-> TRUE, descriptions |->
        <<Description(df, db, 1, TRUE,
              <<List(lf, lb, <<Address("a1", FALSE), Address("a2", FALSE)>>),
                List(TRUE, FALSE, <<Address("a3", FALSE)>>)>>),
          Description(TRUE, FALSE, 0, TRUE,
              <<List(TRUE, FALSE, <<Address("b1", FALSE)>>)>>)>>] :
        f, b, df, db, lf, lb \in BOOLEAN}

SecurityDescriptors ==
    {[failover |-> TRUE, load_balance |-> b, routable |-> r, descriptions |->
        <<Description(TRUE, FALSE, 1, TRUE,
              <<List(TRUE, FALSE, <<Address(h, TRUE), Address("a2", t)>>)>>),
          Description(TRUE, FALSE, 0, w, <<List(TRUE, FALSE, <<Address("b1", TRUE)>>)>>)>>] :
        b, r, t, w \in BOOLEAN, h \in {"a1", ""}}

MCDescriptors == FailoverDescriptors \cup SecurityDescriptors
============================================================================
