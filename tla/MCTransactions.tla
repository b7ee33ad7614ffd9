--------------------------- MODULE MCTransactions ---------------------------
(***************************************************************************)
(* Transactions for TLC.  Borrowers, sessionless ids and branches are only *)
(* compared for equality, never ordered or named, so permuting each set    *)
(* maps behaviours to behaviours; the properties are invariants and an     *)
(* action property, which a permutation of these sets leaves alone.        *)
(***************************************************************************)
EXTENDS Transactions, TLC

Alike == Permutations(Borrowers) \cup Permutations(Ids) \cup Permutations(Xids)
=============================================================================
