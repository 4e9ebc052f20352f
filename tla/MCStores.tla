------------------------------ MODULE MCStores ------------------------------
(***************************************************************************)
(* Stores on small instances.  Two sessions, one that is kept and one that *)
(* clients delete and that loses its record.  Histories pruned to nothing, *)
(* to less than one call with its results, and to more.  Two processes on  *)
(* a keyring with entries of two units; a secret that fits, an empty one,  *)
(* two that take two chunks, one of them with a wide character on the      *)
(* edge, and one that takes too many.  Two threads on a vault with two     *)
(* names and a right and a wrong password.                                 *)
(***************************************************************************)
EXTENDS Stores, TLC

StoreSessions == {"kept", "gone"}
RemovableSessions == {"gone"}
PruneLimits == {0, 2, 3, 5}

Widths == [x \in {"a", "b", "w"} |-> IF x = "w" THEN 2 ELSE 1]
LongSecrets == {<<>>, <<"b">>, <<"a", "w">>, <<"a", "b", "a">>, <<"w", "w", "a">>}
Damaged == {<<"b">>}

ASSUME StoreCases == SecretsAssumption

\* Nothing in the stores tells one client, or one name in the vault, from another.
AlikeClients ==
    Permutations(Clients) \cup Permutations(Processes) \cup Permutations(Threads)
        \cup Permutations(Keys)
=============================================================================
