------------------------------ MODULE MCKeyStore ------------------------------
(* Small instances of KeyStore for TLC. *)
EXTENDS KeyStore

CONSTANTS c1, c2

MCCallers == {c1, c2}
MCWanted == {Pools, {"transparent"}, {"sapling"}}
MCSymmetry == Permutations(MCCallers)

Viewing(S) == [p \in Pools |-> IF p \in S THEN "view" ELSE "none"]
Spending == [p \in Pools |-> "spend"]
MCStores == {Spending, Viewing({"orchard"}), Viewing({"orchard", "sapling", "transparent"})}

OldFile(version, ks, a, seed) ==
  [version |-> version, keys |-> ks, tkey |-> IF version <= 2 THEN <<a, 0>> ELSE <<a>>,
   account |-> a, seed |-> seed, trees |-> CanSpend(ks), rejections |-> 0, selections |-> <<7, 3>>]

\* Spending wallets of capability versions 1 and 2, with their seed phrase.
SpendFiles == {OldFile(v, Spending, 0, TRUE) : v \in {1, 2}}

\* Wallets of version 3, viewing wallets of version 2 with all keys and without a
\* transparent one, one with mixed keys, one whose spending keys are not complete,
\* one of another account, and one with a seed phrase but no keys and no addresses.
OtherFiles ==
  {OldFile(3, Spending, 1, TRUE), OldFile(3, Viewing(Pools), 0, FALSE),
   OldFile(2, Viewing(Pools), 0, FALSE), OldFile(2, Viewing({"orchard", "sapling"}), 0, FALSE),
   OldFile(2, [Viewing(Pools) EXCEPT !["transparent"] = "spend"], 0, TRUE),
   OldFile(2, [Spending EXCEPT !["orchard"] = "none"], 0, FALSE),
   OldFile(2, Spending, 1, TRUE),
   [OldFile(2, Viewing({}), 0, TRUE) EXCEPT !.selections = <<>>]}

MCLegacyFiles == SpendFiles \cup OtherFiles

MCRequests == {[uas |-> 4, tex |-> 1], [uas |-> 1, tex |-> 2], [uas |-> 5, tex |-> 0]}
=============================================================================
