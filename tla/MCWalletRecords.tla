---------------------------- MODULE MCWalletRecords ----------------------------
(* Small instances of WalletRecords for TLC.  r pays the wallet; x spends r and *)
(* pays the change to it; y pays somebody else from r, or from the change of x. *)
EXTENDS WalletRecords

CONSTANTS r, x, y

TwoTxs == {r, x}
ThreeTxs == {r, x, y}
MCPays == {r, x}

\* x and y spend the same note.
Conflict == [t \in ThreeTxs |-> IF t = r THEN {} ELSE {r}]
\* Each transaction spends the note of the one before.
InLine == [t \in Txs |-> CASE t = r -> {} [] t = x -> {r} [] t = y -> {x}]

NoProposals == {}
OneSend == {<<x>>}
TwoSends == {<<x>>, <<y>>}
=============================================================================
