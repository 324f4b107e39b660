------------------------------ MODULE MCSession ------------------------------
(* Small instances of Session for TLC. *)
EXTENDS Session

L(cmd, args) == [cmd |-> cmd, args |-> args, exact |-> FALSE]
QuitLine == [cmd |-> "quit", args |-> 0, exact |-> TRUE]

\* rescan clears as clear does, and then syncs.
MCLines == {QuitLine, L("quit", 0), L("sync", 0), L("rescan", 0), L("delete", 0),
            L("interrupt_sync_after_batch", 1), L("spendablebalance", 0), L("quicksend", 1)}

Plain == [seed |-> FALSE, viewkey |-> FALSE, birthday |-> NoBirthday, chain |-> "none",
          regtest |-> FALSE, server |-> TRUE, command |-> "none", args |-> 0]
FromSeed(b) == [Plain EXCEPT !.seed = TRUE, !.birthday = b]
\* A seed with its birthday, a seed and a viewing key, a seed without birthday, a
\* single command, and nothing.
MCOptions == {Plain, FromSeed(2), [FromSeed(2) EXCEPT !.viewkey = TRUE], FromSeed(NoBirthday),
              [Plain EXCEPT !.command = "new", !.args = 1]}
=============================================================================
