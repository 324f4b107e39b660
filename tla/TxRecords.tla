------------------------------- MODULE TxRecords -------------------------------
(***************************************************************************)
(* The wallet's map of transaction records and the operations on it that   *)
(* the synchroniser, the mempool monitor and the sender share:             *)
(* TransactionRecordsById, and the part of TxMap that works on it.         *)
(*                                                                         *)
(* A transaction pays the wallet at most one shielded note, which carries  *)
(* the name of the transaction.  Memos, values, prices and times are left  *)
(* out.  A record map is a function on Txs; a transaction that is not in   *)
(* the map has the value NoRecord.                                         *)
(***************************************************************************)
EXTENDS Integers, FiniteSets

CONSTANTS
  Txs,        \* the transactions that concern the wallet
  NoTx,       \* the spender of a note that is not spent
  MaxReorg    \* MAX_REORG

ASSUME RecordsAssumption ==
  /\ NoTx \notin Txs
  /\ MaxReorg \in Nat \ {0}

Kinds == {"Absent", "Calculated", "Transmitted", "Mempool", "Confirmed"}

\* ConfirmationStatus; "Absent" stands for a transaction without a record.
Statuses == [kind : Kinds, height : Nat]

NoStatus == [kind |-> "Absent", height |-> 0]

Calculated(h)  == [kind |-> "Calculated", height |-> h]
Transmitted(h) == [kind |-> "Transmitted", height |-> h]
Mempool(h)     == [kind |-> "Mempool", height |-> h]
Confirmed(h)   == [kind |-> "Confirmed", height |-> h]

IsConfirmed(st) == st.kind = "Confirmed"
IsPending(st)   == st.kind \in {"Calculated", "Transmitted", "Mempool"}

\* A spend: the spending transaction and the status it is spent with.
SpendMarks == [by : Txs \cup {NoTx}, status : Statuses]

Unspent == [by |-> NoTx, status |-> NoStatus]

\* note: "pending" is a note without position and nullifier, "chained" one
\* that was found in a block.  spent: the notes whose nullifiers the record
\* lists as spent by its transaction.
Records == [status : Statuses, note : {"none", "pending", "chained"},
            spend : SpendMarks, spent : SUBSET Txs]

NoRecord == [status |-> NoStatus, note |-> "none", spend |-> Unspent, spent |-> {}]

Known(m) == {t \in Txs : m[t].status.kind # "Absent"}
-----------------------------------------------------------------------------
(* Removal *)

\* Mutant: the spends of the removed transactions are not rolled back.
InvalidateKeepSpends(m, gone) ==
  [t \in Txs |-> IF t \in gone THEN NoRecord ELSE m[t]]

\* The transactions in gone lose their records, and the notes they spent
\* are unspent again.
Invalidate(m, gone) ==
  [t \in Txs |-> IF t \in gone THEN NoRecord
                 ELSE IF m[t].spend.by \in gone THEN [m[t] EXCEPT !.spend = Unspent]
                 ELSE m[t]]

\* Mutant: the records of the invalidated block itself are kept.
InvalidateAfter(m, h) ==
  Invalidate(m, {t \in Known(m) : m[t].status.height > h})

InvalidateFrom(m, h) ==
  Invalidate(m, {t \in Known(m) : m[t].status.height >= h})

SaturatingSub(a, b) == IF a >= b THEN a - b ELSE 0

ClearExpired(m, latest) ==
  Invalidate(m, {t \in Txs : /\ IsPending(m[t].status)
                             /\ m[t].status.height < SaturatingSub(latest, MaxReorg)})
-----------------------------------------------------------------------------
(* Recording *)

\* Mutant: a confirmed record takes any status.
CreateModifyAlways(m, t, st) == [m EXCEPT ![t].status = st]

\* A confirmed record is not overwritten by a pending status.
CreateModify(m, t, st) ==
  IF IsConfirmed(m[t].status) /\ ~IsConfirmed(st) THEN m
                                                  ELSE [m EXCEPT ![t].status = st]

\* Receipt of a note by a transaction that is not in a block.
AddPendingNote(m, t, st) ==
  [CreateModify(m, t, st) EXCEPT ![t].note = IF @ = "none" THEN "pending" ELSE @]

\* Mutant: a note that is there keeps what it has.
AddNewNoteKeeps(m, t, st) ==
  [CreateModify(m, t, st) EXCEPT ![t].note = IF @ = "none" THEN "chained" ELSE @, ![t].spend = Unspent]

\* Receipt of a note found in a block; a note that is there is overwritten.
AddNewNote(m, t, st) ==
  [CreateModify(m, t, st) EXCEPT ![t].note = "chained", ![t].spend = Unspent]

\* A note can be marked as spent when its nullifier is known.
HasNullifier(m, s) == m[s].note = "chained"

\* Mutant: the spender is recorded and the note is left as it is.
FoundSpentNotMarked(m, t, st, s) ==
  IF ~HasNullifier(m, s) THEN m
  ELSE [CreateModify(m, t, st) EXCEPT ![t].spent = @ \cup {s}]

\* found_spent_nullifier: the note s is spent by t.  A source that is not
\* there is an error and changes nothing.
FoundSpent(m, t, st, s) ==
  IF ~HasNullifier(m, s) THEN m
  ELSE [CreateModify([m EXCEPT ![s].spend = [by |-> t, status |-> st]], t, st)
          EXCEPT ![t].spent = @ \cup {s}]

\* The notes that the record of t lists as spent take t and st as spender.
UpdateSpendStatuses(m, t, st) ==
  [s \in Txs |-> IF s \in m[t].spent /\ HasNullifier(m, s)
                   THEN [m[s] EXCEPT !.spend = [by |-> t, status |-> st]]
                   ELSE m[s]]

\* Mutant: a record is taken to have a note with a nullifier.
NotesForUpdatingAny(m, height) ==
  {s \in Txs : /\ IsConfirmed(m[s].status)
               /\ m[s].status.height =< height
               /\ ~IsConfirmed(m[s].spend.status)}

\* The notes whose spend a batch that starts above height still looks for.  One
\* without a nullifier would make the worker panic (todo!): see
\* ListedHaveNullifiers.
NotesForUpdating(m, height) ==
  {s \in Txs : /\ IsConfirmed(m[s].status)
               /\ m[s].status.height =< height
               /\ HasNullifier(m, s)
               /\ ~IsConfirmed(m[s].spend.status)}

UnspentNullifiers(m) == {s \in Txs : HasNullifier(m, s) /\ m[s].spend = Unspent}
=============================================================================
