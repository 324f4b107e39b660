----------------------------- MODULE LedgerRecords -----------------------------
(***************************************************************************)
(* What the wallet records of a transaction: its notes and coins with      *)
(* their spends and memos, the nullifiers it spent and its outgoing data.  *)
(* TxRecords has the statuses of the records and their removal; here are   *)
(* the contents that balances, fees and histories are computed from, and   *)
(* the operations of TransactionRecordsById, TxMap and TransactionContext  *)
(* that write them.                                                        *)
(*                                                                         *)
(* Outs[t] are the outputs of t by number: pool, receiver (Self for every  *)
(* address of the wallet), the unified address the receiver was taken      *)
(* from, value and memo; a "zingo" memo is the wallet's own, and lists the *)
(* unified addresses t pays.  Ins[t] are the outputs of the wallet that t  *)
(* spends: only the wallet's own transactions have any, and only of these  *)
(* its outgoing viewing key opens the outputs to others.                   *)
(***************************************************************************)
EXTENDS Integers, FiniteSets, FiniteSetsExt, Functions

CONSTANTS Txs, NoTx, MaxReorg,
  Outs, Ins,
  Self,       \* the receiver that stands for the wallet's addresses
  Donation    \* ZENNIES_FOR_ZINGO_DONATION_ADDRESS, a unified address

S == INSTANCE TxRecords

Pools == {"orchard", "sapling", "transparent"}
Shielded == Pools \ {"transparent"}

\* An output is named by its transaction and its number.
OutIds == UNION {{t} \X DOMAIN Outs[t] : t \in Txs}
Out(o) == Outs[o[1]][o[2]]
Value(o) == Out(o).value
Total(os) == SumFunction([o \in os |-> Value(o)])

NotesTo(t)  == {n \in DOMAIN Outs[t] : Outs[t][n].to = Self /\ Outs[t][n].pool \in Shielded}
CoinsTo(t)  == {n \in DOMAIN Outs[t] : Outs[t][n].to = Self /\ Outs[t][n].pool = "transparent"}
ToOthers(t) == {n \in DOMAIN Outs[t] : Outs[t][n].to # Self}

\* TransactionRecord.  A note has its nullifier and position once it was found
\* in a block; old files have notes without their index in the transaction.
\* The memo is "unknown" until the full transaction was read.  outgoing gives
\* the address that is shown for an output to somebody else.
NoRecord == [status |-> S!NoStatus, notes |-> << >>, coins |-> << >>, listed |-> {},
             tspent |-> 0, outgoing |-> << >>]

\* An output that m has as a note, and one it has as a coin.
HasNote(m, o) == o[2] \in DOMAIN m[o[1]].notes
HasCoin(m, o) == o[2] \in DOMAIN m[o[1]].coins
HasNullifier(m, o) == HasNote(m, o) /\ m[o[1]].notes[o[2]].nf
SpendOf(m, o) == IF HasNote(m, o) THEN m[o[1]].notes[o[2]].spend ELSE m[o[1]].coins[o[2]]
IsUnspent(m, o) == SpendOf(m, o).by = NoTx
Held(m) == UNION {{t} \X (DOMAIN m[t].notes \cup DOMAIN m[t].coins) : t \in Txs}
-----------------------------------------------------------------------------
(* What a transaction spent, and its kind *)

\* get_sapling_notes_spent_in_tx, get_orchard_notes_spent_in_tx
NotesSpentIn(m, t) == {o \in m[t].listed : HasNullifier(m, o)}

\* get_transparent_coins_spent_in_tx
CoinsSpentIn(m, t) == {o \in Held(m) : HasCoin(m, o) /\ m[o[1]].coins[o[2]].by = t}

\* transaction_kind, in the order of its tests.  A single donation leaves a
\* transaction to self what it is.
Kind(m, t) ==
  LET coins == CoinsSpentIn(m, t)
      notes == NotesSpentIn(m, t)
      sent  == DOMAIN m[t].outgoing
      donates == Cardinality(sent) = 1 /\ \E n \in sent : m[t].outgoing[n] = Donation
  IN IF sent = {} /\ coins = {} /\ notes = {} THEN "received"
     ELSE IF sent = {} /\ notes = {} /\ DOMAIN m[t].notes # {} THEN "shield"
     ELSE IF sent = {} \/ donates THEN "send-to-self" ELSE "send"
-----------------------------------------------------------------------------
(* Removal *)

\* Mutant: the spends of coins are not rolled back.
InvalidateNotesOnly(m, gone) ==
  [t \in Txs |->
     IF t \in gone THEN NoRecord
     ELSE [m[t] EXCEPT !.notes = [n \in DOMAIN @ |-> IF @[n].spend.by \in gone
                                                       THEN [@[n] EXCEPT !.spend = S!Unspent]
                                                       ELSE @[n]]]]

\* Mutant: the spends of notes are not rolled back.
InvalidateCoinsOnly(m, gone) ==
  [t \in Txs |->
     IF t \in gone THEN NoRecord
     ELSE [m[t] EXCEPT !.coins = [n \in DOMAIN @ |-> IF @[n].by \in gone THEN S!Unspent ELSE @[n]]]]

\* invalidate_transactions: notes and coins spent in gone are unspent again.
Invalidate(m, gone) ==
  [t \in Txs |->
     IF t \in gone THEN NoRecord
     ELSE [m[t] EXCEPT !.notes = [n \in DOMAIN @ |-> IF @[n].spend.by \in gone
                                                       THEN [@[n] EXCEPT !.spend = S!Unspent]
                                                       ELSE @[n]],
                       !.coins = [n \in DOMAIN @ |-> IF @[n].by \in gone THEN S!Unspent ELSE @[n]]]]

InvalidateFrom(m, h) == Invalidate(m, {t \in S!Known(m) : m[t].status.height >= h})

\* clear_expired_mempool
ClearExpired(m, latest) ==
  Invalidate(m, {t \in Txs : /\ S!IsPending(m[t].status)
                             /\ m[t].status.height < S!SaturatingSub(latest, MaxReorg)})
-----------------------------------------------------------------------------
(* Notes found in blocks, and their spends *)

\* add_new_note: a note that is there is replaced as a whole; a new one makes
\* the ones of its pool go that have no nullifier.
AddNewNote(m, t, st, n) ==
  LET q    == S!CreateModify(m, t, st)
      old  == q[t].notes
      stay == {k \in DOMAIN old : \/ n \in DOMAIN old
                                  \/ old[k].nf
                                  \/ Outs[t][k].pool # Outs[t][n].pool}
      new  == [nf |-> TRUE, index |-> TRUE, memo |-> "unknown", spend |-> S!Unspent]
  IN [q EXCEPT ![t].notes = [k \in stay \cup {n} |-> IF k = n THEN new ELSE old[k]]]

\* found_spent_nullifier for the notes in os: each is marked, the spender gets
\* a record, and lists each nullifier once.
FoundSpent(m, t, st, os) ==
  LET marked == [u \in Txs |->
                   [m[u] EXCEPT !.notes =
                      [n \in DOMAIN @ |-> IF <<u, n>> \in os
                                            THEN [@[n] EXCEPT !.spend = [by |-> t, status |-> st]]
                                            ELSE @[n]]]]
  IN IF os = {} THEN m
     ELSE [S!CreateModify(marked, t, st) EXCEPT ![t].listed = @ \cup os]

\* get_notes_for_updating
NotesForUpdating(m, height) ==
  {o \in Held(m) : /\ HasNullifier(m, o)
                  /\ S!IsConfirmed(m[o[1]].status) /\ m[o[1]].status.height <= height
                  /\ ~S!IsConfirmed(SpendOf(m, o).status)}
-----------------------------------------------------------------------------
(* scan_full_tx *)

\* add_new_taddr_output: a coin that is there stays as it is.
AddCoins(m, t, st) ==
  IF CoinsTo(t) = {} THEN m
  ELSE [S!CreateModify(m, t, st) EXCEPT
          ![t].coins = [n \in DOMAIN @ \cup CoinsTo(t) |-> IF n \in DOMAIN @ THEN @[n] ELSE S!Unspent]]

\* mark_txid_utxo_spent and add_taddr_spent for the coins in os.
SpendCoins(m, t, st, os) ==
  LET paid == [u \in Txs |->
                 [m[u] EXCEPT !.coins = [n \in DOMAIN @ |-> IF <<u, n>> \in os
                                                               THEN [by |-> t, status |-> st]
                                                               ELSE @[n]]]]
  IN IF os = {} THEN m ELSE [S!CreateModify(paid, t, st) EXCEPT ![t].tspent = Total(os)]

\* account_for_transparent_receipts, account_for_transparent_spending: a coin
\* is found to be spent only if the record that received it is there.
ScanTransparent(m, t, st) ==
  LET got == AddCoins(m, t, st)
  IN SpendCoins(got, t, st, {o \in Ins[t] : HasCoin(got, o)})

\* add_pending_note; update_output_index and add_memo_to_note_metadata.
PendingNote == [nf |-> FALSE, index |-> TRUE, memo |-> "unknown", spend |-> S!Unspent]
ReadNote(note, t, n, st) ==
  [note EXCEPT !.index = @ \/ S!IsConfirmed(st), !.memo = Outs[t][n].memo]

\* account_for_shielded_receipts: of a transaction in a block the notes that
\* are there get their index and memo, of a pending one the notes are added.
ScanReceipts(m, t, st) ==
  LET add == IF S!IsConfirmed(st) THEN {} ELSE NotesTo(t)
  IN IF NotesTo(t) = {} THEN m
     ELSE [S!CreateModify(m, t, st) EXCEPT
             ![t].notes = [n \in DOMAIN @ \cup add |->
                ReadNote(IF n \in DOMAIN @ THEN @[n] ELSE PendingNote, t, n, st)]]

\* decrypt_transaction_to_record: the spends of a pending transaction are looked
\* for here, of one in a block they are found by update_notes.
ScanRecord(m, t, st) ==
  LET q == ScanReceipts(ScanTransparent(m, t, st), t, st)
  IN IF S!IsConfirmed(st) THEN q
     ELSE FoundSpent(q, t, st, {o \in Ins[t] : HasNullifier(q, o) /\ IsUnspent(q, o)})

\* Mutant: transparent outputs count whoever made the transaction.
OutgoingAlways(m, t) ==
  [n \in {k \in ToOthers(t) : Outs[t][k].pool \in Shielded => Ins[t] # {}} |-> Outs[t][n].to]

\* Mutant: the wallet's own shielded outputs are taken for payments.
OutgoingWithChange(m, t) ==
  [n \in {k \in DOMAIN Outs[t] : IF Outs[t][k].pool \in Shielded THEN Ins[t] # {}
                                  ELSE t \in S!Known(m) /\ Kind(m, t) # "received"} |-> Outs[t][n].to]

\* The outgoing data that a scan collects: what the outgoing viewing key opens,
\* and (post_process_scan_results) the transparent outputs, if the record as it
\* is now shows that the wallet made t.
Outgoing(m, t) ==
  [n \in {k \in ToOthers(t) : IF Outs[t][k].pool \in Shielded THEN Ins[t] # {}
                              ELSE t \in S!Known(m) /\ Kind(m, t) # "received"} |-> Outs[t][n].to]

\* Mutant: the outgoing data are written and their unified addresses left out.
WriteOutgoingBare(m, t, out) ==
  IF t \notin S!Known(m) THEN m ELSE [m EXCEPT ![t].outgoing = out]

\* add_outgoing_metadata replaces what is there; update_from_zingomemos then
\* puts unified addresses in place of the receivers they contain.
WriteOutgoing(m, t, out) ==
  LET uas == {Outs[t][n].ua : n \in {k \in ToOthers(t) : \E j \in NotesTo(t) : Outs[t][j].memo = "zingo"}}
  IN IF t \notin S!Known(m) THEN m
     ELSE [m EXCEPT ![t].outgoing =
             [n \in DOMAIN out |-> IF Outs[t][n].ua \in uas \ {"none"} THEN Outs[t][n].ua ELSE out[n]]]

\* unindexed_records: the transactions targetted_rescan scans again.
Unindexed(m, height) ==
  {t \in S!Known(m) : /\ S!IsConfirmed(m[t].status) /\ m[t].status.height <= height
                      /\ \E n \in DOMAIN m[t].notes : /\ ~m[t].notes[n].index
                                                      /\ IsUnspent(m, <<t, n>>)}
-----------------------------------------------------------------------------
(* Types *)

\* A spend has a status, and an output that is not spent is marked in one way.
IsSpend(sp) ==
  /\ sp = [by |-> sp.by, status |-> sp.status]
  /\ IF sp.by = NoTx THEN sp = S!Unspent
     ELSE /\ sp.status = [kind |-> sp.status.kind, height |-> sp.status.height]
          /\ sp.status.kind \in {"Calculated", "Transmitted", "Mempool", "Confirmed"}

IsNote(note) ==
  /\ note = [nf |-> note.nf, index |-> note.index, memo |-> note.memo, spend |-> note.spend]
  /\ IsSpend(note.spend)

IsRecord(r) ==
  /\ r = [status |-> r.status, notes |-> r.notes, coins |-> r.coins, listed |-> r.listed,
          tspent |-> r.tspent, outgoing |-> r.outgoing]
  /\ r.status \in S!Statuses
  /\ r.notes = [n \in DOMAIN r.notes |-> r.notes[n]]
  /\ r.coins = [n \in DOMAIN r.coins |-> r.coins[n]]
  /\ \A n \in DOMAIN r.notes : IsNote(r.notes[n])
  /\ \A n \in DOMAIN r.coins : IsSpend(r.coins[n])

IsRecordMap(m) == m = [t \in Txs |-> m[t]] /\ \A t \in Txs : IsRecord(m[t])
=============================================================================
