------------------------------ MODULE LedgerFile -------------------------------
(***************************************************************************)
(* What of the records gets into the wallet file and back: TxMap::write    *)
(* and read with those of TransactionRecord, its notes, its coins and its  *)
(* outgoing data.  The file keeps a status as a height and a flag, and of  *)
(* the spend of a coin only a confirmed one.                               *)
(***************************************************************************)
EXTENDS LedgerRecords

\* is_outgoing_transaction: what the record has received and sent is counted.
IsOutgoing(t, r) ==
  \/ DOMAIN r.outgoing # {}
  \/ Total({t} \X (DOMAIN r.notes \cup DOMAIN r.coins)) # 0

\* ConfirmationStatus::write and read: a status is its code and its height.
Codes == <<"Calculated", "Transmitted", "Mempool", "Confirmed">>
StoreStatus(st) == [code |-> (CHOOSE i \in 1..4 : Codes[i] = st.kind) - 1, height |-> st.height]
RestoreStatus(f) == [kind |-> Codes[f.code + 1], height |-> f.height]

\* A spend is an optional value: a sequence of at most one.
StoreSpend(spend) ==
  IF spend.by = NoTx THEN << >> ELSE << [by |-> spend.by, status |-> StoreStatus(spend.status)] >>
RestoreSpend(f) ==
  IF f = << >> THEN S!Unspent ELSE [by |-> f[1].by, status |-> RestoreStatus(f[1].status)]

\* ShieldedNoteInterface::write and read.
StoreNote(note) == [note EXCEPT !.spend = StoreSpend(@)]
RestoreNote(f) == [f EXCEPT !.spend = RestoreSpend(@)]

\* TransparentOutput::write and read: only the height of the spend is kept.
StoreCoin(spend) ==
  IF S!IsConfirmed(spend.status) THEN << [by |-> spend.by, height |-> spend.status.height] >> ELSE << >>
RestoreCoin(f) == IF f = << >> THEN S!Unspent ELSE [by |-> f[1].by, status |-> S!Confirmed(f[1].height)]

\* TransactionRecord::write
StoreRecord(r) ==
  [height |-> r.status.height, pending |-> ~S!IsConfirmed(r.status),
   notes |-> [n \in DOMAIN r.notes |-> StoreNote(r.notes[n])],
   coins |-> [n \in DOMAIN r.coins |-> StoreCoin(r.coins[n])], listed |-> r.listed,
   tspent |-> r.tspent, outgoing |-> r.outgoing]

\* TxMap::write
Store(m) ==
  [t \in {u \in S!Known(m) : S!IsConfirmed(m[u].status) \/ IsOutgoing(u, m[u])} |->
     StoreRecord(m[t])]

\* TransactionRecord::read: whatever was pending is taken to be transmitted.
RestoreRecord(f) ==
  [status |-> IF f.pending THEN S!Transmitted(f.height) ELSE S!Confirmed(f.height),
   notes |-> [n \in DOMAIN f.notes |-> RestoreNote(f.notes[n])],
   coins |-> [n \in DOMAIN f.coins |-> RestoreCoin(f.coins[n])], listed |-> f.listed,
   tspent |-> f.tspent, outgoing |-> f.outgoing]

\* TxMap::read
Restore(file) == [t \in Txs |-> IF t \in DOMAIN file THEN RestoreRecord(file[t]) ELSE NoRecord]
=============================================================================
