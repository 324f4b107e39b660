----------------------------- MODULE LedgerProofs ------------------------------
(***************************************************************************)
(* The records of the wallet and what it tells of them.  What the wallet   *)
(* file keeps, for every record map: what a confirmed record is after it   *)
(* was written and read, and that a file that was read and written again   *)
(* does not change any more.  The types of the records through every step  *)
(* of a batch, that the parts of the balance add up at every moment, and   *)
(* that the shielded balances of a wallet that has caught up are true.     *)
(***************************************************************************)
EXTENDS Ledger, SequenceFacts

\* The record with the pending spends of its coins forgotten.
ForgetPending(r) ==
  [r EXCEPT !.coins = [n \in DOMAIN r.coins |->
                         IF S!IsConfirmed(r.coins[n].status) THEN r.coins[n] ELSE S!Unspent]]
-----------------------------------------------------------------------------
\* A status is read as the one that was written (ConfirmationStatus).
LEMMA StatusKept ==
  ASSUME NEW st, st = [kind |-> st.kind, height |-> st.height],
         st.kind \in {"Calculated", "Transmitted", "Mempool", "Confirmed"}
  PROVE  RestoreStatus(StoreStatus(st)) = st
<1>1. \E i \in 1..4 : Codes[i] = st.kind
  BY DEF Codes
<1> DEFINE c == CHOOSE i \in 1..4 : Codes[i] = st.kind
<1>2. c \in 1..4 /\ Codes[c] = st.kind
  BY <1>1
<1>3. StoreStatus(st) = [code |-> c - 1, height |-> st.height]
  BY DEF StoreStatus
<1> HIDE DEF c
<1>4. c - 1 + 1 = c
  BY <1>2
<1>5. RestoreStatus(StoreStatus(st)) = [kind |-> Codes[c], height |-> st.height]
  BY <1>3, <1>4 DEF RestoreStatus
<1> QED
  BY <1>2, <1>5

\* A spend is read as it was written.
LEMMA SpendKept ==
  ASSUME NEW sp, IsSpend(sp)
  PROVE  RestoreSpend(StoreSpend(sp)) = sp
<1>1. CASE sp.by = NoTx
  BY <1>1 DEF IsSpend, StoreSpend, RestoreSpend
<1>2. CASE sp.by # NoTx
  <2>1. RestoreStatus(StoreStatus(sp.status)) = sp.status
    BY <1>2, StatusKept DEF IsSpend
  <2> DEFINE f == [by |-> sp.by, status |-> StoreStatus(sp.status)]
  <2>2. StoreSpend(sp) = << f >>
    BY <1>2 DEF StoreSpend
  <2>3. << f >> # << >> /\ << f >>[1] = f
    OBVIOUS
  <2>4. f.by = sp.by /\ f.status = StoreStatus(sp.status)
    OBVIOUS
  <2> HIDE DEF f
  <2>5. RestoreSpend(StoreSpend(sp)) = [by |-> sp.by, status |-> sp.status]
    BY <2>1, <2>2, <2>3, <2>4 DEF RestoreSpend
  <2> QED
    BY <2>5 DEF IsSpend
<1> QED
  BY <1>1, <1>2

\* A note is read as it was written.
LEMMA NoteKept ==
  ASSUME NEW note, IsNote(note)
  PROVE  RestoreNote(StoreNote(note)) = note
<1>1. RestoreSpend(StoreSpend(note.spend)) = note.spend
  BY SpendKept DEF IsNote
<1>2. StoreNote(note) = [nf |-> note.nf, index |-> note.index, memo |-> note.memo,
                         spend |-> StoreSpend(note.spend)]
  BY DEF IsNote, StoreNote
<1>3. RestoreNote(StoreNote(note)) = [nf |-> note.nf, index |-> note.index, memo |-> note.memo,
                                      spend |-> RestoreSpend(StoreSpend(note.spend))]
  BY <1>2 DEF RestoreNote
<1> QED
  BY <1>1, <1>3 DEF IsNote

\* Of the spend of a coin a confirmed one is kept.
LEMMA CoinKept ==
  ASSUME NEW sp, IsSpend(sp)
  PROVE  RestoreCoin(StoreCoin(sp)) = IF S!IsConfirmed(sp.status) THEN sp ELSE S!Unspent
<1>1. CASE S!IsConfirmed(sp.status)
  <2> DEFINE f == [by |-> sp.by, height |-> sp.status.height]
  <2>1. StoreCoin(sp) = << f >>
    BY <1>1 DEF StoreCoin
  <2>2. << f >> # << >> /\ << f >>[1] = f
    OBVIOUS
  <2>3. f.by = sp.by /\ f.height = sp.status.height
    OBVIOUS
  <2> HIDE DEF f
  <2>4. RestoreCoin(StoreCoin(sp)) = [by |-> sp.by, status |-> S!Confirmed(sp.status.height)]
    BY <2>1, <2>2, <2>3 DEF RestoreCoin
  <2>5. sp.by # NoTx
    BY <1>1 DEF IsSpend, S!Unspent, S!NoStatus, S!IsConfirmed
  <2>6. sp.status = S!Confirmed(sp.status.height)
    BY <1>1, <2>5 DEF IsSpend, S!IsConfirmed, S!Confirmed
  <2> QED
    BY <1>1, <2>4, <2>6 DEF IsSpend
<1>2. CASE ~S!IsConfirmed(sp.status)
  BY <1>2 DEF StoreCoin, RestoreCoin
<1> QED
  BY <1>1, <1>2

\* A record is read as it was written, but for the pending spends of its coins
\* and for the kind of a pending status.
LEMMA RecordKept ==
  ASSUME NEW r, IsRecord(r)
  PROVE  RestoreRecord(StoreRecord(r)) =
           [status |-> IF S!IsConfirmed(r.status) THEN r.status ELSE S!Transmitted(r.status.height),
            notes |-> r.notes, coins |-> ForgetPending(r).coins, listed |-> r.listed,
            tspent |-> r.tspent, outgoing |-> r.outgoing]
<1> DEFINE f == StoreRecord(r)
<1>1. /\ f.height = r.status.height /\ f.pending = ~S!IsConfirmed(r.status)
      /\ f.notes = [n \in DOMAIN r.notes |-> StoreNote(r.notes[n])]
      /\ f.coins = [n \in DOMAIN r.coins |-> StoreCoin(r.coins[n])]
      /\ f.listed = r.listed /\ f.tspent = r.tspent /\ f.outgoing = r.outgoing
  BY DEF StoreRecord
<1> HIDE DEF f
<1>2. [n \in DOMAIN f.notes |-> RestoreNote(f.notes[n])] = r.notes
  <2>1. \A n \in DOMAIN r.notes : RestoreNote(StoreNote(r.notes[n])) = r.notes[n]
    BY NoteKept DEF IsRecord
  <2>2. DOMAIN f.notes = DOMAIN r.notes
    BY <1>1
  <2>3. \A n \in DOMAIN r.notes : f.notes[n] = StoreNote(r.notes[n])
    BY <1>1
  <2>4. [n \in DOMAIN f.notes |-> RestoreNote(f.notes[n])] = [n \in DOMAIN r.notes |-> r.notes[n]]
    BY <2>1, <2>2, <2>3
  <2> QED
    BY <2>4 DEF IsRecord
<1>3. [n \in DOMAIN f.coins |-> RestoreCoin(f.coins[n])] = ForgetPending(r).coins
  <2> DEFINE Keep(n) == IF S!IsConfirmed(r.coins[n].status) THEN r.coins[n] ELSE S!Unspent
  <2>1. \A n \in DOMAIN r.coins : RestoreCoin(StoreCoin(r.coins[n])) = Keep(n)
    BY CoinKept DEF IsRecord
  <2>2. DOMAIN f.coins = DOMAIN r.coins
    BY <1>1
  <2>3. \A n \in DOMAIN r.coins : f.coins[n] = StoreCoin(r.coins[n])
    BY <1>1
  <2>4. ForgetPending(r).coins = [n \in DOMAIN r.coins |-> Keep(n)]
    BY DEF IsRecord, ForgetPending
  <2> HIDE DEF Keep
  <2> QED
    BY <2>1, <2>2, <2>3, <2>4
<1>4. (IF f.pending THEN S!Transmitted(f.height) ELSE S!Confirmed(f.height))
        = IF S!IsConfirmed(r.status) THEN r.status ELSE S!Transmitted(r.status.height)
  <2>1. S!IsConfirmed(r.status) => r.status = S!Confirmed(r.status.height)
    BY DEF IsRecord, S!Statuses, S!IsConfirmed, S!Confirmed
  <2> QED
    BY <1>1, <2>1
<1> QED
  BY <1>1, <1>2, <1>3, <1>4 DEF RestoreRecord, f

\* A confirmed record comes back from the wallet file as it was, but for the
\* pending spends of its coins (TxMap::write and read).
THEOREM FileKeepsConfirmed ==
  ASSUME NEW recs, IsRecordMap(recs), NEW t \in Txs, S!IsConfirmed(recs[t].status)
  PROVE  Restore(Store(recs))[t] = ForgetPending(recs[t])
<1>1. IsRecord(recs[t])
  BY DEF IsRecordMap
<1>2. t \in DOMAIN Store(recs) /\ Store(recs)[t] = StoreRecord(recs[t])
  BY DEF Store, S!Known, S!IsConfirmed
<1>3. Restore(Store(recs))[t] = RestoreRecord(StoreRecord(recs[t]))
  BY <1>2 DEF Restore
<1>4. ForgetPending(recs[t]) =
        [status |-> recs[t].status, notes |-> recs[t].notes, coins |-> ForgetPending(recs[t]).coins,
         listed |-> recs[t].listed, tspent |-> recs[t].tspent, outgoing |-> recs[t].outgoing]
  BY <1>1 DEF ForgetPending, IsRecord
<1>5. RestoreRecord(StoreRecord(recs[t])) =
        [status |-> recs[t].status, notes |-> recs[t].notes, coins |-> ForgetPending(recs[t]).coins,
         listed |-> recs[t].listed, tspent |-> recs[t].tspent, outgoing |-> recs[t].outgoing]
  BY <1>1, RecordKept
<1> QED
  BY <1>3, <1>4, <1>5

\* What a record read from a file is written as.
LEMMA RecordStable ==
  ASSUME NEW r, IsRecord(r)
  PROVE  StoreRecord(RestoreRecord(StoreRecord(r))) = StoreRecord(r)
<1> DEFINE q == RestoreRecord(StoreRecord(r))
<1>1. /\ q.status = IF S!IsConfirmed(r.status) THEN r.status ELSE S!Transmitted(r.status.height)
      /\ q.notes = r.notes /\ q.coins = ForgetPending(r).coins /\ q.listed = r.listed
      /\ q.tspent = r.tspent /\ q.outgoing = r.outgoing
  BY RecordKept
<1> HIDE DEF q
<1>2. q.status.height = r.status.height /\ (S!IsConfirmed(q.status) <=> S!IsConfirmed(r.status))
  BY <1>1 DEF S!Transmitted, S!IsConfirmed
<1>3. [n \in DOMAIN q.coins |-> StoreCoin(q.coins[n])] = [n \in DOMAIN r.coins |-> StoreCoin(r.coins[n])]
  <2>1. q.coins = [n \in DOMAIN r.coins |->
                     IF S!IsConfirmed(r.coins[n].status) THEN r.coins[n] ELSE S!Unspent]
    BY <1>1 DEF ForgetPending, IsRecord
  <2>2. StoreCoin(S!Unspent) = << >>
    BY DEF StoreCoin, S!Unspent, S!NoStatus, S!IsConfirmed
  <2>3. \A n \in DOMAIN r.coins : StoreCoin(q.coins[n]) = StoreCoin(r.coins[n])
    BY <2>1, <2>2 DEF StoreCoin
  <2> QED
    BY <2>1, <2>3
<1> QED
  BY <1>1, <1>2, <1>3 DEF StoreRecord, q

\* A wallet file that was read and written again is the same file: nothing
\* more is lost by one restart after the other (TxMap::read and write).
THEOREM FileIsStable ==
  ASSUME NEW recs, IsRecordMap(recs)
  PROVE  Store(Restore(Store(recs))) = Store(recs)
<1> DEFINE kept == {u \in S!Known(recs) : S!IsConfirmed(recs[u].status) \/ IsOutgoing(u, recs[u])}
           q == Restore(Store(recs))
<1>1. Store(recs) = [t \in kept |-> StoreRecord(recs[t])]
  BY DEF Store
<1>2. kept \subseteq Txs
  BY DEF S!Known
<1>3. \A t \in Txs : q[t] = IF t \in kept THEN RestoreRecord(StoreRecord(recs[t])) ELSE NoRecord
  BY <1>1 DEF Restore
<1>4. \A t \in kept : /\ q[t].status = (IF S!IsConfirmed(recs[t].status) THEN recs[t].status
                                         ELSE S!Transmitted(recs[t].status.height))
                      /\ q[t].notes = recs[t].notes /\ DOMAIN q[t].coins = DOMAIN recs[t].coins
                      /\ q[t].outgoing = recs[t].outgoing
  <2> TAKE t \in kept
  <2>1. IsRecord(recs[t])
    BY <1>2 DEF IsRecordMap
  <2>2. q[t] = RestoreRecord(StoreRecord(recs[t]))
    BY <1>2, <1>3
  <2>3. DOMAIN ForgetPending(recs[t]).coins = DOMAIN recs[t].coins
    BY <2>1 DEF ForgetPending, IsRecord
  <2> HIDE DEF q, kept
  <2> QED
    BY <2>1, <2>2, <2>3, RecordKept
<1> HIDE DEF q
<1>5. \A t \in kept : t \in S!Known(q) /\ (S!IsConfirmed(q[t].status) \/ IsOutgoing(t, q[t]))
  <2> TAKE t \in kept
  <2>1. IsOutgoing(t, q[t]) <=> IsOutgoing(t, recs[t])
    BY <1>4 DEF IsOutgoing
  <2>2. /\ S!IsConfirmed(q[t].status) <=> S!IsConfirmed(recs[t].status)
        /\ q[t].status.kind # "Absent"
    <3>1. CASE S!IsConfirmed(recs[t].status)
      <4>1. q[t].status = recs[t].status
        BY <1>4, <3>1
      <4> QED
        BY <3>1, <4>1 DEF S!IsConfirmed
    <3>2. CASE ~S!IsConfirmed(recs[t].status)
      <4>1. q[t].status = S!Transmitted(recs[t].status.height)
        BY <1>4, <3>2
      <4>2. q[t].status.kind = "Transmitted"
        BY <4>1 DEF S!Transmitted
      <4> QED
        BY <3>2, <4>2 DEF S!IsConfirmed
    <3> QED
      BY <3>1, <3>2
  <2> QED
    BY <1>2, <2>1, <2>2 DEF S!Known
<1>6. \A t \in Txs \ kept : t \notin S!Known(q)
  BY <1>3 DEF NoRecord, S!NoStatus, S!Known
<1>7. {u \in S!Known(q) : S!IsConfirmed(q[u].status) \/ IsOutgoing(u, q[u])} = kept
  <2>1. S!Known(q) \subseteq Txs
    BY DEF S!Known
  <2> HIDE DEF kept
  <2> QED
    BY <1>2, <1>5, <1>6, <2>1
<1>8. \A t \in kept : StoreRecord(q[t]) = StoreRecord(recs[t])
  <2> TAKE t \in kept
  <2>1. IsRecord(recs[t])
    BY <1>2 DEF IsRecordMap
  <2> QED
    BY <1>2, <1>3, <2>1, RecordStable
<1>9. Store(q) = [t \in kept |-> StoreRecord(q[t])]
  BY <1>7 DEF Store
<1> HIDE DEF kept
<1> QED
  BY <1>1, <1>8, <1>9 DEF q
-----------------------------------------------------------------------------
(* What the operations on the records keep: which outputs a record of t can  *)
(* have as notes, coins and payments, and that no output is marked as spent  *)
(* by a transaction that was only calculated.                                *)

SpendOK(sp) == IsSpend(sp) /\ sp.status.kind # "Calculated" /\ (sp.by # NoTx => sp.by \in Txs)
NoteOK(note) == IsNote(note) /\ SpendOK(note.spend)

\* A function on a part of D with values that have the property.
NotesOK(f, D) == f = [n \in DOMAIN f |-> f[n]] /\ DOMAIN f \subseteq D /\ \A n \in DOMAIN f : NoteOK(f[n])
CoinsOK(f, D) == f = [n \in DOMAIN f |-> f[n]] /\ DOMAIN f \subseteq D /\ \A n \in DOMAIN f : SpendOK(f[n])

IsShaped(r) ==
  r = [status |-> r.status, notes |-> r.notes, coins |-> r.coins, listed |-> r.listed,
       tspent |-> r.tspent, outgoing |-> r.outgoing]

\* A record of t; T are the transactions that are mined.
RecOK(T, t, r) ==
  /\ IsShaped(r)
  /\ r.status \in S!Statuses /\ (S!IsConfirmed(r.status) => t \in T)
  /\ NotesOK(r.notes, NotesTo(t)) /\ CoinsOK(r.coins, CoinsTo(t))
  /\ r.listed \subseteq OutIds /\ r.tspent \in Nat
  /\ DOMAIN r.outgoing \subseteq ToOthers(t)

MapOK(T, q) == q = [t \in Txs |-> q[t]] /\ \A t \in Txs : RecOK(T, t, q[t])

\* The status of a transaction that is in a block or in the mempool.
IsSeen(T, t, st) == st \in S!Statuses /\ st.kind \in {"Mempool", "Confirmed"} /\ (S!IsConfirmed(st) => t \in T)

\* Only an output without a spender is unspent.
LEMMA UnspentOK == SpendOK(S!Unspent)
BY DEF SpendOK, IsSpend, S!Unspent, S!NoStatus

\* A spend by a transaction that was seen.
LEMMA MarkOK ==
  ASSUME NEW T, NEW t \in Txs, NEW st, IsSeen(T, t, st)
  PROVE  SpendOK([by |-> t, status |-> st])
<1>1. t # NoTx
  BY LedgerAssumption
<1>2. st = [kind |-> st.kind, height |-> st.height] /\ st.kind \in {"Mempool", "Confirmed"}
  BY DEF IsSeen, S!Statuses
<1> QED BY <1>1, <1>2 DEF SpendOK, IsSpend

\* A function without places.
LEMMA NoneOK ==
  ASSUME NEW D
  PROVE  NotesOK(<< >>, D) /\ CoinsOK(<< >>, D)
<1>1. DOMAIN << >> = {} /\ << >> = [n \in {} |-> << >>[n]]
  OBVIOUS
<1> QED BY <1>1 DEF NotesOK, CoinsOK

\* A transaction without a record.
LEMMA NoRecordOK ==
  ASSUME NEW T, NEW t
  PROVE  RecOK(T, t, NoRecord)
<1>1. S!NoStatus \in S!Statuses /\ ~ S!IsConfirmed(S!NoStatus)
  BY DEF S!NoStatus, S!Statuses, S!Kinds, S!IsConfirmed
<1>2. DOMAIN << >> = {}
  OBVIOUS
<1>3. /\ NoRecord.status = S!NoStatus /\ NoRecord.notes = << >> /\ NoRecord.coins = << >>
      /\ NoRecord.listed = {} /\ NoRecord.tspent = 0 /\ NoRecord.outgoing = << >> /\ IsShaped(NoRecord)
  BY DEF NoRecord, IsShaped
<1>4. NotesOK(<< >>, NotesTo(t)) /\ CoinsOK(<< >>, CoinsTo(t))
  BY NoneOK
<1> QED BY <1>1, <1>2, <1>3, <1>4 DEF RecOK

\* One field of a record is written.
LEMMA FieldsSet ==
  ASSUME NEW T, NEW t, NEW r, RecOK(T, t, r)
  PROVE  /\ \A st \in S!Statuses : (S!IsConfirmed(st) => t \in T) => RecOK(T, t, [r EXCEPT !.status = st])
         /\ \A f : NotesOK(f, NotesTo(t)) => RecOK(T, t, [r EXCEPT !.notes = f])
         /\ \A f : CoinsOK(f, CoinsTo(t)) => RecOK(T, t, [r EXCEPT !.coins = f])
         /\ \A l : l \subseteq OutIds => RecOK(T, t, [r EXCEPT !.listed = l])
         /\ \A k \in Nat : RecOK(T, t, [r EXCEPT !.tspent = k])
         /\ \A f : DOMAIN f \subseteq ToOthers(t) => RecOK(T, t, [r EXCEPT !.outgoing = f])
<1>1. IsShaped(r)
  BY DEF RecOK
<1>2. ASSUME NEW st \in S!Statuses, S!IsConfirmed(st) => t \in T PROVE RecOK(T, t, [r EXCEPT !.status = st])
  <2>1. [r EXCEPT !.status = st] = [status |-> st, notes |-> r.notes, coins |-> r.coins, listed |-> r.listed,
                                   tspent |-> r.tspent, outgoing |-> r.outgoing]
    BY <1>1 DEF IsShaped
  <2> QED BY <1>2, <2>1 DEF RecOK, IsShaped
<1>3. ASSUME NEW f, NotesOK(f, NotesTo(t)) PROVE RecOK(T, t, [r EXCEPT !.notes = f])
  <2>1. [r EXCEPT !.notes = f] = [status |-> r.status, notes |-> f, coins |-> r.coins, listed |-> r.listed,
                                   tspent |-> r.tspent, outgoing |-> r.outgoing]
    BY <1>1 DEF IsShaped
  <2> QED BY <1>3, <2>1 DEF RecOK, IsShaped
<1>4. ASSUME NEW f, CoinsOK(f, CoinsTo(t)) PROVE RecOK(T, t, [r EXCEPT !.coins = f])
  <2>1. [r EXCEPT !.coins = f] = [status |-> r.status, notes |-> r.notes, coins |-> f, listed |-> r.listed,
                                   tspent |-> r.tspent, outgoing |-> r.outgoing]
    BY <1>1 DEF IsShaped
  <2> QED BY <1>4, <2>1 DEF RecOK, IsShaped
<1>5. ASSUME NEW l, l \subseteq OutIds PROVE RecOK(T, t, [r EXCEPT !.listed = l])
  <2>1. [r EXCEPT !.listed = l] = [status |-> r.status, notes |-> r.notes, coins |-> r.coins, listed |-> l,
                                   tspent |-> r.tspent, outgoing |-> r.outgoing]
    BY <1>1 DEF IsShaped
  <2> QED BY <1>5, <2>1 DEF RecOK, IsShaped
<1>6. ASSUME NEW k \in Nat PROVE RecOK(T, t, [r EXCEPT !.tspent = k])
  <2>1. [r EXCEPT !.tspent = k] = [status |-> r.status, notes |-> r.notes, coins |-> r.coins, listed |-> r.listed,
                                   tspent |-> k, outgoing |-> r.outgoing]
    BY <1>1 DEF IsShaped
  <2> QED BY <2>1 DEF RecOK, IsShaped
<1>7. ASSUME NEW f, DOMAIN f \subseteq ToOthers(t) PROVE RecOK(T, t, [r EXCEPT !.outgoing = f])
  <2>1. [r EXCEPT !.outgoing = f] = [status |-> r.status, notes |-> r.notes, coins |-> r.coins, listed |-> r.listed,
                                   tspent |-> r.tspent, outgoing |-> f]
    BY <1>1 DEF IsShaped
  <2> QED BY <1>7, <2>1 DEF RecOK, IsShaped
<1> QED BY <1>2, <1>3, <1>4, <1>5, <1>6, <1>7

\* The fields that are not written stay.
LEMMA FieldsKept ==
  ASSUME NEW r, IsShaped(r), NEW x
  PROVE  /\ [r EXCEPT !.status = x].notes = r.notes /\ [r EXCEPT !.status = x].coins = r.coins
         /\ [r EXCEPT !.status = x].listed = r.listed /\ [r EXCEPT !.status = x].outgoing = r.outgoing
         /\ [r EXCEPT !.status = x].status = x
BY DEF IsShaped

\* One record of the map is written.
LEMMA RecordSet ==
  ASSUME NEW T, NEW q, MapOK(T, q), NEW t \in Txs, NEW r, RecOK(T, t, r), NEW w,
         w = [u \in Txs |-> w[u]], w[t] = r, \A u \in Txs : u # t => w[u] = q[u]
  PROVE  MapOK(T, w)
<1> SUFFICES ASSUME NEW u \in Txs PROVE RecOK(T, u, w[u])
  BY DEF MapOK
<1>1. CASE u = t
  BY <1>1
<1>2. CASE u # t
  <2>1. w[u] = q[u]
    BY <1>2
  <2> QED BY <2>1 DEF MapOK
<1> QED BY <1>1, <1>2

\* More transactions are mined.
LEMMA MapGrows ==
  ASSUME NEW T, NEW q, MapOK(T, q), NEW T2, T \subseteq T2
  PROVE  MapOK(T2, q)
BY DEF MapOK, RecOK

\* create_modify_get_transaction_record keeps everything but the status.
LEMMA CreateOK ==
  ASSUME NEW T, NEW q, MapOK(T, q), NEW t \in Txs, NEW st \in S!Statuses, S!IsConfirmed(st) => t \in T
  PROVE  /\ MapOK(T, S!CreateModify(q, t, st))
         /\ S!CreateModify(q, t, st)[t].notes = q[t].notes
         /\ S!CreateModify(q, t, st)[t].coins = q[t].coins
         /\ S!CreateModify(q, t, st)[t].listed = q[t].listed
<1> DEFINE w == [q EXCEPT ![t].status = st]
<1>1. RecOK(T, t, q[t]) /\ IsShaped(q[t]) /\ q = [u \in Txs |-> q[u]]
  BY DEF MapOK, RecOK
<1>2. w = [u \in Txs |-> w[u]] /\ w[t] = [q[t] EXCEPT !.status = st] /\ \A u \in Txs : u # t => w[u] = q[u]
  BY <1>1
<1>3. RecOK(T, t, [q[t] EXCEPT !.status = st])
  BY <1>1, FieldsSet
<1>4. /\ [q[t] EXCEPT !.status = st].notes = q[t].notes /\ [q[t] EXCEPT !.status = st].coins = q[t].coins
      /\ [q[t] EXCEPT !.status = st].listed = q[t].listed
  BY <1>1, FieldsKept
<1>5. S!CreateModify(q, t, st) = IF S!IsConfirmed(q[t].status) /\ ~S!IsConfirmed(st) THEN q ELSE w
  BY DEF S!CreateModify
<1> HIDE DEF w
<1>6. MapOK(T, w)
  BY <1>2, <1>3, RecordSet
<1> QED BY <1>2, <1>4, <1>5, <1>6

\* Notes found in a block are recorded as a whole.
LEMMA AddNewNoteOK ==
  ASSUME NEW T, NEW q, MapOK(T, q), NEW t \in Txs, NEW st, IsSeen(T, t, st), NEW n \in NotesTo(t)
  PROVE  MapOK(T, AddNewNote(q, t, st, n))
<1> DEFINE p == S!CreateModify(q, t, st)
           old == p[t].notes
           stay == {k \in DOMAIN old : n \in DOMAIN old \/ old[k].nf \/ Outs[t][k].pool # Outs[t][n].pool}
           new == [nf |-> TRUE, index |-> TRUE, memo |-> "unknown", spend |-> S!Unspent]
           f == [k \in stay \cup {n} |-> IF k = n THEN new ELSE old[k]]
           w == [p EXCEPT ![t].notes = f]
<1>1. AddNewNote(q, t, st, n) = w
  BY DEF AddNewNote
<1>2. MapOK(T, p)
  BY CreateOK DEF IsSeen
<1>3. RecOK(T, t, p[t]) /\ NotesOK(old, NotesTo(t))
  BY <1>2 DEF MapOK, RecOK
<1>4. NoteOK(new)
  BY UnspentOK DEF NoteOK, IsNote, SpendOK
<1>5. stay \subseteq DOMAIN old
  OBVIOUS
<1> HIDE DEF new, stay, p, old
<1>6. NotesOK(f, NotesTo(t))
  <2>1. DOMAIN f = stay \cup {n} /\ f = [k \in DOMAIN f |-> f[k]]
    OBVIOUS
  <2>2. \A k \in stay \cup {n} : NoteOK(f[k])
    BY <1>3, <1>4, <1>5 DEF NotesOK
  <2>3. DOMAIN f \subseteq NotesTo(t)
    BY <1>3, <1>5, <2>1 DEF NotesOK
  <2> QED BY <2>1, <2>2, <2>3 DEF NotesOK
<1> HIDE DEF f
<1>7. RecOK(T, t, [p[t] EXCEPT !.notes = f])
  BY <1>3, <1>6, FieldsSet
<1>8. w = [u \in Txs |-> w[u]] /\ w[t] = [p[t] EXCEPT !.notes = f] /\ \A u \in Txs : u # t => w[u] = p[u]
  BY <1>2 DEF MapOK
<1> HIDE DEF w
<1>9. MapOK(T, w)
  BY <1>2, <1>7, <1>8, RecordSet
<1> QED BY <1>1, <1>9

\* The notes, or the coins, in os get the spend.
MarkNotes(q, os, sp) ==
  [u \in Txs |-> [q[u] EXCEPT !.notes =
     [n \in DOMAIN @ |-> IF <<u, n>> \in os THEN [@[n] EXCEPT !.spend = sp] ELSE @[n]]]]
MarkCoins(q, os, sp) ==
  [u \in Txs |-> [q[u] EXCEPT !.coins = [n \in DOMAIN @ |-> IF <<u, n>> \in os THEN sp ELSE @[n]]]]

\* The spends of some of the notes of all records are written.
LEMMA NotesMarked ==
  ASSUME NEW T, NEW q, MapOK(T, q), NEW os, NEW sp, SpendOK(sp)
  PROVE  MapOK(T, MarkNotes(q, os, sp))
<1> DEFINE f(u) == [n \in DOMAIN q[u].notes |->
                      IF <<u, n>> \in os THEN [q[u].notes[n] EXCEPT !.spend = sp] ELSE q[u].notes[n]]
           w == [u \in Txs |-> [q[u] EXCEPT !.notes = f(u)]]
<1>1. ASSUME NEW u \in Txs PROVE RecOK(T, u, w[u])
  <2>1. RecOK(T, u, q[u]) /\ NotesOK(q[u].notes, NotesTo(u))
    BY DEF MapOK, RecOK
  <2>2. NotesOK(f(u), NotesTo(u))
    <3>1. ASSUME NEW n \in DOMAIN q[u].notes PROVE NoteOK([q[u].notes[n] EXCEPT !.spend = sp])
      <4> DEFINE note == q[u].notes[n]
      <4>1. NoteOK(note)
        BY <2>1 DEF NotesOK
      <4> HIDE DEF note
      <4>2. [note EXCEPT !.spend = sp] = [nf |-> note.nf, index |-> note.index, memo |-> note.memo, spend |-> sp]
        BY <4>1 DEF NoteOK, IsNote
      <4>3. NoteOK([nf |-> note.nf, index |-> note.index, memo |-> note.memo, spend |-> sp])
        BY DEF NoteOK, IsNote, SpendOK
      <4> QED BY <4>2, <4>3 DEF note
    <3>2. \A n \in DOMAIN q[u].notes : NoteOK(f(u)[n])
      BY <2>1, <3>1 DEF NotesOK
    <3> QED BY <2>1, <3>2 DEF NotesOK
  <2> HIDE DEF f
  <2> QED BY <2>1, <2>2, FieldsSet
<1>2. w = [u \in Txs |-> w[u]]
  OBVIOUS
<1>3. MapOK(T, w)
  <2> HIDE DEF w
  <2> QED BY <1>1, <1>2 DEF MapOK
<1> QED BY <1>3 DEF MarkNotes

\* The spends of some of the coins of all records are written.
LEMMA CoinsMarked ==
  ASSUME NEW T, NEW q, MapOK(T, q), NEW os, NEW sp, SpendOK(sp)
  PROVE  MapOK(T, MarkCoins(q, os, sp))
<1> DEFINE f(u) == [n \in DOMAIN q[u].coins |-> IF <<u, n>> \in os THEN sp ELSE q[u].coins[n]]
           w == [u \in Txs |-> [q[u] EXCEPT !.coins = f(u)]]
<1>1. ASSUME NEW u \in Txs PROVE RecOK(T, u, w[u])
  <2>1. RecOK(T, u, q[u]) /\ CoinsOK(q[u].coins, CoinsTo(u))
    BY DEF MapOK, RecOK
  <2>2. CoinsOK(f(u), CoinsTo(u))
    <3>1. \A n \in DOMAIN q[u].coins : SpendOK(f(u)[n])
      BY <2>1 DEF CoinsOK
    <3> QED BY <2>1, <3>1 DEF CoinsOK
  <2> HIDE DEF f
  <2> QED BY <2>1, <2>2, FieldsSet
<1>2. w = [u \in Txs |-> w[u]]
  OBVIOUS
<1>3. MapOK(T, w)
  <2> HIDE DEF w
  <2> QED BY <1>1, <1>2 DEF MapOK
<1> QED BY <1>3 DEF MarkCoins

\* found_spent_nullifier
LEMMA FoundSpentOK ==
  ASSUME NEW T, NEW q, MapOK(T, q), NEW t \in Txs, NEW st, IsSeen(T, t, st), NEW os \in SUBSET OutIds
  PROVE  MapOK(T, FoundSpent(q, t, st, os))
<1> DEFINE sp == [by |-> t, status |-> st]
           marked == MarkNotes(q, os, sp)
           p == S!CreateModify(marked, t, st)
           l == p[t].listed \cup os
           w == [p EXCEPT ![t].listed = l]
<1>1. FoundSpent(q, t, st, os) = IF os = {} THEN q ELSE w
  BY DEF FoundSpent, MarkNotes
<1>2. SpendOK(sp)
  BY MarkOK
<1> HIDE DEF sp
<1>3. MapOK(T, marked)
  BY <1>2, NotesMarked
<1> HIDE DEF marked
<1>4. MapOK(T, p)
  BY <1>3, CreateOK DEF IsSeen
<1> HIDE DEF p
<1>5. RecOK(T, t, p[t]) /\ l \subseteq OutIds
  BY <1>4 DEF MapOK, RecOK
<1> HIDE DEF l
<1>6. RecOK(T, t, [p[t] EXCEPT !.listed = l])
  BY <1>5, FieldsSet
<1>7. w = [u \in Txs |-> w[u]] /\ w[t] = [p[t] EXCEPT !.listed = l] /\ \A u \in Txs : u # t => w[u] = p[u]
  BY <1>4 DEF MapOK
<1> HIDE DEF w
<1>8. MapOK(T, w)
  BY <1>4, <1>6, <1>7, RecordSet
<1> QED BY <1>1, <1>8

\* There are finitely many outputs.
LEMMA FiniteOuts == IsFiniteSet(Txs) /\ IsFiniteSet(OutIds)
<1>1. IsFiniteSet(Txs)
  <2> DEFINE n == Len(Order)
  <2>1. n \in Nat /\ DOMAIN Order = 1 .. n /\ (\A i \in 1 .. n : Order[i] \in Txs) /\ Range(Order) = Txs
    BY LedgerAssumption, Elements
  <2>2. IsFiniteSet(1 .. n)
    BY <2>1, FS_Interval
  <2>3. Order \in [1 .. n -> Txs]
    BY <2>1, LedgerAssumption
  <2>4. Order \in Surjection(1 .. n, Txs)
    BY <2>1, <2>3 DEF Surjection, Range
  <2> HIDE DEF n
  <2> QED BY <2>2, <2>4, FS_Surjection
<1>2. IsFiniteSet(OutIds)
  <2> DEFINE f == [t \in Txs |-> {t} \X DOMAIN Outs[t]]
             T == {{t} \X DOMAIN Outs[t] : t \in Txs}
  <2>1. f \in Surjection(Txs, T)
    BY DEF Surjection
  <2>2. \A x \in T : IsFiniteSet(x)
    <3> SUFFICES ASSUME NEW t \in Txs PROVE IsFiniteSet({t} \X DOMAIN Outs[t])
      OBVIOUS
    <3>1. IsFiniteSet({t}) /\ IsFiniteSet(DOMAIN Outs[t])
      BY FS_Singleton, LedgerAssumption
    <3> QED BY <3>1, FS_Product
  <2>3. OutIds = UNION T
    BY DEF OutIds
  <2> HIDE DEF T, f
  <2>4. IsFiniteSet(T)
    BY <1>1, <2>1, FS_Surjection
  <2> QED BY <2>2, <2>3, <2>4, FS_UNION
<1> QED BY <1>1, <1>2

\* A total is the sum of one function over a set of outputs.
Worth == [o \in OutIds |-> Value(o)]

\* What a set of outputs is worth.
LEMMA TotalIs ==
  ASSUME NEW os \in SUBSET OutIds
  PROVE  /\ IsFiniteSet(os) /\ Total(os) = SumFunctionOnSet(Worth, os) /\ Total(os) \in Nat
         /\ \A o \in os : Worth[o] \in Nat
<1> DEFINE f == [o \in os |-> Value(o)]
<1>1. IsFiniteSet(os)
  BY FiniteOuts, FS_Subset
<1>2. \A o \in os : f[o] \in Nat /\ f[o] \in Int /\ f[o] = Worth[o] /\ Worth[o] \in Nat
  BY LedgerAssumption DEF Worth
<1>3. Total(os) = SumFunctionOnSet(f, os)
  BY DEF Total, SumFunction
<1> HIDE DEF f
<1>4. SumFunctionOnSet(f, os) = SumFunctionOnSet(Worth, os)
  BY <1>1, <1>2, SumSame
<1>5. SumFunctionOnSet(f, os) \in Nat
  BY <1>1, <1>2, SumNat
<1> QED BY <1>1, <1>2, <1>3, <1>4, <1>5

\* add_new_taddr_output
LEMMA AddCoinsOK ==
  ASSUME NEW T, NEW q, MapOK(T, q), NEW t \in Txs, NEW st, IsSeen(T, t, st)
  PROVE  MapOK(T, AddCoins(q, t, st))
<1> DEFINE p == S!CreateModify(q, t, st)
           old == p[t].coins
           f == [n \in DOMAIN old \cup CoinsTo(t) |-> IF n \in DOMAIN old THEN old[n] ELSE S!Unspent]
           w == [p EXCEPT ![t].coins = f]
<1>1. AddCoins(q, t, st) = IF CoinsTo(t) = {} THEN q ELSE w
  BY DEF AddCoins
<1>2. MapOK(T, p)
  BY CreateOK DEF IsSeen
<1>3. RecOK(T, t, p[t]) /\ CoinsOK(old, CoinsTo(t))
  BY <1>2 DEF MapOK, RecOK
<1> HIDE DEF p, old
<1>4. CoinsOK(f, CoinsTo(t))
  <2>1. DOMAIN f = DOMAIN old \cup CoinsTo(t) /\ f = [n \in DOMAIN f |-> f[n]]
    OBVIOUS
  <2>2. \A n \in DOMAIN old \cup CoinsTo(t) : SpendOK(f[n])
    BY <1>3, UnspentOK DEF CoinsOK
  <2>3. DOMAIN f \subseteq CoinsTo(t)
    BY <1>3, <2>1 DEF CoinsOK
  <2> QED BY <2>1, <2>2, <2>3 DEF CoinsOK
<1> HIDE DEF f
<1>5. RecOK(T, t, [p[t] EXCEPT !.coins = f])
  BY <1>3, <1>4, FieldsSet
<1>6. w = [u \in Txs |-> w[u]] /\ w[t] = [p[t] EXCEPT !.coins = f] /\ \A u \in Txs : u # t => w[u] = p[u]
  BY <1>2 DEF MapOK
<1> HIDE DEF w
<1>7. MapOK(T, w)
  BY <1>2, <1>5, <1>6, RecordSet
<1> QED BY <1>1, <1>7

\* mark_txid_utxo_spent and add_taddr_spent
LEMMA SpendCoinsOK ==
  ASSUME NEW T, NEW q, MapOK(T, q), NEW t \in Txs, NEW st, IsSeen(T, t, st), NEW os \in SUBSET OutIds
  PROVE  MapOK(T, SpendCoins(q, t, st, os))
<1> DEFINE sp == [by |-> t, status |-> st]
           paid == MarkCoins(q, os, sp)
           p == S!CreateModify(paid, t, st)
           k == Total(os)
           w == [p EXCEPT ![t].tspent = k]
<1>1. SpendCoins(q, t, st, os) = IF os = {} THEN q ELSE w
  BY DEF SpendCoins, MarkCoins
<1>2. SpendOK(sp)
  BY MarkOK
<1> HIDE DEF sp
<1>3. MapOK(T, paid)
  BY <1>2, CoinsMarked
<1> HIDE DEF paid
<1>4. MapOK(T, p)
  BY <1>3, CreateOK DEF IsSeen
<1> HIDE DEF p
<1>5. RecOK(T, t, p[t]) /\ k \in Nat
  BY <1>4, TotalIs DEF MapOK
<1> HIDE DEF k
<1>6. RecOK(T, t, [p[t] EXCEPT !.tspent = k])
  BY <1>5, FieldsSet
<1>7. w = [u \in Txs |-> w[u]] /\ w[t] = [p[t] EXCEPT !.tspent = k] /\ \A u \in Txs : u # t => w[u] = p[u]
  BY <1>4 DEF MapOK
<1> HIDE DEF w
<1>8. MapOK(T, w)
  BY <1>4, <1>6, <1>7, RecordSet
<1> QED BY <1>1, <1>8

\* A scan of the transparent part.
LEMMA ScanTransparentOK ==
  ASSUME NEW T, NEW q, MapOK(T, q), NEW t \in Txs, NEW st, IsSeen(T, t, st)
  PROVE  MapOK(T, ScanTransparent(q, t, st))
<1> DEFINE got == AddCoins(q, t, st)
           os == {o \in Ins[t] : HasCoin(got, o)}
<1>1. MapOK(T, got)
  BY AddCoinsOK
<1>2. os \in SUBSET OutIds
  BY LedgerAssumption
<1>3. ScanTransparent(q, t, st) = SpendCoins(got, t, st, os)
  BY DEF ScanTransparent
<1> HIDE DEF got, os
<1> QED BY <1>1, <1>2, <1>3, SpendCoinsOK

\* A scan of the notes to the wallet.
LEMMA ScanReceiptsOK ==
  ASSUME NEW T, NEW q, MapOK(T, q), NEW t \in Txs, NEW st, IsSeen(T, t, st)
  PROVE  MapOK(T, ScanReceipts(q, t, st))
<1> DEFINE p == S!CreateModify(q, t, st)
           add == IF S!IsConfirmed(st) THEN {} ELSE NotesTo(t)
           old == p[t].notes
           from(n) == IF n \in DOMAIN old THEN old[n] ELSE PendingNote
           f == [n \in DOMAIN old \cup add |-> ReadNote(from(n), t, n, st)]
           w == [p EXCEPT ![t].notes = f]
<1>1. ScanReceipts(q, t, st) = IF NotesTo(t) = {} THEN q ELSE w
  BY DEF ScanReceipts
<1>2. MapOK(T, p)
  BY CreateOK DEF IsSeen
<1>3. RecOK(T, t, p[t]) /\ NotesOK(old, NotesTo(t)) /\ add \subseteq NotesTo(t)
  BY <1>2 DEF MapOK, RecOK
<1> HIDE DEF p, old, add
<1>4. ASSUME NEW note, NoteOK(note), NEW n PROVE NoteOK(ReadNote(note, t, n, st))
  <2> DEFINE i == note.index \/ S!IsConfirmed(st)
             e == Outs[t][n].memo
  <2>1. ReadNote(note, t, n, st) = [note EXCEPT !.index = i, !.memo = e]
    BY DEF ReadNote
  <2> HIDE DEF i, e
  <2>2. [note EXCEPT !.index = i, !.memo = e] = [nf |-> note.nf, index |-> i, memo |-> e, spend |-> note.spend]
    <3>1. note = [nf |-> note.nf, index |-> note.index, memo |-> note.memo, spend |-> note.spend]
      BY <1>4 DEF NoteOK, IsNote
    <3> DEFINE x == [note EXCEPT !.index = i]
    <3>2. x = [nf |-> note.nf, index |-> i, memo |-> note.memo, spend |-> note.spend]
      BY <3>1
    <3>3. [note EXCEPT !.index = i, !.memo = e] = [x EXCEPT !.memo = e]
      OBVIOUS
    <3> HIDE DEF x
    <3>4. [x EXCEPT !.memo = e] = [nf |-> note.nf, index |-> i, memo |-> e, spend |-> note.spend]
      BY <3>2
    <3> QED BY <3>3, <3>4
  <2>3. NoteOK([nf |-> note.nf, index |-> i, memo |-> e, spend |-> note.spend])
    BY <1>4 DEF NoteOK, IsNote
  <2> QED BY <2>1, <2>2, <2>3
<1>5. NoteOK(PendingNote)
  BY UnspentOK DEF PendingNote, NoteOK, IsNote, SpendOK
<1>6. \A n \in DOMAIN old \cup add : NoteOK(from(n))
  BY <1>3, <1>5 DEF NotesOK
<1> HIDE DEF from
<1>7. NotesOK(f, NotesTo(t))
  <2>1. DOMAIN f = DOMAIN old \cup add /\ f = [n \in DOMAIN f |-> f[n]]
    OBVIOUS
  <2>2. \A n \in DOMAIN old \cup add : NoteOK(f[n])
    BY <1>4, <1>6
  <2>3. DOMAIN f \subseteq NotesTo(t)
    BY <1>3, <2>1 DEF NotesOK
  <2> QED BY <2>1, <2>2, <2>3 DEF NotesOK
<1> HIDE DEF f
<1>8. RecOK(T, t, [p[t] EXCEPT !.notes = f])
  BY <1>3, <1>7, FieldsSet
<1>9. w = [u \in Txs |-> w[u]] /\ w[t] = [p[t] EXCEPT !.notes = f] /\ \A u \in Txs : u # t => w[u] = p[u]
  BY <1>2 DEF MapOK
<1> HIDE DEF w
<1>10. MapOK(T, w)
  BY <1>2, <1>8, <1>9, RecordSet
<1> QED BY <1>1, <1>10

\* decrypt_transaction_to_record
LEMMA ScanRecordOK ==
  ASSUME NEW T, NEW q, MapOK(T, q), NEW t \in Txs, NEW st, IsSeen(T, t, st)
  PROVE  MapOK(T, ScanRecord(q, t, st))
<1> DEFINE a == ScanTransparent(q, t, st)
           p == ScanReceipts(a, t, st)
           os == {o \in Ins[t] : HasNullifier(p, o) /\ IsUnspent(p, o)}
<1>1. MapOK(T, a)
  BY ScanTransparentOK
<1>2. ScanRecord(q, t, st) = IF S!IsConfirmed(st) THEN p ELSE FoundSpent(p, t, st, os)
  BY DEF ScanRecord
<1>3. os \in SUBSET OutIds
  BY LedgerAssumption
<1> HIDE DEF a
<1>4. MapOK(T, p)
  BY <1>1, ScanReceiptsOK
<1> HIDE DEF p, os
<1>5. MapOK(T, FoundSpent(p, t, st, os))
  BY <1>3, <1>4, FoundSpentOK
<1> QED BY <1>2, <1>4, <1>5

\* What a scan collects are outputs to others.
LEMMA OutgoingTo ==
  ASSUME NEW q, NEW t
  PROVE  DOMAIN Outgoing(q, t) \subseteq ToOthers(t)
BY DEF Outgoing

\* add_outgoing_metadata
LEMMA WriteOutgoingOK ==
  ASSUME NEW T, NEW q, MapOK(T, q), NEW t \in Txs, NEW out, DOMAIN out \subseteq ToOthers(t)
  PROVE  MapOK(T, WriteOutgoing(q, t, out))
<1> DEFINE uas == {Outs[t][n].ua : n \in {k \in ToOthers(t) : \E j \in NotesTo(t) : Outs[t][j].memo = "zingo"}}
           f == [n \in DOMAIN out |-> IF Outs[t][n].ua \in uas \ {"none"} THEN Outs[t][n].ua ELSE out[n]]
           w == [q EXCEPT ![t].outgoing = f]
<1>1. WriteOutgoing(q, t, out) = IF t \notin S!Known(q) THEN q ELSE w
  BY DEF WriteOutgoing
<1>2. DOMAIN f \subseteq ToOthers(t)
  OBVIOUS
<1> HIDE DEF uas, f
<1>3. RecOK(T, t, [q[t] EXCEPT !.outgoing = f])
  <2>1. RecOK(T, t, q[t])
    BY DEF MapOK
  <2> QED BY <1>2, <2>1, FieldsSet
<1>4. w = [u \in Txs |-> w[u]] /\ w[t] = [q[t] EXCEPT !.outgoing = f] /\ \A u \in Txs : u # t => w[u] = q[u]
  BY DEF MapOK
<1> HIDE DEF w
<1>5. MapOK(T, w)
  BY <1>3, <1>4, RecordSet
<1> QED BY <1>1, <1>5

\* invalidate_transactions
LEMMA InvalidateOK ==
  ASSUME NEW T, NEW q, MapOK(T, q), NEW gone
  PROVE  MapOK(T, Invalidate(q, gone))
<1> DEFINE f(t) == [n \in DOMAIN q[t].notes |-> IF q[t].notes[n].spend.by \in gone
                                                  THEN [q[t].notes[n] EXCEPT !.spend = S!Unspent]
                                                  ELSE q[t].notes[n]]
           c(t) == [n \in DOMAIN q[t].coins |-> IF q[t].coins[n].by \in gone THEN S!Unspent ELSE q[t].coins[n]]
           w == [t \in Txs |-> IF t \in gone THEN NoRecord ELSE [q[t] EXCEPT !.notes = f(t), !.coins = c(t)]]
<1>1. Invalidate(q, gone) = w
  BY DEF Invalidate
<1>2. w = [t \in Txs |-> w[t]]
  OBVIOUS
<1>3. ASSUME NEW t \in Txs PROVE RecOK(T, t, w[t])
  <2>1. RecOK(T, t, q[t]) /\ NotesOK(q[t].notes, NotesTo(t)) /\ CoinsOK(q[t].coins, CoinsTo(t))
    BY DEF MapOK, RecOK
  <2>2. NotesOK(f(t), NotesTo(t))
    <3>1. ASSUME NEW n \in DOMAIN q[t].notes PROVE NoteOK([q[t].notes[n] EXCEPT !.spend = S!Unspent])
      <4> DEFINE note == q[t].notes[n]
                 sp == S!Unspent
      <4>1. NoteOK(note) /\ SpendOK(sp)
        BY <2>1, UnspentOK DEF NotesOK
      <4> HIDE DEF note, sp
      <4>2. [note EXCEPT !.spend = sp] = [nf |-> note.nf, index |-> note.index, memo |-> note.memo, spend |-> sp]
        BY <4>1 DEF NoteOK, IsNote
      <4>3. NoteOK([nf |-> note.nf, index |-> note.index, memo |-> note.memo, spend |-> sp])
        BY <4>1 DEF NoteOK, IsNote, SpendOK
      <4> QED BY <4>2, <4>3 DEF note, sp
    <3>2. \A n \in DOMAIN q[t].notes : NoteOK(f(t)[n])
      BY <2>1, <3>1 DEF NotesOK
    <3> QED BY <2>1, <3>2 DEF NotesOK
  <2>3. CoinsOK(c(t), CoinsTo(t))
    <3>1. \A n \in DOMAIN q[t].coins : SpendOK(c(t)[n])
      BY <2>1, UnspentOK DEF CoinsOK
    <3> QED BY <2>1, <3>1 DEF CoinsOK
  <2>4. w[t] = IF t \in gone THEN NoRecord ELSE [q[t] EXCEPT !.notes = f(t), !.coins = c(t)]
    OBVIOUS
  <2> HIDE DEF w, f, c
  <2> DEFINE x == [q[t] EXCEPT !.notes = f(t)]
  <2>5. [q[t] EXCEPT !.notes = f(t), !.coins = c(t)] = [x EXCEPT !.coins = c(t)]
    OBVIOUS
  <2>6. RecOK(T, t, x)
    BY <2>1, <2>2, FieldsSet
  <2> HIDE DEF x
  <2>7. RecOK(T, t, [x EXCEPT !.coins = c(t)])
    BY <2>3, <2>6, FieldsSet
  <2> QED BY <2>4, <2>5, <2>7, NoRecordOK
<1> HIDE DEF w
<1> QED BY <1>1, <1>2, <1>3 DEF MapOK

\* A record of the map has the type of records.
LEMMA RecOKIsRecord ==
  ASSUME NEW T, NEW t, NEW r, RecOK(T, t, r)
  PROVE  IsRecord(r)
<1>1. NotesOK(r.notes, NotesTo(t)) /\ CoinsOK(r.coins, CoinsTo(t)) /\ IsShaped(r) /\ r.status \in S!Statuses
  BY DEF RecOK
<1>2. (\A n \in DOMAIN r.notes : IsNote(r.notes[n])) /\ r.notes = [n \in DOMAIN r.notes |-> r.notes[n]]
  BY <1>1 DEF NotesOK, NoteOK
<1>3. (\A n \in DOMAIN r.coins : IsSpend(r.coins[n])) /\ r.coins = [n \in DOMAIN r.coins |-> r.coins[n]]
  BY <1>1 DEF CoinsOK, SpendOK
<1> QED BY <1>1, <1>2, <1>3 DEF IsRecord, IsShaped

\* What is read from a file that was written is again a map of records.
LEMMA FileOK ==
  ASSUME NEW T, NEW q, MapOK(T, q)
  PROVE  MapOK(T, Restore(Store(q)))
<1> DEFINE w == Restore(Store(q))
           kept == {u \in S!Known(q) : S!IsConfirmed(q[u].status) \/ IsOutgoing(u, q[u])}
<1>1. Store(q) = [t \in kept |-> StoreRecord(q[t])]
  BY DEF Store
<1> HIDE DEF kept
<1>2. \A t \in Txs : w[t] = IF t \in kept THEN RestoreRecord(StoreRecord(q[t])) ELSE NoRecord
  BY <1>1 DEF Restore
<1>3. w = [t \in Txs |-> w[t]]
  BY DEF Restore
<1>4. ASSUME NEW t \in Txs PROVE RecOK(T, t, RestoreRecord(StoreRecord(q[t])))
  <2> DEFINE r == q[t]
             st == IF S!IsConfirmed(r.status) THEN r.status ELSE S!Transmitted(r.status.height)
             c == ForgetPending(r).coins
  <2>1. RecOK(T, t, r)
    BY DEF MapOK
  <2> HIDE DEF r
  <2>2. IsRecord(r)
    BY <2>1, RecOKIsRecord
  <2>3. RestoreRecord(StoreRecord(r)) =
           [status |-> st, notes |-> r.notes, coins |-> c, listed |-> r.listed,
            tspent |-> r.tspent, outgoing |-> r.outgoing]
    BY <2>2, RecordKept
  <2>4. st \in S!Statuses /\ (S!IsConfirmed(st) => S!IsConfirmed(r.status))
    BY <2>2 DEF IsRecord, S!Statuses, S!Transmitted, S!Kinds, S!IsConfirmed
  <2>5. c = [n \in DOMAIN r.coins |-> IF S!IsConfirmed(r.coins[n].status) THEN r.coins[n] ELSE S!Unspent]
    BY <2>2 DEF ForgetPending, IsRecord
  <2>6. CoinsOK(c, CoinsTo(t))
    <3>1. CoinsOK(r.coins, CoinsTo(t))
      BY <2>1 DEF RecOK
    <3> HIDE DEF c
    <3>2. DOMAIN c = DOMAIN r.coins /\ c = [n \in DOMAIN c |-> c[n]]
      BY <2>5
    <3>3. \A n \in DOMAIN r.coins : SpendOK(c[n])
      BY <2>5, <3>1, UnspentOK DEF CoinsOK
    <3> QED BY <3>1, <3>2, <3>3 DEF CoinsOK
  <2> HIDE DEF st, c
  <2> DEFINE v == [status |-> st, notes |-> r.notes, coins |-> c, listed |-> r.listed,
                   tspent |-> r.tspent, outgoing |-> r.outgoing]
  <2>7. /\ v.status = st /\ v.notes = r.notes /\ v.coins = c /\ v.listed = r.listed
        /\ v.tspent = r.tspent /\ v.outgoing = r.outgoing /\ IsShaped(v)
    BY DEF IsShaped
  <2>8. RecOK(T, t, v)
    <3> HIDE DEF v
    <3> QED BY <2>1, <2>4, <2>6, <2>7 DEF RecOK
  <2> QED BY <2>3, <2>8 DEF r
<1> HIDE DEF w
<1>5. MapOK(T, w)
  BY <1>2, <1>3, <1>4, NoRecordOK DEF MapOK
<1> QED BY <1>5 DEF w

\* A record of a file without output indices.
LEMMA OldRecordOK ==
  ASSUME NEW T, NEW t \in T
  PROVE  RecOK(T, t, OldRecord(t))
<1> DEFINE st == S!Confirmed(1)
           f == [n \in NotesTo(t) |-> [nf |-> TRUE, index |-> FALSE, memo |-> Outs[t][n].memo, spend |-> S!Unspent]]
           c == [n \in CoinsTo(t) |-> S!Unspent]
           x == [NoRecord EXCEPT !.status = st]
           y == [x EXCEPT !.notes = f]
<1>1. OldRecord(t) = [NoRecord EXCEPT !.status = st, !.notes = f, !.coins = c]
  BY DEF OldRecord
<1>2. st \in S!Statuses
  BY DEF S!Confirmed, S!Statuses, S!Kinds
<1>3. NotesOK(f, NotesTo(t))
  <2>1. ASSUME NEW n \in NotesTo(t) PROVE NoteOK(f[n])
    <3> DEFINE e == Outs[t][n].memo
    <3>1. f[n] = [nf |-> TRUE, index |-> FALSE, memo |-> e, spend |-> S!Unspent]
      OBVIOUS
    <3> HIDE DEF e
    <3>2. NoteOK([nf |-> TRUE, index |-> FALSE, memo |-> e, spend |-> S!Unspent])
      BY UnspentOK DEF NoteOK, IsNote, SpendOK
    <3> QED BY <3>1, <3>2
  <2> QED BY <2>1 DEF NotesOK
<1>4. CoinsOK(c, CoinsTo(t))
  BY UnspentOK DEF CoinsOK
<1> HIDE DEF st, f, c
<1>5. [NoRecord EXCEPT !.status = st, !.notes = f, !.coins = c] = [y EXCEPT !.coins = c]
  OBVIOUS
<1>6. RecOK(T, t, x)
  BY <1>2, NoRecordOK, FieldsSet
<1> HIDE DEF x
<1>7. RecOK(T, t, y)
  BY <1>3, <1>6, FieldsSet
<1> HIDE DEF y
<1>8. RecOK(T, t, [y EXCEPT !.coins = c])
  BY <1>4, <1>7, FieldsSet
<1> QED BY <1>1, <1>5, <1>8
-----------------------------------------------------------------------------
(* What a batch has to do is about transactions of the chain.  T are the     *)
(* transactions that are mined, and h is the height of the chain.            *)

NotesIn(x, T) == \A o \in x : o \in OutIds /\ o[1] \in T /\ o[2] \in NotesTo(o[1])
UpdatesIn(x, T) == \A u \in x : u.out \in OutIds /\ (u.fetch => u.out[1] \in T)
ScansIn(x, T) == \A j \in x : j.tx \in T
WritesIn(x, T) == \A w \in x : w.tx \in T /\ DOMAIN w.out \subseteq ToOthers(w.tx)
QueueIn(s, T) == s \in Seq(Txs) /\ AllIn(s, T)

IsBatch(b) ==
  b = [target |-> b.target, tasks |-> b.tasks, notes |-> b.notes, updates |-> b.updates, scans |-> b.scans,
       writes |-> b.writes, queue |-> b.queue, failed |-> b.failed]

BatchOK(b, T, h) ==
  /\ IsBatch(b) /\ b.target \in 0 .. h
  /\ NotesIn(b.notes, T) /\ UpdatesIn(b.updates, T) /\ ScansIn(b.scans, T) /\ WritesIn(b.writes, T)
  /\ QueueIn(b.queue, T)

\* Between two batches.
LEMMA NoBatchOK ==
  ASSUME NEW T, NEW h \in Nat
  PROVE  BatchOK(NoBatch, T, h)
<1>1. /\ NoBatch.target = 0 /\ NoBatch.notes = {} /\ NoBatch.updates = {} /\ NoBatch.scans = {}
      /\ NoBatch.writes = {} /\ NoBatch.queue = << >> /\ IsBatch(NoBatch)
  BY DEF NoBatch, IsBatch
<1>2. QueueIn(<< >>, T)
  BY EmptyAllIn DEF QueueIn
<1> QED BY <1>1, <1>2 DEF BatchOK, NotesIn, UpdatesIn, ScansIn, WritesIn

\* One field of a batch is written.
LEMMA BatchSet ==
  ASSUME NEW b, NEW T, NEW h, BatchOK(b, T, h), NEW x
  PROVE  /\ BatchOK([b EXCEPT !.tasks = x], T, h) /\ BatchOK([b EXCEPT !.failed = x], T, h)
         /\ x \in 0 .. h => BatchOK([b EXCEPT !.target = x], T, h)
         /\ NotesIn(x, T) => BatchOK([b EXCEPT !.notes = x], T, h)
         /\ UpdatesIn(x, T) => BatchOK([b EXCEPT !.updates = x], T, h)
         /\ ScansIn(x, T) => BatchOK([b EXCEPT !.scans = x], T, h)
         /\ WritesIn(x, T) => BatchOK([b EXCEPT !.writes = x], T, h)
         /\ QueueIn(x, T) => BatchOK([b EXCEPT !.queue = x], T, h)
<1>0. IsBatch(b)
  BY DEF BatchOK
<1>1. BatchOK([b EXCEPT !.tasks = x], T, h)
  <2>1. [b EXCEPT !.tasks = x] =
          [target |-> b.target, tasks |-> x, notes |-> b.notes, updates |-> b.updates, scans |-> b.scans,
           writes |-> b.writes, queue |-> b.queue, failed |-> b.failed]
    BY <1>0 DEF IsBatch
  <2> QED BY <2>1 DEF BatchOK, IsBatch
<1>2. BatchOK([b EXCEPT !.failed = x], T, h)
  <2>1. [b EXCEPT !.failed = x] =
          [target |-> b.target, tasks |-> b.tasks, notes |-> b.notes, updates |-> b.updates, scans |-> b.scans,
           writes |-> b.writes, queue |-> b.queue, failed |-> x]
    BY <1>0 DEF IsBatch
  <2> QED BY <2>1 DEF BatchOK, IsBatch
<1>3. ASSUME x \in 0 .. h PROVE BatchOK([b EXCEPT !.target = x], T, h)
  <2>1. [b EXCEPT !.target = x] =
          [target |-> x, tasks |-> b.tasks, notes |-> b.notes, updates |-> b.updates, scans |-> b.scans,
           writes |-> b.writes, queue |-> b.queue, failed |-> b.failed]
    BY <1>0 DEF IsBatch
  <2> QED BY <1>3, <2>1 DEF BatchOK, IsBatch
<1>4. ASSUME NotesIn(x, T) PROVE BatchOK([b EXCEPT !.notes = x], T, h)
  <2>1. [b EXCEPT !.notes = x] =
          [target |-> b.target, tasks |-> b.tasks, notes |-> x, updates |-> b.updates, scans |-> b.scans,
           writes |-> b.writes, queue |-> b.queue, failed |-> b.failed]
    BY <1>0 DEF IsBatch
  <2> QED BY <1>4, <2>1 DEF BatchOK, IsBatch
<1>5. ASSUME UpdatesIn(x, T) PROVE BatchOK([b EXCEPT !.updates = x], T, h)
  <2>1. [b EXCEPT !.updates = x] =
          [target |-> b.target, tasks |-> b.tasks, notes |-> b.notes, updates |-> x, scans |-> b.scans,
           writes |-> b.writes, queue |-> b.queue, failed |-> b.failed]
    BY <1>0 DEF IsBatch
  <2> QED BY <1>5, <2>1 DEF BatchOK, IsBatch
<1>6. ASSUME ScansIn(x, T) PROVE BatchOK([b EXCEPT !.scans = x], T, h)
  <2>1. [b EXCEPT !.scans = x] =
          [target |-> b.target, tasks |-> b.tasks, notes |-> b.notes, updates |-> b.updates, scans |-> x,
           writes |-> b.writes, queue |-> b.queue, failed |-> b.failed]
    BY <1>0 DEF IsBatch
  <2> QED BY <1>6, <2>1 DEF BatchOK, IsBatch
<1>7. ASSUME WritesIn(x, T) PROVE BatchOK([b EXCEPT !.writes = x], T, h)
  <2>1. [b EXCEPT !.writes = x] =
          [target |-> b.target, tasks |-> b.tasks, notes |-> b.notes, updates |-> b.updates, scans |-> b.scans,
           writes |-> x, queue |-> b.queue, failed |-> b.failed]
    BY <1>0 DEF IsBatch
  <2> QED BY <1>7, <2>1 DEF BatchOK, IsBatch
<1>8. ASSUME QueueIn(x, T) PROVE BatchOK([b EXCEPT !.queue = x], T, h)
  <2>1. [b EXCEPT !.queue = x] =
          [target |-> b.target, tasks |-> b.tasks, notes |-> b.notes, updates |-> b.updates, scans |-> b.scans,
           writes |-> b.writes, queue |-> x, failed |-> b.failed]
    BY <1>0 DEF IsBatch
  <2> QED BY <1>8, <2>1 DEF BatchOK, IsBatch
<1> QED BY <1>1, <1>2, <1>3, <1>4, <1>5, <1>6, <1>7, <1>8

\* The chain grows.
LEMMA BatchGrows ==
  ASSUME NEW b, NEW T, NEW h \in Nat, BatchOK(b, T, h), NEW T2, T \subseteq T2, NEW h2 \in Nat, h <= h2
  PROVE  BatchOK(b, T2, h2)
<1>1. b.target \in 0 .. h2
  BY DEF BatchOK
<1>2. NotesIn(b.notes, T2) /\ UpdatesIn(b.updates, T2)
  BY DEF BatchOK, NotesIn, UpdatesIn
<1>3. ScansIn(b.scans, T2) /\ WritesIn(b.writes, T2)
  BY DEF BatchOK, ScansIn, WritesIn
<1>4. QueueIn(b.queue, T2)
  BY WiderAllIn DEF BatchOK, QueueIn, AllIn
<1> QED BY <1>1, <1>2, <1>3, <1>4 DEF BatchOK

\* The heights that the wallet, its file and its batch know of are heights of
\* the chain, and so are the transactions that its workers have to do with.
Heights ==
  /\ made \in DOMAIN MaxSize /\ tip \in 1 .. MaxSize[made] /\ tip \in Nat /\ synced \in 0 .. tip
  /\ mined = [t \in Txs |-> mined[t]] /\ \A t \in Txs : mined[t] \in 0 .. tip
  /\ faults \in Nat /\ restarts \in Nat /\ cut \subseteq Mined
  /\ file.synced \in 0 .. tip

LedgerInv == Heights /\ MapOK(Mined, m) /\ MapOK(Mined, Restore(file.recs)) /\ BatchOK(batch, Mined, tip)

\* The invariant implies the types.
LEMMA LedgerInvTypes == LedgerInv => TypeOK
<1> SUFFICES ASSUME LedgerInv PROVE TypeOK
  OBVIOUS
<1>1. Heights /\ MapOK(Mined, m) /\ BatchOK(batch, Mined, tip)
  BY DEF LedgerInv
<1>2. IsRecordMap(m)
  BY <1>1, RecOKIsRecord DEF MapOK, IsRecordMap
<1>3. ASSUME NEW t \in Txs
      PROVE  /\ DOMAIN m[t].notes \subseteq NotesTo(t) /\ DOMAIN m[t].coins \subseteq CoinsTo(t)
             /\ DOMAIN m[t].outgoing \subseteq ToOthers(t)
             /\ m[t].listed \subseteq OutIds /\ m[t].tspent \in Nat
  BY <1>1 DEF MapOK, RecOK, NotesOK, CoinsOK
<1>4. batch.target \in 0 .. tip /\ batch.notes \subseteq OutIds /\ \A j \in batch.scans \cup batch.writes : j.tx \in Mined
  BY <1>1 DEF BatchOK, NotesIn, ScansIn, WritesIn
<1> QED BY <1>1, <1>2, <1>3, <1>4 DEF TypeOK, Heights

\* The first state: a wallet that knows nothing, or an old file.
LEMMA LedgerInit == Init => LedgerInv
<1> SUFFICES ASSUME Init PROVE LedgerInv
  OBVIOUS
<1>1. PICK old \in {{}, OldFile \cap made} :
        /\ tip = 1 /\ mined = [t \in Txs |-> IF t \in old THEN 1 ELSE 0]
        /\ m = [t \in Txs |-> IF t \in old THEN OldRecord(t) ELSE NoRecord]
        /\ synced = 1 /\ batch = NoBatch /\ file = [recs |-> Store(m), synced |-> synced]
        /\ cut = {} /\ faults = 0 /\ restarts = 0
  BY DEF Init
<1>2. MapOK(Mined, m)
  <2>1. m = [t \in Txs |-> m[t]] /\ \A t \in Txs : m[t] = IF t \in old THEN OldRecord(t) ELSE NoRecord
    BY <1>1
  <2>2. \A t \in Txs : t \in old => t \in Mined
    BY <1>1 DEF Mined
  <2>3. \A t \in Txs : RecOK(Mined, t, m[t])
    BY <2>1, <2>2, OldRecordOK, NoRecordOK
  <2> QED BY <2>1, <2>3 DEF MapOK
<1>3. file.recs = Store(m) /\ file.synced = 1
  BY <1>1
<1>4. MapOK(Mined, Restore(file.recs))
  BY <1>2, <1>3, FileOK
<1>5. BatchOK(batch, Mined, tip)
  BY <1>1, NoBatchOK
<1>6. Heights
  <2>1. made \in DOMAIN MaxSize /\ MaxSize[made] \in Nat \ {0}
    BY LedgerAssumption DEF Init
  <2>2. mined = [t \in Txs |-> mined[t]] /\ \A t \in Txs : mined[t] \in 0 .. 1
    BY <1>1
  <2> QED BY <1>1, <1>3, <2>1, <2>2 DEF Heights
<1> QED BY <1>2, <1>4, <1>5, <1>6 DEF LedgerInv

\* What MaxSize bounds leaves room for one more block.
LEMMA Room ==
  ASSUME LedgerInv, Size < MaxSize[made]
  PROVE  tip + 1 \in 1 .. MaxSize[made]
<1>1. Cardinality(made) \in Nat /\ MaxSize[made] \in Nat
  <2>1. made \in SUBSET Txs /\ MaxSize[made] \in Nat
    BY LedgerAssumption DEF LedgerInv, Heights
  <2>2. IsFiniteSet(made)
    BY <2>1, FiniteOuts, FS_Subset
  <2> QED BY <2>1, <2>2, FS_CardinalityType
<1> QED BY <1>1 DEF LedgerInv, Heights, Size

\* The transactions that are mined, and what is seen of them.
LEMMA MinedSeen ==
  ASSUME LedgerInv
  PROVE  /\ Mined \subseteq Txs /\ \A t \in Mined : IsSeen(Mined, t, S!Confirmed(mined[t]))
         /\ \A t : IsSeen(Mined, t, S!Mempool(tip + 1))
<1>1. Mined \subseteq Txs
  BY DEF Mined
<1>2. ASSUME NEW t \in Mined PROVE IsSeen(Mined, t, S!Confirmed(mined[t]))
  <2>1. mined[t] \in Nat
    BY <1>1 DEF LedgerInv, Heights
  <2> QED BY <2>1 DEF IsSeen, S!Statuses, S!Kinds, S!Confirmed
<1>3. \A t : IsSeen(Mined, t, S!Mempool(tip + 1))
  <2>1. tip + 1 \in Nat
    BY DEF LedgerInv, Heights
  <2> QED BY <2>1 DEF IsSeen, S!Statuses, S!Kinds, S!Mempool, S!IsConfirmed
<1> QED BY <1>1, <1>2, <1>3

\* A block.
LEMMA MineInv == LedgerInv /\ (\E B \in SUBSET made : Mine(B)) => LedgerInv'
<1> SUFFICES ASSUME LedgerInv, NEW B \in SUBSET made, Mine(B) PROVE LedgerInv'
  OBVIOUS
<1>1. /\ tip' = tip + 1 /\ mined' = [t \in Txs |-> IF t \in B THEN tip + 1 ELSE mined[t]]
      /\ made' = made /\ m' = m /\ synced' = synced /\ batch' = batch /\ file' = file /\ cut' = cut
      /\ faults' = faults /\ restarts' = restarts /\ Size < MaxSize[made]
  BY DEF Mine, bounds
<1>2. Heights
  BY DEF LedgerInv
<1>3. tip + 1 \in 1 .. MaxSize[made]
  BY <1>1, Room
<1>4. \A t \in Txs : mined'[t] = IF t \in B THEN tip + 1 ELSE mined[t]
  BY <1>1
<1>5. Mined \subseteq Mined'
  BY <1>2, <1>4 DEF Mined, Heights
<1>6. Heights'
  <2>1. \A t \in Txs : mined'[t] \in 0 .. (tip + 1)
    BY <1>2, <1>4 DEF Heights
  <2>2. mined' = [t \in Txs |-> mined'[t]]
    BY <1>1
  <2>3. tip + 1 \in Nat /\ synced \in 0 .. (tip + 1) /\ file.synced \in 0 .. (tip + 1)
    BY <1>2 DEF Heights
  <2>4. cut \subseteq Mined' /\ made \in DOMAIN MaxSize /\ faults \in Nat /\ restarts \in Nat
    BY <1>2, <1>5 DEF Heights
  <2> QED BY <1>1, <1>3, <2>1, <2>2, <2>3, <2>4 DEF Heights
<1>7. BatchOK(batch, Mined', tip + 1)
  <2> DEFINE T2 == Mined'
             h2 == tip + 1
  <2>1. tip \in Nat /\ h2 \in Nat /\ tip <= h2 /\ Mined \subseteq T2 /\ BatchOK(batch, Mined, tip)
    BY <1>2, <1>5 DEF Heights, LedgerInv
  <2> HIDE DEF T2, h2
  <2>2. BatchOK(batch, T2, h2)
    BY <2>1, BatchGrows
  <2> QED BY <2>2 DEF T2, h2
<1>8. BatchOK(batch, Mined, tip)'
  BY <1>1, <1>7
<1>9. MapOK(Mined, m)' /\ MapOK(Mined, Restore(file.recs))'
  <2> DEFINE T2 == Mined'
  <2>1. Mined \subseteq T2
    BY <1>5
  <2> HIDE DEF T2
  <2>2. MapOK(T2, m) /\ MapOK(T2, Restore(file.recs))
    BY <2>1, MapGrows DEF LedgerInv
  <2> QED BY <1>1, <2>2 DEF T2
<1> QED BY <1>6, <1>8, <1>9 DEF LedgerInv

\* A step that leaves the chain and the file alone, and the heights too.
LEMMA SameChain ==
  ASSUME LedgerInv, made' = made, tip' = tip, mined' = mined, file' = file, synced' = synced,
         cut' \subseteq Mined, faults' \in Nat, restarts' \in Nat,
         MapOK(Mined, m'), BatchOK(batch', Mined, tip)
  PROVE  LedgerInv'
<1>1. Mined' = Mined
  BY DEF Mined
<1>2. Heights'
  BY <1>1 DEF LedgerInv, Heights
<1>3. MapOK(Mined, Restore(file.recs))'
  BY <1>1 DEF LedgerInv
<1>4. BatchOK(batch, Mined, tip)' /\ MapOK(Mined, m)'
  BY <1>1
<1> QED BY <1>2, <1>3, <1>4 DEF LedgerInv

\* What the steps of a batch start from.
LEMMA InvParts ==
  ASSUME LedgerInv
  PROVE  /\ MapOK(Mined, m) /\ BatchOK(batch, Mined, tip) /\ IsBatch(batch) /\ tip \in Nat
         /\ cut \subseteq Mined /\ faults \in Nat /\ restarts \in Nat
BY DEF LedgerInv, Heights, BatchOK

\* A batch starts.
LEMMA StartInv == LedgerInv /\ StartBatch => LedgerInv'
<1> SUFFICES ASSUME LedgerInv, StartBatch PROVE LedgerInv'
  OBVIOUS
<1> DEFINE new == {t \in Mined : synced < mined[t]}
           listed == OfAddress(new)
           tasks == {k \in {"list", "rescan"} :
                       {} # IF k = "list" THEN NotesForUpdating(m, synced) ELSE Unindexed(m, synced)}
           notes == UNION {{t} \X NotesTo(t) : t \in new}
<1>1. PICK queue \in [1 .. Cardinality(listed) -> listed] :
        batch' = [NoBatch EXCEPT !.target = tip, !.tasks = tasks, !.notes = notes, !.queue = queue]
  BY DEF StartBatch
<1>2. /\ made' = made /\ tip' = tip /\ mined' = mined /\ m' = m /\ synced' = synced /\ file' = file /\ cut' = cut
      /\ faults' = faults /\ restarts' = restarts
  BY DEF StartBatch, chain, bounds
<1>3. new \subseteq Mined /\ listed \subseteq new /\ Mined \subseteq Txs /\ tip \in Nat /\ tip \in 0 .. tip
  BY DEF OfAddress, Mined, LedgerInv, Heights
<1>4. NotesIn(notes, Mined)
  <2> SUFFICES ASSUME NEW o \in notes PROVE o \in OutIds /\ o[1] \in Mined /\ o[2] \in NotesTo(o[1])
    BY DEF NotesIn
  <2>1. PICK t \in new : o \in {t} \X NotesTo(t)
    OBVIOUS
  <2>2. o[1] = t /\ o[2] \in NotesTo(t) /\ o = <<t, o[2]>>
    BY <2>1
  <2>3. o \in {t} \X DOMAIN Outs[t]
    BY <2>2 DEF NotesTo
  <2> QED BY <1>3, <2>2, <2>3 DEF OutIds
<1>5. QueueIn(queue, Mined)
  <2>1. Cardinality(listed) \in Nat
    <3>1. IsFiniteSet(listed)
      BY <1>3, FiniteOuts, FS_Subset
    <3> QED BY <3>1, FS_CardinalityType
  <2>2. queue \in Seq(listed)
    BY <2>1
  <2> HIDE DEF listed
  <2>3. Len(queue) \in Nat /\ DOMAIN queue = 1 .. Len(queue) /\ \A i \in 1 .. Len(queue) : queue[i] \in listed
    BY <2>2, Elements
  <2>4. queue \in Seq(Txs)
    BY <1>3, <2>2
  <2> QED BY <1>3, <2>3, <2>4 DEF QueueIn, AllIn
<1> HIDE DEF new, listed, tasks, notes
<1> DEFINE a == [NoBatch EXCEPT !.target = tip]
           b == [a EXCEPT !.tasks = tasks]
           c == [b EXCEPT !.notes = notes]
<1>6. batch' = [c EXCEPT !.queue = queue]
  BY <1>1
<1>7. BatchOK(a, Mined, tip)
  BY <1>3, NoBatchOK, BatchSet
<1> HIDE DEF a
<1>8. BatchOK(b, Mined, tip)
  BY <1>7, BatchSet
<1> HIDE DEF b
<1>9. BatchOK(c, Mined, tip)
  BY <1>4, <1>8, BatchSet
<1> HIDE DEF c
<1>10. BatchOK(batch', Mined, tip)
  BY <1>5, <1>6, <1>9, BatchSet
<1> QED BY <1>2, <1>10, InvParts, SameChain

\* The outputs that the wallet holds are outputs to it.
LEMMA HeldOuts ==
  ASSUME NEW T, NEW q, MapOK(T, q)
  PROVE  Held(q) \subseteq OutIds
<1> SUFFICES ASSUME NEW o \in Held(q) PROVE o \in OutIds
  OBVIOUS
<1>1. PICK t \in Txs : o \in {t} \X (DOMAIN q[t].notes \cup DOMAIN q[t].coins)
  BY DEF Held
<1>2. DOMAIN q[t].notes \cup DOMAIN q[t].coins \subseteq DOMAIN Outs[t]
  BY DEF MapOK, RecOK, NotesOK, CoinsOK, NotesTo, CoinsTo
<1>3. o \in {t} \X DOMAIN Outs[t]
  BY <1>1, <1>2
<1> QED BY <1>3 DEF OutIds

\* update_notes lists the notes of the wallet.
LEMMA ListInv == LedgerInv /\ ListNotes => LedgerInv'
<1> SUFFICES ASSUME LedgerInv, ListNotes PROVE LedgerInv'
  OBVIOUS
<1> DEFINE tasks == batch.tasks \ {"list"}
           more == {[out |-> o, index |-> m[o[1]].notes[o[2]].index, fetch |-> FALSE] :
                      o \in NotesForUpdating(m, synced)}
           updates == batch.updates \cup more
           a == [batch EXCEPT !.tasks = tasks]
<1>1. batch' = [batch EXCEPT !.tasks = tasks, !.updates = updates]
  BY DEF ListNotes
<1>2. /\ made' = made /\ tip' = tip /\ mined' = mined /\ m' = m /\ synced' = synced /\ file' = file /\ cut' = cut
      /\ faults' = faults /\ restarts' = restarts
  BY DEF ListNotes, chain, bounds
<1>3. MapOK(Mined, m) /\ BatchOK(batch, Mined, tip) /\ IsBatch(batch)
  BY InvParts
<1>4. UpdatesIn(updates, Mined)
  <2>1. Held(m) \subseteq OutIds
    BY <1>3, HeldOuts
  <2>2. \A u \in more : u.out \in OutIds /\ ~u.fetch
    BY <2>1 DEF NotesForUpdating
  <2>3. UpdatesIn(batch.updates, Mined)
    BY <1>3 DEF BatchOK
  <2> QED BY <2>2, <2>3 DEF UpdatesIn
<1> HIDE DEF tasks, updates
<1>5. batch' = [a EXCEPT !.updates = updates]
  BY <1>1
<1>6. BatchOK(a, Mined, tip)
  BY <1>3, BatchSet
<1> HIDE DEF a
<1>7. BatchOK(batch', Mined, tip)
  BY <1>4, <1>5, <1>6, BatchSet
<1> QED BY <1>2, <1>7, InvParts, SameChain

\* targetted_rescan
LEMMA RescanInv == LedgerInv /\ Rescan => LedgerInv'
<1> SUFFICES ASSUME LedgerInv, Rescan PROVE LedgerInv'
  OBVIOUS
<1> DEFINE tasks == batch.tasks \ {"rescan"}
           more == {[tx |-> t, for |-> <<t, 0>>] : t \in Unindexed(m, synced)}
           scans == batch.scans \cup more
           a == [batch EXCEPT !.tasks = tasks]
<1>1. batch' = [batch EXCEPT !.tasks = tasks, !.scans = scans]
  BY DEF Rescan
<1>2. /\ made' = made /\ tip' = tip /\ mined' = mined /\ m' = m /\ synced' = synced /\ file' = file /\ cut' = cut
      /\ faults' = faults /\ restarts' = restarts
  BY DEF Rescan, chain, bounds
<1>3. MapOK(Mined, m) /\ BatchOK(batch, Mined, tip) /\ IsBatch(batch)
  BY InvParts
<1>4. ScansIn(scans, Mined)
  <2>1. Unindexed(m, synced) \subseteq Mined
    BY <1>3 DEF Unindexed, S!Known, MapOK, RecOK
  <2>2. \A j \in more : j.tx \in Unindexed(m, synced)
    OBVIOUS
  <2>3. ScansIn(batch.scans, Mined)
    BY <1>3 DEF BatchOK
  <2> QED BY <2>1, <2>2, <2>3 DEF ScansIn
<1> HIDE DEF tasks, scans
<1>5. batch' = [a EXCEPT !.scans = scans]
  BY <1>1
<1>6. BatchOK(a, Mined, tip)
  BY <1>3, BatchSet
<1> HIDE DEF a
<1>7. BatchOK(batch', Mined, tip)
  BY <1>4, <1>5, <1>6, BatchSet
<1> QED BY <1>2, <1>7, InvParts, SameChain

\* Trial decryption finds a note.
LEMMA DetectInv == LedgerInv /\ (\E o \in batch.notes : DetectNote(o)) => LedgerInv'
<1> SUFFICES ASSUME LedgerInv, NEW o \in batch.notes, DetectNote(o) PROVE LedgerInv'
  OBVIOUS
<1> DEFINE notes == batch.notes \ {o}
           u == [out |-> o, index |-> TRUE, fetch |-> TRUE]
           updates == batch.updates \cup {u}
           a == [batch EXCEPT !.notes = notes]
           st == S!Confirmed(mined[o[1]])
<1>1. batch' = [batch EXCEPT !.notes = notes, !.updates = updates] /\ m' = AddNewNote(m, o[1], st, o[2])
  BY DEF DetectNote
<1>2. /\ made' = made /\ tip' = tip /\ mined' = mined /\ synced' = synced /\ file' = file /\ cut' = cut
      /\ faults' = faults /\ restarts' = restarts
  BY DEF DetectNote, chain, bounds
<1>3. MapOK(Mined, m) /\ BatchOK(batch, Mined, tip)
  BY InvParts
<1>4. NotesIn(batch.notes, Mined) /\ UpdatesIn(batch.updates, Mined)
  BY <1>3 DEF BatchOK
<1>5. o \in OutIds /\ o[1] \in Mined /\ o[2] \in NotesTo(o[1])
  BY <1>4 DEF NotesIn
<1>6. NotesIn(notes, Mined)
  BY <1>4 DEF NotesIn
<1>7. UpdatesIn(updates, Mined)
  <2>1. u.out = o
    OBVIOUS
  <2> HIDE DEF u
  <2> QED BY <1>4, <1>5, <2>1 DEF UpdatesIn
<1>8. MapOK(Mined, m')
  <2>1. o[1] \in Txs /\ IsSeen(Mined, o[1], st)
    BY <1>5, MinedSeen
  <2> HIDE DEF st
  <2> QED BY <1>1, <1>3, <1>5, <2>1, AddNewNoteOK
<1> HIDE DEF notes, updates
<1>9. batch' = [a EXCEPT !.updates = updates]
  BY <1>1
<1>10. BatchOK(a, Mined, tip)
  BY <1>3, <1>6, BatchSet
<1> HIDE DEF a
<1>11. BatchOK(batch', Mined, tip)
  BY <1>7, <1>9, <1>10, BatchSet
<1> QED BY <1>2, <1>8, <1>11, InvParts, SameChain

\* update_notes looks for the spend of a note.
LEMMA UpdateInv == LedgerInv /\ (\E u \in batch.updates : UpdateNote(u)) => LedgerInv'
<1> SUFFICES ASSUME LedgerInv, NEW u \in batch.updates, UpdateNote(u) PROVE LedgerInv'
  OBVIOUS
<1> DEFINE by == Spenders(u.out)
           fetched == IF u.fetch THEN {u.out[1]} ELSE {}
           more == {[tx |-> t, for |-> u.out] : t \in by \cup fetched}
           updates == batch.updates \ {u}
           a == [batch EXCEPT !.updates = updates]
           scans == a.scans \cup more
           yes == TRUE
           t1 == CHOOSE s \in by : TRUE
           st == S!Confirmed(mined[t1])
           os == {u.out}
<1>1. \/ batch' = [a EXCEPT !.failed = yes] /\ m' = m
      \/ /\ batch' = [a EXCEPT !.scans = scans]
         /\ m' = IF by = {} THEN m ELSE FoundSpent(m, t1, st, os)
  BY DEF UpdateNote
<1>2. /\ made' = made /\ tip' = tip /\ mined' = mined /\ synced' = synced /\ file' = file /\ cut' = cut
      /\ faults' = faults /\ restarts' = restarts
  BY DEF UpdateNote, chain, bounds
<1>3. MapOK(Mined, m) /\ BatchOK(batch, Mined, tip)
  BY InvParts
<1>4. UpdatesIn(batch.updates, Mined)
  BY <1>3 DEF BatchOK
<1>5. u.out \in OutIds /\ fetched \subseteq Mined
  BY <1>4 DEF UpdatesIn
<1>6. by \subseteq Mined
  BY DEF Spenders, InBatch
<1>7. UpdatesIn(updates, Mined)
  BY <1>4 DEF UpdatesIn
<1> HIDE DEF updates
<1>8. BatchOK(a, Mined, tip)
  BY <1>3, <1>7, BatchSet
<1>9. ScansIn(scans, Mined)
  <2>1. ScansIn(a.scans, Mined)
    BY <1>8 DEF BatchOK
  <2>2. \A j \in more : j.tx \in by \cup fetched
    OBVIOUS
  <2> HIDE DEF a, more
  <2> QED BY <1>5, <1>6, <2>1, <2>2 DEF ScansIn
<1>10. by # {} => MapOK(Mined, FoundSpent(m, t1, st, os))
  <2> HAVE by # {}
  <2>1. t1 \in by
    OBVIOUS
  <2>2. t1 \in Mined
    BY <1>6, <2>1
  <2>3. t1 \in Txs /\ IsSeen(Mined, t1, st) /\ os \in SUBSET OutIds
    BY <1>5, <2>2, MinedSeen
  <2> HIDE DEF t1, st, os
  <2> QED BY <1>3, <2>3, FoundSpentOK
<1>11. MapOK(Mined, m')
  BY <1>1, <1>3, <1>10
<1> HIDE DEF a, scans, yes
<1>12. BatchOK(batch', Mined, tip)
  <2>1. BatchOK([a EXCEPT !.failed = yes], Mined, tip)
    BY <1>8, BatchSet
  <2>2. BatchOK([a EXCEPT !.scans = scans], Mined, tip)
    BY <1>8, <1>9, BatchSet
  <2>3. batch' = [a EXCEPT !.failed = yes] \/ batch' = [a EXCEPT !.scans = scans]
    BY <1>1
  <2> QED BY <2>1, <2>2, <2>3
<1> QED BY <1>2, <1>11, <1>12, InvParts, SameChain

\* A scan up to its outgoing data.
LEMMA ScannedInv ==
  ASSUME LedgerInv, NEW j, j.tx \in Mined, NEW rest, BatchOK(rest, Mined, tip), Scanned(j, rest)
  PROVE  MapOK(Mined, m') /\ BatchOK(batch', Mined, tip)
<1> DEFINE t == j.tx
           st == S!Confirmed(mined[t])
           q == ScanRecord(m, t, st)
           out == Outgoing(q, t)
           w == [tx |-> t, for |-> j.for, out |-> out]
           writes == IF out = << >> THEN rest.writes ELSE rest.writes \cup {w}
<1>1. m' = q /\ batch' = [rest EXCEPT !.writes = writes]
  BY DEF Scanned
<1>2. MapOK(Mined, q)
  <2>1. t \in Txs /\ IsSeen(Mined, t, st) /\ MapOK(Mined, m)
    BY MinedSeen, InvParts
  <2> HIDE DEF t, st
  <2> QED BY <2>1, ScanRecordOK
<1>3. DOMAIN out \subseteq ToOthers(t)
  BY OutgoingTo
<1>4. w.tx = t /\ w.out = out
  OBVIOUS
<1>5. WritesIn(rest.writes, Mined)
  BY DEF BatchOK
<1> HIDE DEF w, out, q
<1>6. WritesIn(writes, Mined)
  BY <1>3, <1>4, <1>5 DEF WritesIn
<1> HIDE DEF writes
<1>7. BatchOK(batch', Mined, tip)
  BY <1>1, <1>6, BatchSet
<1> QED BY <1>1, <1>2, <1>7

\* A worker scans a full transaction.
LEMMA ScanFullInv == LedgerInv /\ (\E j \in batch.scans : ScanFull(j)) => LedgerInv'
<1> SUFFICES ASSUME LedgerInv, NEW j \in batch.scans, ScanFull(j) PROVE LedgerInv'
  OBVIOUS
<1> DEFINE scans == batch.scans \ {j}
           rest == [batch EXCEPT !.scans = scans]
<1>1. Scanned(j, rest)
  BY DEF ScanFull
<1>2. /\ made' = made /\ tip' = tip /\ mined' = mined /\ synced' = synced /\ file' = file /\ cut' = cut
      /\ faults' = faults /\ restarts' = restarts
  BY DEF ScanFull, chain, bounds
<1>3. BatchOK(batch, Mined, tip)
  BY InvParts
<1>4. j.tx \in Mined /\ ScansIn(scans, Mined)
  BY <1>3 DEF BatchOK, ScansIn
<1> HIDE DEF scans
<1>5. BatchOK(rest, Mined, tip)
  BY <1>3, <1>4, BatchSet
<1> HIDE DEF rest
<1>6. MapOK(Mined, m') /\ BatchOK(batch', Mined, tip)
  BY <1>1, <1>4, <1>5, ScannedInv
<1> QED BY <1>2, <1>6, InvParts, SameChain

\* The next transaction of the address is scanned.
LEMMA ScanTaddrInv == LedgerInv /\ ScanTaddr => LedgerInv'
<1> SUFFICES ASSUME LedgerInv, ScanTaddr PROVE LedgerInv'
  OBVIOUS
<1> DEFINE j == [tx |-> Head(batch.queue), for |-> <<Head(batch.queue), 0>>]
           queue == Tail(batch.queue)
           rest == [batch EXCEPT !.queue = queue]
<1>1. Scanned(j, rest) /\ batch.queue # << >>
  BY DEF ScanTaddr
<1>2. /\ made' = made /\ tip' = tip /\ mined' = mined /\ synced' = synced /\ file' = file /\ cut' = cut
      /\ faults' = faults /\ restarts' = restarts
  BY DEF ScanTaddr, chain, bounds
<1>3. BatchOK(batch, Mined, tip)
  BY InvParts
<1>4. batch.queue \in Seq(Txs) /\ AllIn(batch.queue, Mined)
  BY <1>3 DEF BatchOK, QueueIn
<1>5. Head(batch.queue) \in Mined /\ QueueIn(queue, Mined)
  BY <1>1, <1>4, HeadAllIn, TailAllIn DEF QueueIn
<1>6. j.tx \in Mined
  BY <1>5
<1> HIDE DEF j, queue
<1>7. BatchOK(rest, Mined, tip)
  BY <1>3, <1>5, BatchSet
<1> HIDE DEF rest
<1>8. MapOK(Mined, m') /\ BatchOK(batch', Mined, tip)
  BY <1>1, <1>6, <1>7, ScannedInv
<1> QED BY <1>2, <1>8, InvParts, SameChain

\* The outgoing data of a scan are written.
LEMMA WriteOutInv == LedgerInv /\ (\E w \in batch.writes : WriteOut(w)) => LedgerInv'
<1> SUFFICES ASSUME LedgerInv, NEW w \in batch.writes, WriteOut(w) PROVE LedgerInv'
  OBVIOUS
<1> DEFINE writes == batch.writes \ {w}
<1>1. m' = WriteOutgoing(m, w.tx, w.out) /\ batch' = [batch EXCEPT !.writes = writes]
  BY DEF WriteOut
<1>2. /\ made' = made /\ tip' = tip /\ mined' = mined /\ synced' = synced /\ file' = file /\ cut' = cut
      /\ faults' = faults /\ restarts' = restarts
  BY DEF WriteOut, chain, bounds
<1>3. MapOK(Mined, m) /\ BatchOK(batch, Mined, tip)
  BY InvParts
<1>4. w.tx \in Mined /\ DOMAIN w.out \subseteq ToOthers(w.tx) /\ WritesIn(writes, Mined)
  BY <1>3 DEF BatchOK, WritesIn
<1> HIDE DEF writes
<1>5. BatchOK(batch', Mined, tip)
  BY <1>1, <1>3, <1>4, BatchSet
<1>6. MapOK(Mined, m')
  <2>1. w.tx \in Txs
    BY <1>4, MinedSeen
  <2> QED BY <1>1, <1>3, <1>4, <2>1, WriteOutgoingOK
<1> QED BY <1>2, <1>5, <1>6, InvParts, SameChain

\* The stream of the address is lost.
LEMMA TaddrCutInv == LedgerInv /\ TaddrCut => LedgerInv'
<1> SUFFICES ASSUME LedgerInv, TaddrCut PROVE LedgerInv'
  OBVIOUS
<1> DEFINE none == << >>
<1>1. cut' = cut \cup Range(batch.queue) /\ batch' = [batch EXCEPT !.queue = none] /\ faults' = faults + 1
  BY DEF TaddrCut
<1>2. /\ made' = made /\ tip' = tip /\ mined' = mined /\ m' = m /\ synced' = synced /\ file' = file
      /\ restarts' = restarts
  BY DEF TaddrCut, chain
<1>3. MapOK(Mined, m) /\ BatchOK(batch, Mined, tip) /\ cut \subseteq Mined /\ faults \in Nat /\ restarts \in Nat
  BY InvParts
<1>4. Range(batch.queue) \subseteq Mined
  <2>1. batch.queue \in Seq(Txs) /\ AllIn(batch.queue, Mined)
    BY <1>3 DEF BatchOK, QueueIn
  <2>2. DOMAIN batch.queue = 1 .. Len(batch.queue)
    BY <2>1, Elements
  <2> QED BY <2>1, <2>2 DEF AllIn, Range
<1>5. QueueIn(none, Mined)
  BY EmptyAllIn DEF QueueIn
<1> HIDE DEF none
<1>6. BatchOK(batch', Mined, tip)
  BY <1>1, <1>3, <1>5, BatchSet
<1>7. cut' \subseteq Mined /\ faults' \in Nat /\ restarts' \in Nat /\ MapOK(Mined, m')
  BY <1>1, <1>2, <1>3, <1>4
<1> QED BY <1>2, <1>6, <1>7, SameChain

\* A worker fails.
LEMMA WorkerFailsInv == LedgerInv /\ WorkerFails => LedgerInv'
<1> SUFFICES ASSUME LedgerInv, WorkerFails PROVE LedgerInv'
  OBVIOUS
<1> DEFINE yes == TRUE
<1>1. /\ made' = made /\ tip' = tip /\ mined' = mined /\ m' = m /\ synced' = synced /\ file' = file
      /\ cut' = cut /\ restarts' = restarts /\ faults' = faults + 1
  BY DEF WorkerFails, chain
<1>2. MapOK(Mined, m) /\ BatchOK(batch, Mined, tip) /\ cut \subseteq Mined /\ faults \in Nat /\ restarts \in Nat
  BY InvParts
<1>3. CASE \E o \in batch.notes : batch' = [batch EXCEPT !.notes = @ \ {o}, !.failed = TRUE]
  <2>1. PICK o \in batch.notes : batch' = [batch EXCEPT !.notes = batch.notes \ {o}, !.failed = yes]
    BY <1>3
  <2> DEFINE x == batch.notes \ {o}
             a == [batch EXCEPT !.notes = x]
  <2>2. NotesIn(x, Mined)
    BY <1>2 DEF BatchOK, NotesIn
  <2>3. batch' = [a EXCEPT !.failed = yes]
    BY <2>1
  <2> HIDE DEF x, yes
  <2>4. BatchOK(a, Mined, tip)
    BY <1>2, <2>2, BatchSet
  <2> HIDE DEF a
  <2>5. BatchOK(batch', Mined, tip)
    BY <2>3, <2>4, BatchSet
  <2> QED BY <1>1, <1>2, <2>5, SameChain
<1>4. CASE \E j \in batch.scans : batch' = [batch EXCEPT !.scans = @ \ {j}, !.failed = TRUE]
  <2>1. PICK j \in batch.scans : batch' = [batch EXCEPT !.scans = batch.scans \ {j}, !.failed = yes]
    BY <1>4
  <2> DEFINE x == batch.scans \ {j}
             a == [batch EXCEPT !.scans = x]
  <2>2. ScansIn(x, Mined)
    BY <1>2 DEF BatchOK, ScansIn
  <2>3. batch' = [a EXCEPT !.failed = yes]
    BY <2>1
  <2> HIDE DEF x, yes
  <2>4. BatchOK(a, Mined, tip)
    BY <1>2, <2>2, BatchSet
  <2> HIDE DEF a
  <2>5. BatchOK(batch', Mined, tip)
    BY <2>3, <2>4, BatchSet
  <2> QED BY <1>1, <1>2, <2>5, SameChain
<1> QED BY <1>3, <1>4 DEF WorkerFails

\* A step after which there is no batch, that leaves the chain alone.
LEMMA NewHeights ==
  ASSUME LedgerInv, made' = made, tip' = tip, mined' = mined, batch' = NoBatch,
         synced' \in 0 .. tip, file'.synced \in 0 .. tip, cut' \subseteq Mined,
         faults' \in Nat, restarts' \in Nat, MapOK(Mined, m'), MapOK(Mined, Restore(file'.recs))
  PROVE  LedgerInv'
<1>1. Mined' = Mined
  BY DEF Mined
<1>2. Heights'
  BY <1>1 DEF LedgerInv, Heights
<1>3. BatchOK(NoBatch, Mined, tip)
  BY InvParts, NoBatchOK
<1>4. BatchOK(batch, Mined, tip)' /\ MapOK(Mined, m)' /\ MapOK(Mined, Restore(file.recs))'
  BY <1>1, <1>3
<1> QED BY <1>2, <1>4 DEF LedgerInv

\* The end of a batch, which saves the wallet.
LEMMA EndBatchInv == LedgerInv /\ EndBatch => LedgerInv'
<1> SUFFICES ASSUME LedgerInv, EndBatch PROVE LedgerInv'
  OBVIOUS
<1>1. /\ m' = ClearExpired(m, batch.target) /\ synced' = batch.target /\ batch' = NoBatch
      /\ file' = [recs |-> Store(m'), synced |-> synced']
      /\ made' = made /\ tip' = tip /\ mined' = mined /\ cut' = cut /\ faults' = faults /\ restarts' = restarts
  BY DEF EndBatch, chain, bounds
<1>2. MapOK(Mined, m) /\ batch.target \in 0 .. tip /\ cut \subseteq Mined /\ faults \in Nat /\ restarts \in Nat
  BY InvParts DEF BatchOK
<1>3. MapOK(Mined, m')
  <2> DEFINE gone == {t \in Txs : /\ S!IsPending(m[t].status)
                                  /\ m[t].status.height < S!SaturatingSub(batch.target, MaxReorg)}
  <2>1. m' = Invalidate(m, gone)
    BY <1>1 DEF ClearExpired
  <2> HIDE DEF gone
  <2> QED BY <1>2, <2>1, InvalidateOK
<1>4. file'.recs = Store(m') /\ file'.synced = batch.target
  BY <1>1
<1>5. MapOK(Mined, Restore(file'.recs))
  <2> DEFINE q == m'
  <2>1. MapOK(Mined, q) /\ file'.recs = Store(q)
    BY <1>3, <1>4
  <2> HIDE DEF q
  <2>2. MapOK(Mined, Restore(Store(q)))
    BY <2>1, FileOK
  <2> QED BY <2>1, <2>2
<1> QED BY <1>1, <1>2, <1>3, <1>4, <1>5, NewHeights

\* What is read from the file is a map of records.
LEMMA FileParts ==
  ASSUME LedgerInv
  PROVE  file.synced \in 0 .. tip /\ MapOK(Mined, Restore(file.recs))
BY DEF LedgerInv, Heights

\* A batch that failed.
LEMMA RollBackInv == LedgerInv /\ RollBack => LedgerInv'
<1> SUFFICES ASSUME LedgerInv, RollBack PROVE LedgerInv'
  OBVIOUS
<1>1. /\ IF synced = 0 THEN m' = m /\ synced' = synced
         ELSE m' = InvalidateFrom(m, synced) /\ synced' = synced - 1
      /\ batch' = NoBatch /\ cut' \subseteq cut
      /\ made' = made /\ tip' = tip /\ mined' = mined /\ file' = file /\ faults' = faults /\ restarts' = restarts
  BY DEF RollBack, chain, bounds
<1>2. MapOK(Mined, m) /\ synced \in 0 .. tip /\ tip \in Nat /\ cut \subseteq Mined /\ faults \in Nat /\ restarts \in Nat
  BY InvParts DEF LedgerInv, Heights
<1>3. MapOK(Mined, InvalidateFrom(m, synced))
  BY <1>2, InvalidateOK DEF InvalidateFrom
<1>4. synced' \in 0 .. tip /\ MapOK(Mined, m')
  BY <1>1, <1>2, <1>3
<1>5. file'.synced \in 0 .. tip /\ MapOK(Mined, Restore(file'.recs)) /\ cut' \subseteq Mined
  BY <1>1, <1>2, FileParts
<1> QED BY <1>1, <1>2, <1>4, <1>5, NewHeights

\* A new process.
LEMMA RestartInv == LedgerInv /\ Restart => LedgerInv'
<1> SUFFICES ASSUME LedgerInv, Restart PROVE LedgerInv'
  OBVIOUS
<1>1. /\ m' = Restore(file.recs) /\ synced' = file.synced /\ batch' = NoBatch /\ cut' \subseteq cut
      /\ made' = made /\ tip' = tip /\ mined' = mined /\ file' = file /\ faults' = faults
      /\ restarts' = restarts + 1
  BY DEF Restart, chain
<1>2. cut \subseteq Mined /\ faults \in Nat /\ restarts \in Nat
  BY InvParts
<1>3. file.synced \in 0 .. tip /\ MapOK(Mined, Restore(file.recs))
  BY FileParts
<1>4. restarts + 1 \in Nat
  BY <1>2
<1> QED BY <1>1, <1>2, <1>3, <1>4, NewHeights

\* The monitor meets a transaction.
LEMMA ScanPendingInv == LedgerInv /\ (\E t \in Txs : ScanPending(t)) => LedgerInv'
<1> SUFFICES ASSUME LedgerInv, NEW t \in Txs, ScanPending(t) PROVE LedgerInv'
  OBVIOUS
<1> DEFINE st == S!Mempool(tip + 1)
           q == ScanRecord(m, t, st)
           out == Outgoing(q, t)
<1>1. /\ m' = (IF out = << >> THEN q ELSE WriteOutgoing(q, t, out))
      /\ made' = made /\ tip' = tip /\ mined' = mined /\ synced' = synced /\ batch' = batch /\ file' = file
      /\ cut' = cut /\ faults' = faults /\ restarts' = restarts
  BY DEF ScanPending, chain, bounds
<1>2. MapOK(Mined, q)
  <2>1. IsSeen(Mined, t, st) /\ MapOK(Mined, m)
    BY MinedSeen, InvParts
  <2> HIDE DEF st
  <2> QED BY <2>1, ScanRecordOK
<1>3. DOMAIN out \subseteq ToOthers(t)
  BY OutgoingTo
<1> HIDE DEF q, out
<1>4. MapOK(Mined, WriteOutgoing(q, t, out))
  BY <1>2, <1>3, WriteOutgoingOK
<1>5. MapOK(Mined, m')
  BY <1>1, <1>2, <1>4
<1> QED BY <1>1, <1>5, InvParts, SameChain

\* The monitor meets a transaction that was sent.
LEMMA SeenAgainInv == LedgerInv /\ (\E t \in Txs : SeenAgain(t)) => LedgerInv'
<1> SUFFICES ASSUME LedgerInv, NEW t \in Txs, SeenAgain(t) PROVE LedgerInv'
  OBVIOUS
<1> DEFINE st == S!Mempool(tip + 1)
           os == NotesSpentIn(m, t)
           q == FoundSpent(m, t, st, os)
           w == [q EXCEPT ![t].status = st]
<1>1. /\ m' = w
      /\ made' = made /\ tip' = tip /\ mined' = mined /\ synced' = synced /\ batch' = batch /\ file' = file
      /\ cut' = cut /\ faults' = faults /\ restarts' = restarts
  BY DEF SeenAgain, chain, bounds
<1>2. IsSeen(Mined, t, st) /\ MapOK(Mined, m)
  BY MinedSeen, InvParts
<1>3. os \in SUBSET OutIds
  BY <1>2 DEF MapOK, RecOK, NotesSpentIn
<1> HIDE DEF st, os
<1>4. MapOK(Mined, q)
  BY <1>2, <1>3, FoundSpentOK
<1> HIDE DEF q
<1>5. RecOK(Mined, t, [q[t] EXCEPT !.status = st])
  <2>1. RecOK(Mined, t, q[t]) /\ st \in S!Statuses /\ (S!IsConfirmed(st) => t \in Mined)
    BY <1>2, <1>4 DEF MapOK, IsSeen
  <2> QED BY <2>1, FieldsSet
<1>6. w = [u \in Txs |-> w[u]] /\ w[t] = [q[t] EXCEPT !.status = st] /\ \A u \in Txs : u # t => w[u] = q[u]
  BY <1>4 DEF MapOK
<1> HIDE DEF w
<1>7. MapOK(Mined, w)
  BY <1>4, <1>5, <1>6, RecordSet
<1> QED BY <1>1, <1>7, InvParts, SameChain

\* No step breaks the invariant.
LEMMA LedgerInvKept == LedgerInv /\ [Next]_vars => LedgerInv'
<1> SUFFICES ASSUME LedgerInv, [Next]_vars PROVE LedgerInv'
  OBVIOUS
<1>1. CASE Workers
  BY <1>1, ListInv, RescanInv, ScanTaddrInv, TaddrCutInv, WorkerFailsInv, DetectInv, UpdateInv,
     ScanFullInv, WriteOutInv DEF Workers
<1>2. CASE (\E B \in SUBSET made : Mine(B)) \/ StartBatch \/ EndBatch \/ RollBack \/ Restart
  BY <1>2, MineInv, StartInv, EndBatchInv, RollBackInv, RestartInv
<1>3. CASE \E t \in Txs : ScanPending(t) \/ SeenAgain(t)
  BY <1>3, ScanPendingInv, SeenAgainInv
<1>4. CASE UNCHANGED vars
  <2>1. /\ made' = made /\ tip' = tip /\ mined' = mined /\ m' = m /\ synced' = synced /\ batch' = batch
        /\ file' = file /\ cut' = cut /\ faults' = faults /\ restarts' = restarts
    BY <1>4 DEF vars
  <2> QED BY <2>1, InvParts, SameChain
<1> QED BY <1>1, <1>2, <1>3, <1>4 DEF Next

\* Whatever the chain holds and in whatever order the workers of a batch, the
\* monitor and restarts write the records: a record of a transaction has only
\* its own outputs, each in the list of its pool, and work is only about
\* transactions of the chain (TransactionRecordsById, sync_nth_batch).
THEOREM LedgerTyped == Spec => []TypeOK
<1>1. Init => LedgerInv
  BY LedgerInit
<1>2. LedgerInv /\ [Next]_vars => LedgerInv'
  BY LedgerInvKept
<1>3. LedgerInv => TypeOK
  BY LedgerInvTypes
<1> QED BY <1>1, <1>2, <1>3, PTL DEF Spec
-----------------------------------------------------------------------------
(* The outputs of any record map that the operations can leave behind.       *)

\* An output the wallet holds is a coin or a note, as its pool says.
LEMMA HeldIs ==
  ASSUME NEW T, NEW q, MapOK(T, q), NEW o \in Held(q)
  PROVE  /\ o \in OutIds /\ Out(o).pool \in Pools
         /\ HasCoin(q, o) <=> Out(o).pool = "transparent"
         /\ HasNote(q, o) <=> Out(o).pool # "transparent"
         /\ SpendOK(SpendOf(q, o))
<1>1. PICK t \in Txs : o \in {t} \X (DOMAIN q[t].notes \cup DOMAIN q[t].coins)
  BY DEF Held
<1>2. o[1] = t /\ o[2] \in DOMAIN q[t].notes \cup DOMAIN q[t].coins
  BY <1>1
<1>3. NotesOK(q[t].notes, NotesTo(t)) /\ CoinsOK(q[t].coins, CoinsTo(t))
  BY DEF MapOK, RecOK
<1>4. o \in OutIds
  BY HeldOuts
<1>5. Out(o).pool \in Pools
  BY <1>4, LedgerAssumption
<1>6. o[2] \in DOMAIN q[t].notes => Out(o).pool # "transparent" /\ NoteOK(q[t].notes[o[2]])
  BY <1>2, <1>3 DEF NotesOK, NotesTo, Out, Shielded
<1>7. o[2] \in DOMAIN q[t].coins => Out(o).pool = "transparent" /\ SpendOK(q[t].coins[o[2]])
  BY <1>2, <1>3 DEF CoinsOK, CoinsTo, Out
<1>8. SpendOK(SpendOf(q, o))
  BY <1>2, <1>6, <1>7 DEF SpendOf, HasNote, NoteOK
<1> QED BY <1>2, <1>4, <1>5, <1>6, <1>7, <1>8 DEF HasCoin, HasNote

\* A spend is shown as one exactly if the output has a spender.
LEMMA SummaryIs ==
  ASSUME NEW sp, SpendOK(sp)
  PROVE  /\ SpendSummary(sp) = "unspent" <=> sp.by = NoTx
         /\ sp.by = NoTx => ~S!IsConfirmed(sp.status)
BY DEF SpendOK, IsSpend, SpendSummary, S!Unspent, S!NoStatus, S!IsConfirmed
-----------------------------------------------------------------------------
(* What the shielded balances rest on.  mi gives the heights at which the    *)
(* transactions were mined, T are the transactions that are made.            *)

\* What a pending record that spends something has, so that the file keeps it.
Full(t, r) ==
  \/ DOMAIN r.outgoing # {}
  \/ NotesTo(t) \subseteq DOMAIN r.notes /\ CoinsTo(t) \subseteq DOMAIN r.coins /\ ToOthers(t) = {}

\* A record of t: a confirmed one has the height of the chain, and it lists
\* only what t spends.
Right(t, r, mi, T) ==
  /\ r.status.kind = "Absent" => DOMAIN r.notes = {} /\ r.listed = {}
  /\ r.status.kind # "Absent" => t \in T
  /\ S!IsConfirmed(r.status) => r.status = S!Confirmed(mi[t]) /\ mi[t] \in Nat \ {0}
  /\ r.listed \subseteq Ins[t]
AllRight(q, mi, T) == \A t \in Txs : Right(t, q[t], mi, T)

\* The pending records that spend something are written to the file.
AllFull(q) == \A t \in Txs : q[t].listed # {} /\ ~S!IsConfirmed(q[t].status) => Full(t, q[t])

\* The spender that a note names lists it, and a spend is confirmed only by a
\* record that is.
SpenderLists(q, mi, o, sp) ==
  sp.by # NoTx => /\ o \in q[sp.by].listed
                  /\ S!IsConfirmed(sp.status) => /\ S!IsConfirmed(q[sp.by].status)
                                                 /\ sp.status = S!Confirmed(mi[sp.by])
AllListed(q, mi) == \A t \in Txs : \A n \in DOMAIN q[t].notes : SpenderLists(q, mi, <<t, n>>, q[t].notes[n].spend)

IsSound(q, mi, T) == AllRight(q, mi, T) /\ AllListed(q, mi) /\ AllFull(q)

\* The note o is recorded as found in its block; its spend by s is recorded.
IsNoted(q, mi, o) == HasNullifier(q, o) /\ q[o[1]].status = S!Confirmed(mi[o[1]])
IsSpentBy(q, mi, o, s) ==
  HasNullifier(q, o) /\ q[o[1]].notes[o[2]].spend = [by |-> s, status |-> S!Confirmed(mi[s])]

\* Up to height h every note and every spend of the chain is recorded.
OwnNotes == UNION {{t} \X NotesTo(t) : t \in Txs}
IsSettled(q, mi, h) ==
  \A o \in OwnNotes : mi[o[1]] \in 1 .. h =>
    /\ IsNoted(q, mi, o)
    /\ \A s \in Txs : o \in Ins[s] /\ mi[s] \in 1 .. h => IsSpentBy(q, mi, o, s)
-----------------------------------------------------------------------------
(* What the operations write.  Of the record of u, r becomes v: the status   *)
(* may become st and ls may be listed, if u is t; the notes in os take the   *)
(* spend sp; and no note with a nullifier is lost.                           *)

NoteWrote(u, n, r, v, os, sp) ==
  IF <<u, n>> \in os THEN v.notes[n].spend = sp
  ELSE \/ n \in DOMAIN r.notes /\ v.notes[n].spend = r.notes[n].spend
       \/ ~(n \in DOMAIN r.notes /\ r.notes[n].nf) /\ v.notes[n].spend = S!Unspent

StatusWrote(u, r, v, t, st) ==
  \/ v.status = r.status
  \/ u = t /\ v.status = st /\ (S!IsConfirmed(r.status) => S!IsConfirmed(st))

Wrote(u, r, v, t, st, ls, os, sp) ==
  /\ StatusWrote(u, r, v, t, st)
  /\ v.listed = r.listed \/ (u = t /\ v.listed = r.listed \cup ls /\ v.status.kind # "Absent")
  /\ v.status.kind = "Absent" => DOMAIN v.notes \subseteq DOMAIN r.notes
  /\ DOMAIN r.coins \subseteq DOMAIN v.coins
  /\ DOMAIN r.outgoing # {} => DOMAIN v.outgoing # {}
  /\ S!IsConfirmed(v.status) \/ DOMAIN r.notes \subseteq DOMAIN v.notes
  /\ \A n \in DOMAIN r.notes : r.notes[n].nf => n \in DOMAIN v.notes /\ v.notes[n].nf
  /\ \A n \in DOMAIN v.notes : NoteWrote(u, n, r, v, os, sp)

Writes(q, w, t, st, ls, os, sp) == \A u \in Txs : Wrote(u, q[u], w[u], t, st, ls, os, sp)

\* A status that is written is one of a transaction that is made, and a
\* confirmed one has the height of the chain.
IsNews(t, st, mi, T) ==
  t \in T /\ st.kind # "Absent" /\ (S!IsConfirmed(st) => st = S!Confirmed(mi[t]) /\ mi[t] \in Nat \ {0})

\* At most a status, coins and outgoing data are written.
LEMMA WroteStatus ==
  ASSUME NEW u, NEW r, NEW v, NEW t, NEW st, NEW ls, NEW sp, StatusWrote(u, r, v, t, st),
         v.listed = r.listed, v.notes = r.notes, DOMAIN r.coins \subseteq DOMAIN v.coins,
         DOMAIN r.outgoing # {} => DOMAIN v.outgoing # {}
  PROVE  Wrote(u, r, v, t, st, ls, {}, sp)
BY DEF Wrote, NoteWrote

\* One write after the other, neither of them of a spend.
LEMMA WritesTwice ==
  ASSUME NEW q, NEW p, NEW w, NEW t, NEW st, st.kind # "Absent", Writes(q, p, t, st, {}, {}, S!Unspent),
         Writes(p, w, t, st, {}, {}, S!Unspent)
  PROVE  Writes(q, w, t, st, {}, {}, S!Unspent)
<1> SUFFICES ASSUME NEW u \in Txs PROVE Wrote(u, q[u], w[u], t, st, {}, {}, S!Unspent)
  BY DEF Writes
<1> DEFINE a == q[u]
           b == p[u]
           c == w[u]
           un == S!Unspent
<1>1. Wrote(u, a, b, t, st, {}, {}, un) /\ Wrote(u, b, c, t, st, {}, {}, un)
  BY DEF Writes
<1> SUFFICES Wrote(u, a, c, t, st, {}, {}, un)
  OBVIOUS
<1>6. un = S!Unspent
  OBVIOUS
<1> HIDE DEF a, b, c, un
<1>2. StatusWrote(u, a, c, t, st) /\ (S!IsConfirmed(b.status) => S!IsConfirmed(c.status))
  BY <1>1 DEF Wrote, StatusWrote
<1>3. c.listed = a.listed
  BY <1>1 DEF Wrote
<1>4. c.status.kind = "Absent" => DOMAIN c.notes \subseteq DOMAIN a.notes
  BY <1>1 DEF Wrote, StatusWrote
<1>5. \A n \in DOMAIN a.notes : a.notes[n].nf => n \in DOMAIN c.notes /\ c.notes[n].nf
  BY <1>1 DEF Wrote
<1>7. ASSUME NEW n \in DOMAIN c.notes PROVE NoteWrote(u, n, a, c, {}, un)
  <2>1. NoteWrote(u, n, b, c, {}, un) /\ (n \in DOMAIN b.notes => NoteWrote(u, n, a, b, {}, un))
    BY <1>1 DEF Wrote
  <2>2. n \in DOMAIN a.notes /\ a.notes[n].nf => n \in DOMAIN b.notes /\ b.notes[n].nf
    BY <1>1 DEF Wrote
  <2> QED BY <1>6, <2>1, <2>2 DEF NoteWrote
<1>8. /\ DOMAIN a.coins \subseteq DOMAIN c.coins /\ (DOMAIN a.outgoing # {} => DOMAIN c.outgoing # {})
      /\ S!IsConfirmed(c.status) \/ DOMAIN a.notes \subseteq DOMAIN c.notes
  BY <1>1, <1>2 DEF Wrote
<1> QED BY <1>2, <1>3, <1>4, <1>5, <1>7, <1>8 DEF Wrote

\* v is r with one field written.
OnlyNotes(r, v) == v.status = r.status /\ v.coins = r.coins /\ v.listed = r.listed /\ v.outgoing = r.outgoing
OnlyCoins(r, v) == v.status = r.status /\ v.notes = r.notes /\ v.listed = r.listed /\ v.outgoing = r.outgoing
OnlyListed(r, v) == v.status = r.status /\ v.notes = r.notes /\ v.coins = r.coins /\ v.outgoing = r.outgoing
OnlyOutgoing(r, v) == v.status = r.status /\ v.notes = r.notes /\ v.coins = r.coins /\ v.listed = r.listed
OnlyStatus(r, v) == v.notes = r.notes /\ v.coins = r.coins /\ v.listed = r.listed /\ v.outgoing = r.outgoing

\* create_modify_get_transaction_record writes a status.
LEMMA CreateIs ==
  ASSUME NEW T, NEW q, MapOK(T, q), NEW t \in Txs, NEW st
  PROVE  /\ \A u \in Txs : OnlyStatus(q[u], S!CreateModify(q, t, st)[u])
         /\ \A u \in Txs : u # t => S!CreateModify(q, t, st)[u] = q[u]
         /\ S!CreateModify(q, t, st)[t].status =
              IF S!IsConfirmed(q[t].status) /\ ~S!IsConfirmed(st) THEN q[t].status ELSE st
<1> DEFINE w == [q EXCEPT ![t].status = st]
<1>1. S!CreateModify(q, t, st) = IF S!IsConfirmed(q[t].status) /\ ~S!IsConfirmed(st) THEN q ELSE w
  BY DEF S!CreateModify
<1>2. (\A u \in Txs : u # t => w[u] = q[u]) /\ w[t] = [q[t] EXCEPT !.status = st]
  BY DEF MapOK
<1>3. IsShaped(q[t])
  BY DEF MapOK, RecOK
<1>4. OnlyStatus(q[t], w[t]) /\ w[t].status = st
  BY <1>2, <1>3 DEF IsShaped, OnlyStatus
<1> HIDE DEF w
<1>5. \A u \in Txs : OnlyStatus(q[u], w[u]) /\ OnlyStatus(q[u], q[u])
  BY <1>2, <1>4 DEF OnlyStatus
<1> QED BY <1>1, <1>2, <1>4, <1>5

\* The status of t after create_modify_get_transaction_record.
Raised(r, st) == IF S!IsConfirmed(r.status) /\ ~S!IsConfirmed(st) THEN r.status ELSE st

\* It is no step back.
LEMMA RaisedIs ==
  ASSUME NEW u, NEW r, NEW v, NEW st, v.status = Raised(r, st), st.kind # "Absent"
  PROVE  StatusWrote(u, r, v, u, st) /\ v.status.kind # "Absent" /\ (S!IsConfirmed(st) => v.status = st)
BY DEF Raised, StatusWrote, S!IsConfirmed

\* A note found in a block is recorded without a spend.
LEMMA AddNewNoteWrites ==
  ASSUME NEW T, NEW q, MapOK(T, q), NEW t \in Txs, NEW st, IsSeen(T, t, st), S!IsConfirmed(st), NEW n \in NotesTo(t)
  PROVE  /\ Writes(q, AddNewNote(q, t, st, n), t, st, {}, {<<t, n>>}, S!Unspent)
         /\ HasNullifier(AddNewNote(q, t, st, n), <<t, n>>)
         /\ AddNewNote(q, t, st, n)[t].status = st
<1> DEFINE p == S!CreateModify(q, t, st)
           old == p[t].notes
           stay == {k \in DOMAIN old : n \in DOMAIN old \/ old[k].nf \/ Outs[t][k].pool # Outs[t][n].pool}
           un == S!Unspent
           new == [nf |-> TRUE, index |-> TRUE, memo |-> "unknown", spend |-> un]
           f == [k \in stay \cup {n} |-> IF k = n THEN new ELSE old[k]]
           w == [p EXCEPT ![t].notes = f]
<1>1. AddNewNote(q, t, st, n) = w
  BY DEF AddNewNote
<1>2. MapOK(T, p)
  BY CreateOK DEF IsSeen
<1>3. /\ \A u \in Txs : OnlyStatus(q[u], p[u])
      /\ \A u \in Txs : u # t => p[u] = q[u]
      /\ p[t].status = st
  BY CreateIs
<1>4. \A k \in DOMAIN old : old[k].nf => k \in stay
  OBVIOUS
<1>5. stay \subseteq DOMAIN old /\ old = q[t].notes
  BY <1>3 DEF OnlyStatus
<1>6. new.nf /\ new.spend = un
  OBVIOUS
<1> HIDE DEF new, stay, p, old, un
<1>7. (\A u \in Txs : u # t => w[u] = p[u]) /\ w[t] = [p[t] EXCEPT !.notes = f]
  BY <1>2 DEF MapOK
<1>8. IsShaped(p[t])
  BY <1>2 DEF MapOK, RecOK
<1> HIDE DEF f, w
<1>9. OnlyNotes(p[t], w[t]) /\ w[t].notes = f
  BY <1>7, <1>8 DEF IsShaped, OnlyNotes
<1>10. DOMAIN f = stay \cup {n} /\ f[n] = new /\ \A k \in stay : k # n => f[k] = old[k]
  BY DEF f
<1>11. ASSUME NEW u \in Txs, u # t PROVE Wrote(u, q[u], w[u], t, st, {}, {<<t, n>>}, un)
  <2>1. w[u] = q[u]
    BY <1>3, <1>7, <1>11
  <2>2. \A k : <<u, k>> \notin {<<t, n>>}
    BY <1>11
  <2> QED BY <2>1, <2>2 DEF Wrote, StatusWrote, NoteWrote
<1>12. Wrote(t, q[t], w[t], t, st, {}, {<<t, n>>}, un)
  <2> DEFINE r == q[t]
             v == w[t]
  <2>1. /\ v.status = st /\ v.listed = r.listed /\ v.coins = r.coins /\ v.outgoing = r.outgoing
        /\ v.notes = f /\ r.notes = old
    BY <1>3, <1>5, <1>9 DEF OnlyStatus, OnlyNotes
  <2>2. st.kind # "Absent"
    BY DEF S!IsConfirmed
  <2> HIDE DEF r, v
  <2>3. \A k \in DOMAIN r.notes : r.notes[k].nf => k \in DOMAIN v.notes /\ v.notes[k].nf
    BY <1>4, <1>6, <1>10, <2>1
  <2>4. ASSUME NEW k \in DOMAIN v.notes PROVE NoteWrote(t, k, r, v, {<<t, n>>}, un)
    <3>1. CASE k = n
      BY <1>6, <1>10, <2>1, <3>1 DEF NoteWrote
    <3>2. CASE k # n
      <4>1. <<t, k>> \notin {<<t, n>>}
        BY <3>2
      <4>2. k \in stay /\ f[k] = old[k]
        BY <1>10, <2>1, <2>4, <3>2
      <4> QED BY <1>5, <2>1, <4>1, <4>2 DEF NoteWrote
    <3> QED BY <3>1, <3>2
  <2>5. StatusWrote(t, r, v, t, st)
    BY <2>1 DEF StatusWrote
  <2>6. Wrote(t, r, v, t, st, {}, {<<t, n>>}, un)
    BY <2>1, <2>2, <2>3, <2>4, <2>5 DEF Wrote
  <2> QED BY <2>6 DEF r, v
<1>13. HasNullifier(w, <<t, n>>) /\ w[t].status = st
  BY <1>3, <1>6, <1>9, <1>10 DEF HasNullifier, HasNote, OnlyNotes
<1>14. Writes(q, w, t, st, {}, {<<t, n>>}, un)
  BY <1>11, <1>12 DEF Writes
<1> QED BY <1>1, <1>13, <1>14 DEF un

\* found_spent_nullifier marks notes and lists their nullifiers.
LEMMA FoundSpentWrites ==
  ASSUME NEW T, NEW q, MapOK(T, q), NEW t \in Txs, NEW st, IsSeen(T, t, st), NEW os \in SUBSET OutIds, os # {}
  PROVE  /\ Writes(q, FoundSpent(q, t, st, os), t, st, os, os, [by |-> t, status |-> st])
         /\ FoundSpent(q, t, st, os)[t].listed = q[t].listed \cup os
         /\ FoundSpent(q, t, st, os)[t].status = Raised(q[t], st)
         /\ FoundSpent(q, t, st, os)[t].outgoing = q[t].outgoing
         /\ DOMAIN FoundSpent(q, t, st, os)[t].coins = DOMAIN q[t].coins
         /\ \A u \in Txs : /\ DOMAIN FoundSpent(q, t, st, os)[u].notes = DOMAIN q[u].notes
                           /\ \A n \in DOMAIN q[u].notes :
                                FoundSpent(q, t, st, os)[u].notes[n].nf <=> q[u].notes[n].nf
<1> DEFINE sp == [by |-> t, status |-> st]
           a == MarkNotes(q, os, sp)
           p == S!CreateModify(a, t, st)
           l == p[t].listed \cup os
           w == [p EXCEPT ![t].listed = l]
<1>1. FoundSpent(q, t, st, os) = w
  BY DEF FoundSpent, MarkNotes
<1>2. SpendOK(sp)
  BY MarkOK
<1>0. st.kind # "Absent"
  BY DEF IsSeen
<1> HIDE DEF sp
<1>3. MapOK(T, a)
  BY <1>2, NotesMarked
<1>4. ASSUME NEW u \in Txs
      PROVE  /\ OnlyNotes(q[u], a[u]) /\ DOMAIN a[u].notes = DOMAIN q[u].notes
             /\ \A n \in DOMAIN q[u].notes :
                  /\ a[u].notes[n].nf <=> q[u].notes[n].nf
                  /\ a[u].notes[n].spend = IF <<u, n>> \in os THEN sp ELSE q[u].notes[n].spend
  <2> DEFINE r == q[u]
             f == [n \in DOMAIN r.notes |-> IF <<u, n>> \in os THEN [r.notes[n] EXCEPT !.spend = sp] ELSE r.notes[n]]
  <2>1. a[u] = [r EXCEPT !.notes = f]
    BY DEF MarkNotes
  <2>2. IsShaped(r) /\ NotesOK(r.notes, NotesTo(u))
    BY DEF MapOK, RecOK
  <2> HIDE DEF r
  <2>3. ASSUME NEW n \in DOMAIN r.notes
        PROVE  (f[n].nf <=> r.notes[n].nf) /\ f[n].spend = IF <<u, n>> \in os THEN sp ELSE r.notes[n].spend
    <3> DEFINE note == r.notes[n]
    <3>1. note = [nf |-> note.nf, index |-> note.index, memo |-> note.memo, spend |-> note.spend]
      BY <2>2 DEF NotesOK, NoteOK, IsNote
    <3>2. f[n] = IF <<u, n>> \in os THEN [note EXCEPT !.spend = sp] ELSE note
      OBVIOUS
    <3> HIDE DEF note, f
    <3>3. [note EXCEPT !.spend = sp].spend = sp /\ ([note EXCEPT !.spend = sp].nf = note.nf)
      BY <3>1
    <3> QED BY <3>2, <3>3 DEF note
  <2>4. DOMAIN f = DOMAIN r.notes
    OBVIOUS
  <2> HIDE DEF f
  <2>5. OnlyNotes(r, a[u]) /\ a[u].notes = f
    BY <2>1, <2>2 DEF IsShaped, OnlyNotes
  <2> QED BY <2>3, <2>4, <2>5 DEF r
<1> HIDE DEF a
<1>5. MapOK(T, p)
  BY <1>3, CreateOK DEF IsSeen
<1>6. /\ \A u \in Txs : OnlyStatus(a[u], p[u])
      /\ \A u \in Txs : u # t => p[u] = a[u]
      /\ p[t].status = Raised(a[t], st)
  BY <1>3, CreateIs DEF Raised
<1> HIDE DEF p
<1>7. (\A u \in Txs : u # t => w[u] = p[u]) /\ w[t] = [p[t] EXCEPT !.listed = l]
  BY <1>5 DEF MapOK
<1>8. IsShaped(p[t])
  BY <1>5 DEF MapOK, RecOK
<1>15. l = p[t].listed \cup os
  OBVIOUS
<1> HIDE DEF l, w
<1>9. OnlyListed(p[t], w[t]) /\ w[t].listed = p[t].listed \cup os
  BY <1>7, <1>8, <1>15 DEF IsShaped, OnlyListed
<1>10. \A u \in Txs : /\ w[u].notes = a[u].notes /\ w[u].coins = q[u].coins /\ w[u].outgoing = q[u].outgoing
                      /\ u # t => w[u].status = q[u].status /\ w[u].listed = q[u].listed
  <2> TAKE u \in Txs
  <2>1. OnlyNotes(q[u], a[u]) /\ OnlyStatus(a[u], p[u])
    BY <1>4, <1>6
  <2>2. CASE u = t
    BY <1>9, <2>1, <2>2 DEF OnlyNotes, OnlyStatus, OnlyListed
  <2>3. CASE u # t
    <3>1. w[u] = a[u]
      BY <1>6, <1>7, <2>3
    <3> QED BY <2>1, <2>3, <3>1 DEF OnlyNotes
  <2> QED BY <2>2, <2>3
<1>11. w[t].listed = q[t].listed \cup os /\ w[t].status = Raised(q[t], st)
  BY <1>4, <1>6, <1>9 DEF OnlyNotes, OnlyStatus, OnlyListed, Raised
<1>12. ASSUME NEW u \in Txs PROVE Wrote(u, q[u], w[u], t, st, os, os, sp)
  <2> DEFINE r == q[u]
             v == w[u]
  <2>1. v.coins = r.coins /\ v.outgoing = r.outgoing /\ DOMAIN v.notes = DOMAIN r.notes
    BY <1>4, <1>10
  <2>2. StatusWrote(u, r, v, t, st)
    <3>1. CASE u = t
      BY <1>0, <1>11, <3>1, RaisedIs
    <3>2. CASE u # t
      BY <1>10, <3>2 DEF StatusWrote
    <3> QED BY <3>1, <3>2
  <2>3. v.listed = r.listed \/ (u = t /\ v.listed = r.listed \cup os /\ v.status.kind # "Absent")
    <3>1. CASE u = t
      BY <1>0, <1>11, <3>1, RaisedIs
    <3>2. CASE u # t
      BY <1>10, <3>2
    <3> QED BY <3>1, <3>2
  <2>4. \A n \in DOMAIN r.notes : /\ v.notes[n].nf <=> r.notes[n].nf
                                  /\ v.notes[n].spend = IF <<u, n>> \in os THEN sp ELSE r.notes[n].spend
    BY <1>4, <1>10
  <2> HIDE DEF r, v
  <2>5. \A n \in DOMAIN v.notes : NoteWrote(u, n, r, v, os, sp)
    BY <2>1, <2>4 DEF NoteWrote
  <2>6. Wrote(u, r, v, t, st, os, os, sp)
    BY <2>1, <2>2, <2>3, <2>4, <2>5 DEF Wrote
  <2> QED BY <2>6 DEF r, v
<1>13. Writes(q, w, t, st, os, os, sp)
  BY <1>12 DEF Writes
<1>14. \A u \in Txs : DOMAIN w[u].notes = DOMAIN q[u].notes /\ \A n \in DOMAIN q[u].notes : w[u].notes[n].nf <=> q[u].notes[n].nf
  BY <1>4, <1>10
<1> QED BY <1>1, <1>10, <1>11, <1>13, <1>14 DEF sp

\* add_new_taddr_output
LEMMA AddCoinsWrites ==
  ASSUME NEW T, NEW q, MapOK(T, q), NEW t \in Txs, NEW st, IsSeen(T, t, st)
  PROVE  /\ Writes(q, AddCoins(q, t, st), t, st, {}, {}, S!Unspent)
         /\ CoinsTo(t) \subseteq DOMAIN AddCoins(q, t, st)[t].coins
<1> DEFINE p == S!CreateModify(q, t, st)
           old == p[t].coins
           f == [n \in DOMAIN old \cup CoinsTo(t) |-> IF n \in DOMAIN old THEN old[n] ELSE S!Unspent]
           w == [p EXCEPT ![t].coins = f]
           un == S!Unspent
<1>0. st.kind # "Absent"
  BY DEF IsSeen
<1>1. AddCoins(q, t, st) = IF CoinsTo(t) = {} THEN q ELSE w
  BY DEF AddCoins
<1>2. MapOK(T, p)
  BY CreateOK DEF IsSeen
<1>3. /\ \A u \in Txs : OnlyStatus(q[u], p[u])
      /\ \A u \in Txs : u # t => p[u] = q[u]
      /\ p[t].status = Raised(q[t], st)
  BY CreateIs DEF Raised
<1> HIDE DEF p, un
<1>4. DOMAIN f = DOMAIN old \cup CoinsTo(t) /\ DOMAIN old = DOMAIN q[t].coins
  BY <1>3 DEF OnlyStatus
<1> HIDE DEF f
<1>5. (\A u \in Txs : u # t => w[u] = p[u]) /\ w[t] = [p[t] EXCEPT !.coins = f]
  BY <1>2 DEF MapOK
<1>6. IsShaped(p[t])
  BY <1>2 DEF MapOK, RecOK
<1> HIDE DEF w
<1>7. OnlyCoins(p[t], w[t]) /\ w[t].coins = f
  BY <1>5, <1>6 DEF IsShaped, OnlyCoins
<1>8. ASSUME NEW u \in Txs PROVE Wrote(u, q[u], w[u], t, st, {}, {}, un) /\ Wrote(u, q[u], q[u], t, st, {}, {}, un)
  <2>1. StatusWrote(u, q[u], q[u], t, st)
    BY DEF StatusWrote
  <2>2. Wrote(u, q[u], q[u], t, st, {}, {}, un)
    BY <2>1, WroteStatus
  <2>3. CASE u = t
    <3>1. w[t].status = Raised(q[t], st)
      BY <1>3, <1>7 DEF OnlyCoins
    <3>2. StatusWrote(t, q[t], w[t], t, st)
      BY <1>0, <3>1, RaisedIs
    <3>3. /\ w[t].listed = q[t].listed /\ w[t].notes = q[t].notes /\ DOMAIN q[t].coins \subseteq DOMAIN w[t].coins
          /\ DOMAIN w[t].outgoing = DOMAIN q[t].outgoing
      BY <1>3, <1>4, <1>7 DEF OnlyCoins, OnlyStatus
    <3>4. Wrote(t, q[t], w[t], t, st, {}, {}, un)
      BY <3>2, <3>3, WroteStatus
    <3> QED BY <2>2, <2>3, <3>4
  <2>4. CASE u # t
    <3>1. w[u] = q[u]
      BY <1>3, <1>5, <2>4
    <3> QED BY <2>2, <3>1
  <2> QED BY <2>3, <2>4
<1>9. Writes(q, w, t, st, {}, {}, un) /\ Writes(q, q, t, st, {}, {}, un)
  BY <1>8 DEF Writes
<1>10. CoinsTo(t) \subseteq DOMAIN w[t].coins
  BY <1>4, <1>7
<1> QED BY <1>1, <1>9, <1>10 DEF un

\* mark_txid_utxo_spent and add_taddr_spent
LEMMA SpendCoinsWrites ==
  ASSUME NEW T, NEW q, MapOK(T, q), NEW t \in Txs, NEW st, IsSeen(T, t, st), NEW os \in SUBSET OutIds
  PROVE  Writes(q, SpendCoins(q, t, st, os), t, st, {}, {}, S!Unspent)
<1> DEFINE sp == [by |-> t, status |-> st]
           a == MarkCoins(q, os, sp)
           p == S!CreateModify(a, t, st)
           k == Total(os)
           w == [p EXCEPT ![t].tspent = k]
           un == S!Unspent
<1>0. st.kind # "Absent"
  BY DEF IsSeen
<1>1. SpendCoins(q, t, st, os) = IF os = {} THEN q ELSE w
  BY DEF SpendCoins, MarkCoins
<1>2. SpendOK(sp)
  BY MarkOK
<1> HIDE DEF sp, un
<1>3. MapOK(T, a)
  BY <1>2, CoinsMarked
<1>4. ASSUME NEW u \in Txs PROVE OnlyCoins(q[u], a[u]) /\ DOMAIN a[u].coins = DOMAIN q[u].coins
  <2> DEFINE r == q[u]
             f == [n \in DOMAIN r.coins |-> IF <<u, n>> \in os THEN sp ELSE r.coins[n]]
  <2>1. a[u] = [r EXCEPT !.coins = f]
    BY DEF MarkCoins
  <2>2. IsShaped(r)
    BY DEF MapOK, RecOK
  <2> HIDE DEF r
  <2>3. DOMAIN f = DOMAIN r.coins
    OBVIOUS
  <2> HIDE DEF f
  <2>4. OnlyCoins(r, a[u]) /\ a[u].coins = f
    BY <2>1, <2>2 DEF IsShaped, OnlyCoins
  <2> QED BY <2>3, <2>4 DEF r
<1> HIDE DEF a
<1>5. MapOK(T, p)
  BY <1>3, CreateOK DEF IsSeen
<1>6. /\ \A u \in Txs : OnlyStatus(a[u], p[u])
      /\ \A u \in Txs : u # t => p[u] = a[u]
      /\ p[t].status = Raised(a[t], st)
  BY <1>3, CreateIs DEF Raised
<1> HIDE DEF p, k
<1>7. (\A u \in Txs : u # t => w[u] = p[u]) /\ w[t] = [p[t] EXCEPT !.tspent = k]
  BY <1>5 DEF MapOK
<1>8. IsShaped(p[t])
  BY <1>5 DEF MapOK, RecOK
<1> HIDE DEF w
<1>9. OnlyStatus(p[t], w[t]) /\ w[t].status = p[t].status
  BY <1>7, <1>8 DEF IsShaped, OnlyStatus
<1>10. ASSUME NEW u \in Txs PROVE Wrote(u, q[u], w[u], t, st, {}, {}, un) /\ Wrote(u, q[u], q[u], t, st, {}, {}, un)
  <2>1. StatusWrote(u, q[u], q[u], t, st)
    BY DEF StatusWrote
  <2>2. Wrote(u, q[u], q[u], t, st, {}, {}, un)
    BY <2>1, WroteStatus
  <2>3. OnlyCoins(q[u], a[u]) /\ DOMAIN a[u].coins = DOMAIN q[u].coins /\ OnlyStatus(a[u], p[u])
    BY <1>4, <1>6
  <2>4. OnlyStatus(p[u], w[u])
    BY <1>7, <1>9 DEF OnlyStatus
  <2>5. /\ w[u].listed = q[u].listed /\ w[u].notes = q[u].notes /\ DOMAIN q[u].coins \subseteq DOMAIN w[u].coins
        /\ DOMAIN w[u].outgoing = DOMAIN q[u].outgoing
    BY <2>3, <2>4 DEF OnlyCoins, OnlyStatus
  <2>6. StatusWrote(u, q[u], w[u], t, st)
    <3>1. CASE u = t
      <4>1. w[t].status = Raised(q[t], st)
        BY <1>6, <1>9, <2>3, <3>1 DEF OnlyCoins, Raised
      <4> QED BY <1>0, <3>1, <4>1, RaisedIs
    <3>2. CASE u # t
      BY <1>6, <1>7, <2>3, <3>2 DEF StatusWrote, OnlyCoins
    <3> QED BY <3>1, <3>2
  <2> QED BY <2>2, <2>5, <2>6, WroteStatus
<1>11. Writes(q, w, t, st, {}, {}, un) /\ Writes(q, q, t, st, {}, {}, un)
  BY <1>10 DEF Writes
<1> QED BY <1>1, <1>11 DEF un

\* A scan of the notes to the wallet.
LEMMA ScanReceiptsWrites ==
  ASSUME NEW T, NEW q, MapOK(T, q), NEW t \in Txs, NEW st, IsSeen(T, t, st)
  PROVE  /\ Writes(q, ScanReceipts(q, t, st), t, st, {}, {}, S!Unspent)
         /\ ~S!IsConfirmed(st) => NotesTo(t) \subseteq DOMAIN ScanReceipts(q, t, st)[t].notes
<1> DEFINE p == S!CreateModify(q, t, st)
           add == IF S!IsConfirmed(st) THEN {} ELSE NotesTo(t)
           old == p[t].notes
           from(n) == IF n \in DOMAIN old THEN old[n] ELSE PendingNote
           f == [n \in DOMAIN old \cup add |-> ReadNote(from(n), t, n, st)]
           w == [p EXCEPT ![t].notes = f]
           un == S!Unspent
<1>0. st.kind # "Absent"
  BY DEF IsSeen
<1>1. ScanReceipts(q, t, st) = IF NotesTo(t) = {} THEN q ELSE w
  BY DEF ScanReceipts
<1>2. MapOK(T, p)
  BY CreateOK DEF IsSeen
<1>3. /\ \A u \in Txs : OnlyStatus(q[u], p[u])
      /\ \A u \in Txs : u # t => p[u] = q[u]
      /\ p[t].status = Raised(q[t], st)
  BY CreateIs DEF Raised
<1>4. old = q[t].notes
  BY <1>3 DEF OnlyStatus
<1>5. NotesOK(old, NotesTo(t))
  BY <1>2 DEF MapOK, RecOK
<1>6. ~S!IsConfirmed(st) => add = NotesTo(t)
  OBVIOUS
<1> HIDE DEF p, old, add
<1>7. ASSUME NEW note, IsNote(note), NEW n
      PROVE  ReadNote(note, t, n, st).spend = note.spend /\ (ReadNote(note, t, n, st).nf = note.nf)
  <2> DEFINE i == note.index \/ S!IsConfirmed(st)
             e == Outs[t][n].memo
             x == [note EXCEPT !.index = i]
  <2>1. ReadNote(note, t, n, st) = [note EXCEPT !.index = i, !.memo = e]
    BY DEF ReadNote
  <2> HIDE DEF i, e
  <2>2. note = [nf |-> note.nf, index |-> note.index, memo |-> note.memo, spend |-> note.spend]
    BY <1>7 DEF IsNote
  <2>3. x = [nf |-> note.nf, index |-> i, memo |-> note.memo, spend |-> note.spend]
    BY <2>2
  <2>4. [note EXCEPT !.index = i, !.memo = e] = [x EXCEPT !.memo = e]
    OBVIOUS
  <2> HIDE DEF x
  <2>5. [x EXCEPT !.memo = e] = [nf |-> note.nf, index |-> i, memo |-> e, spend |-> note.spend]
    BY <2>3
  <2> QED BY <2>1, <2>4, <2>5
<1>8. IsNote(PendingNote) /\ PendingNote.spend = un
  BY UnspentOK DEF PendingNote, IsNote, SpendOK
<1> HIDE DEF un
<1>9. DOMAIN f = DOMAIN old \cup add
  OBVIOUS
<1>10. ASSUME NEW n \in DOMAIN old PROVE f[n].spend = old[n].spend /\ (f[n].nf = old[n].nf)
  <2>1. IsNote(old[n]) /\ f[n] = ReadNote(old[n], t, n, st)
    BY <1>5 DEF NotesOK, NoteOK
  <2> HIDE DEF f
  <2> QED BY <1>7, <2>1
<1>11. ASSUME NEW n \in add, n \notin DOMAIN old PROVE f[n].spend = un
  <2>1. f[n] = ReadNote(PendingNote, t, n, st)
    BY <1>11
  <2> HIDE DEF f
  <2> QED BY <1>7, <1>8, <2>1
<1> HIDE DEF f
<1>12. (\A u \in Txs : u # t => w[u] = p[u]) /\ w[t] = [p[t] EXCEPT !.notes = f]
  BY <1>2 DEF MapOK
<1>13. IsShaped(p[t])
  BY <1>2 DEF MapOK, RecOK
<1> HIDE DEF w
<1>14. OnlyNotes(p[t], w[t]) /\ w[t].notes = f
  BY <1>12, <1>13 DEF IsShaped, OnlyNotes
<1>15. Wrote(t, q[t], w[t], t, st, {}, {}, un)
  <2> DEFINE r == q[t]
             v == w[t]
  <2>1. /\ v.status = Raised(r, st) /\ v.listed = r.listed /\ v.coins = r.coins /\ v.outgoing = r.outgoing
        /\ v.notes = f /\ r.notes = old
    BY <1>3, <1>4, <1>14 DEF OnlyStatus, OnlyNotes
  <2> HIDE DEF r, v
  <2>2. StatusWrote(t, r, v, t, st) /\ v.status.kind # "Absent"
    BY <1>0, <2>1, RaisedIs
  <2>3. \A n \in DOMAIN r.notes : r.notes[n].nf => n \in DOMAIN v.notes /\ v.notes[n].nf
    BY <1>9, <1>10, <2>1
  <2>4. ASSUME NEW n \in DOMAIN v.notes PROVE NoteWrote(t, n, r, v, {}, un)
    <3>1. CASE n \in DOMAIN old
      BY <1>10, <2>1, <3>1 DEF NoteWrote
    <3>2. CASE n \notin DOMAIN old
      <4>1. n \in add
        BY <1>9, <2>1, <2>4, <3>2
      <4>2. v.notes[n].spend = un
        BY <1>11, <2>1, <3>2, <4>1
      <4> QED BY <2>1, <3>2, <4>2 DEF NoteWrote, un
    <3> QED BY <3>1, <3>2
  <2>5. DOMAIN r.notes \subseteq DOMAIN v.notes
    BY <1>9, <2>1
  <2>6. Wrote(t, r, v, t, st, {}, {}, un)
    BY <2>1, <2>2, <2>3, <2>4, <2>5 DEF Wrote
  <2> QED BY <2>6 DEF r, v
<1>16. ASSUME NEW u \in Txs PROVE Wrote(u, q[u], q[u], t, st, {}, {}, un)
  <2>1. StatusWrote(u, q[u], q[u], t, st)
    BY DEF StatusWrote
  <2> QED BY <2>1, WroteStatus
<1>17. \A u \in Txs : u # t => w[u] = q[u]
  BY <1>3, <1>12
<1>18. Writes(q, w, t, st, {}, {}, un) /\ Writes(q, q, t, st, {}, {}, un)
  BY <1>15, <1>16, <1>17 DEF Writes
<1>19. ~S!IsConfirmed(st) => NotesTo(t) \subseteq DOMAIN w[t].notes
  BY <1>6, <1>9, <1>14
<1> QED BY <1>1, <1>18, <1>19 DEF un

\* A scan but for the spends of a pending transaction.
LEMMA ScanWrites ==
  ASSUME NEW T, NEW q, MapOK(T, q), NEW t \in Txs, NEW st, IsSeen(T, t, st), NEW p,
         p = ScanReceipts(ScanTransparent(q, t, st), t, st)
  PROVE  /\ MapOK(T, p) /\ Writes(q, p, t, st, {}, {}, S!Unspent)
         /\ CoinsTo(t) \subseteq DOMAIN p[t].coins
         /\ ~S!IsConfirmed(st) => NotesTo(t) \subseteq DOMAIN p[t].notes
<1> DEFINE a == AddCoins(q, t, st)
           os == {o \in Ins[t] : HasCoin(a, o)}
           b == SpendCoins(a, t, st, os)
           un == S!Unspent
<1>0. st.kind # "Absent"
  BY DEF IsSeen
<1>1. MapOK(T, a) /\ Writes(q, a, t, st, {}, {}, un) /\ CoinsTo(t) \subseteq DOMAIN a[t].coins
  BY AddCoinsOK, AddCoinsWrites
<1>2. os \in SUBSET OutIds
  BY LedgerAssumption
<1>3. p = ScanReceipts(b, t, st)
  BY DEF ScanTransparent
<1> HIDE DEF a, os
<1>4. MapOK(T, b) /\ Writes(a, b, t, st, {}, {}, un)
  BY <1>1, <1>2, SpendCoinsOK, SpendCoinsWrites
<1> HIDE DEF b
<1>5. /\ MapOK(T, p) /\ Writes(b, p, t, st, {}, {}, un)
      /\ ~S!IsConfirmed(st) => NotesTo(t) \subseteq DOMAIN p[t].notes
  BY <1>3, <1>4, ScanReceiptsOK, ScanReceiptsWrites
<1>6. Writes(q, b, t, st, {}, {}, un)
  BY <1>0, <1>1, <1>4, WritesTwice
<1>7. Writes(q, p, t, st, {}, {}, un)
  BY <1>0, <1>5, <1>6, WritesTwice
<1>8. DOMAIN a[t].coins \subseteq DOMAIN b[t].coins /\ DOMAIN b[t].coins \subseteq DOMAIN p[t].coins
  BY <1>4, <1>5 DEF Writes, Wrote
<1> QED BY <1>1, <1>5, <1>7, <1>8
-----------------------------------------------------------------------------
(* What a write keeps *)

\* A confirmed status stays, and an absent one is not written.
LEMMA StatusKeeps ==
  ASSUME NEW u, NEW r, NEW v, NEW t, NEW st, NEW mi, NEW T, StatusWrote(u, r, v, t, st), IsNews(t, st, mi, T)
  PROVE  /\ S!IsConfirmed(r.status) => S!IsConfirmed(v.status)
         /\ v.status.kind = "Absent" => r.status.kind = "Absent"
         /\ r.status = S!Confirmed(mi[u]) => v.status = S!Confirmed(mi[u])
BY DEF StatusWrote, IsNews, S!IsConfirmed, S!Confirmed

\* The records keep what Right says of them.
LEMMA RightKept ==
  ASSUME NEW q, NEW w, NEW t, NEW st, NEW ls, NEW os, NEW sp, Writes(q, w, t, st, ls, os, sp),
         NEW mi, NEW T, IsNews(t, st, mi, T), ls \subseteq Ins[t], AllRight(q, mi, T)
  PROVE  AllRight(w, mi, T)
<1> SUFFICES ASSUME NEW u \in Txs PROVE Right(u, w[u], mi, T)
  BY DEF AllRight
<1> DEFINE r == q[u]
           v == w[u]
<1>1. Wrote(u, r, v, t, st, ls, os, sp) /\ Right(u, r, mi, T)
  BY DEF Writes, AllRight
<1> HIDE DEF r, v
<1>2. StatusWrote(u, r, v, t, st)
  BY <1>1 DEF Wrote
<1>3. v.status.kind = "Absent" => r.status.kind = "Absent"
  BY <1>2, StatusKeeps
<1>4. v.status.kind = "Absent" => DOMAIN v.notes = {} /\ v.listed = {}
  BY <1>1, <1>3 DEF Wrote, Right
<1>5. v.status.kind # "Absent" => u \in T
  BY <1>1, <1>2 DEF Right, StatusWrote, IsNews
<1>6. S!IsConfirmed(v.status) => v.status = S!Confirmed(mi[u]) /\ mi[u] \in Nat \ {0}
  BY <1>1, <1>2 DEF Right, StatusWrote, IsNews
<1>7. v.listed \subseteq Ins[u]
  BY <1>1 DEF Wrote, Right
<1>8. Right(u, v, mi, T)
  BY <1>4, <1>5, <1>6, <1>7 DEF Right
<1> QED BY <1>8 DEF v

\* The spend that is written names a spender that lists the notes.
IsMark(w, mi, t, os, sp) ==
  sp = S!Unspent \/ \A o \in os : SpenderLists(w, mi, o, sp)

\* Every spender lists what it spends.
LEMMA ListedKept ==
  ASSUME NEW q, NEW w, NEW t, NEW st, NEW ls, NEW os, NEW sp, Writes(q, w, t, st, ls, os, sp),
         NEW mi, NEW T, IsNews(t, st, mi, T), NEW M, MapOK(M, q), IsMark(w, mi, t, os, sp), AllListed(q, mi)
  PROVE  AllListed(w, mi)
<1> SUFFICES ASSUME NEW u \in Txs, NEW n \in DOMAIN w[u].notes
             PROVE  SpenderLists(w, mi, <<u, n>>, w[u].notes[n].spend)
  BY DEF AllListed
<1> DEFINE x == w[u].notes[n].spend
           o == <<u, n>>
           un == S!Unspent
<1>1. NoteWrote(u, n, q[u], w[u], os, sp)
  BY DEF Writes, Wrote
<1>2. SpenderLists(w, mi, o, un)
  BY DEF SpenderLists, S!Unspent
<1>3. CASE o \in os
  <2>1. x = sp
    BY <1>1, <1>3 DEF NoteWrote
  <2> HIDE DEF x, o
  <2>2. SpenderLists(w, mi, o, x)
    BY <1>2, <1>3, <2>1 DEF IsMark
  <2> QED BY <2>2 DEF x, o
<1>4. CASE o \notin os /\ x = un
  <2> HIDE DEF x, un
  <2>1. SpenderLists(w, mi, o, x)
    BY <1>2, <1>4
  <2> QED BY <2>1 DEF x
<1>5. CASE o \notin os /\ n \in DOMAIN q[u].notes /\ x = q[u].notes[n].spend
  <2>1. SpenderLists(q, mi, o, x)
    BY <1>5 DEF AllListed
  <2>2. x.by # NoTx => x.by \in Txs
    BY <1>5 DEF MapOK, RecOK, NotesOK, NoteOK, SpendOK
  <2> HIDE DEF x, o
  <2>3. SpenderLists(w, mi, o, x)
    <3> SUFFICES ASSUME x.by # NoTx PROVE SpenderLists(w, mi, o, x)
      BY DEF SpenderLists
    <3> DEFINE s == x.by
    <3>1. s \in Txs /\ o \in q[s].listed
      BY <2>1, <2>2 DEF SpenderLists
    <3>2. Wrote(s, q[s], w[s], t, st, ls, os, sp)
      BY <3>1 DEF Writes
    <3>3. q[s].listed \subseteq w[s].listed /\ StatusWrote(s, q[s], w[s], t, st)
      BY <3>2 DEF Wrote
    <3>4. S!IsConfirmed(q[s].status) => S!IsConfirmed(w[s].status)
      BY <3>3, StatusKeeps
    <3> QED BY <2>1, <3>1, <3>3, <3>4 DEF SpenderLists
  <2> QED BY <2>3 DEF x, o
<1> QED BY <1>1, <1>3, <1>4, <1>5 DEF NoteWrote

\* Every pending record that spends something is written to the file.
LEMMA FullKept ==
  ASSUME NEW q, NEW w, NEW t \in Txs, NEW st, NEW ls, NEW os, NEW sp, Writes(q, w, t, st, ls, os, sp),
         NEW mi, NEW T, IsNews(t, st, mi, T),
         w[t].listed = q[t].listed \/ S!IsConfirmed(w[t].status) \/ Full(t, w[t]), AllFull(q)
  PROVE  AllFull(w)
<1> SUFFICES ASSUME NEW u \in Txs, w[u].listed # {}, ~S!IsConfirmed(w[u].status) PROVE Full(u, w[u])
  BY DEF AllFull
<1>1. CASE w[u].listed = q[u].listed
  <2> DEFINE r == q[u]
             v == w[u]
  <2>1. Wrote(u, r, v, t, st, ls, os, sp) /\ v.listed = r.listed /\ v.listed # {} /\ ~S!IsConfirmed(v.status)
    BY <1>1 DEF Writes
  <2>2. r.listed # {} /\ ~S!IsConfirmed(r.status) => Full(u, r)
    BY DEF AllFull
  <2> HIDE DEF r, v
  <2>3. StatusWrote(u, r, v, t, st)
    BY <2>1 DEF Wrote
  <2>4. ~S!IsConfirmed(r.status)
    BY <2>1, <2>3, StatusKeeps
  <2>5. Full(u, v)
    BY <2>1, <2>2, <2>4 DEF Full, Wrote
  <2> QED BY <2>5 DEF v
<1>2. CASE w[u].listed # q[u].listed
  <2>1. u = t
    BY <1>2 DEF Writes, Wrote
  <2> QED BY <1>2, <2>1
<1> QED BY <1>1, <1>2

\* A note of the wallet.
LEMMA OwnNoteIs ==
  ASSUME NEW o \in OwnNotes
  PROVE  o[1] \in Txs /\ o[2] \in NotesTo(o[1]) /\ o = <<o[1], o[2]>>
BY DEF OwnNotes

\* A note that was found in its block stays so.
LEMMA NotedKept ==
  ASSUME NEW q, NEW w, NEW t, NEW st, NEW ls, NEW os, NEW sp, Writes(q, w, t, st, ls, os, sp),
         NEW mi, NEW T, IsNews(t, st, mi, T), NEW o \in OwnNotes, IsNoted(q, mi, o)
  PROVE  IsNoted(w, mi, o)
<1> DEFINE u == o[1]
<1>1. u \in Txs
  BY OwnNoteIs
<1>2. Wrote(u, q[u], w[u], t, st, ls, os, sp)
  BY <1>1 DEF Writes
<1>3. StatusWrote(u, q[u], w[u], t, st)
  BY <1>2 DEF Wrote
<1>4. q[u].status = S!Confirmed(mi[u]) /\ HasNullifier(q, o)
  BY DEF IsNoted
<1>5. w[u].status = S!Confirmed(mi[u])
  BY <1>3, <1>4, StatusKeeps
<1>6. HasNullifier(w, o)
  BY <1>2, <1>4 DEF HasNullifier, HasNote, Wrote
<1> QED BY <1>5, <1>6 DEF IsNoted

\* A spend of the chain that was recorded stays, if a mark does not replace it.
LEMMA SpentKept ==
  ASSUME NEW q, NEW w, NEW t, NEW st, NEW ls, NEW os, NEW sp, Writes(q, w, t, st, ls, os, sp),
         NEW mi, NEW o \in OwnNotes, NEW s, IsSpentBy(q, mi, o, s),
         o \notin os \/ sp = [by |-> s, status |-> S!Confirmed(mi[s])]
  PROVE  IsSpentBy(w, mi, o, s)
<1> DEFINE u == o[1]
           n == o[2]
           x == [by |-> s, status |-> S!Confirmed(mi[s])]
<1>1. u \in Txs /\ o = <<u, n>>
  BY OwnNoteIs
<1>2. n \in DOMAIN q[u].notes /\ q[u].notes[n].nf /\ q[u].notes[n].spend = x
  BY DEF IsSpentBy, HasNullifier, HasNote
<1>3. Wrote(u, q[u], w[u], t, st, ls, os, sp)
  BY <1>1 DEF Writes
<1>4. n \in DOMAIN w[u].notes /\ w[u].notes[n].nf
  BY <1>2, <1>3 DEF Wrote
<1>5. NoteWrote(u, n, q[u], w[u], os, sp)
  BY <1>3, <1>4 DEF Wrote
<1> HIDE DEF x
<1>6. w[u].notes[n].spend = x
  BY <1>1, <1>2, <1>5 DEF NoteWrote, x
<1> QED BY <1>4, <1>6 DEF IsSpentBy, HasNullifier, HasNote, x

\* The mark sp of the notes in os is the one that the chain up to h implies.
IsTrueMark(mi, h, os, sp) ==
  \A o \in os : \A s \in Txs :
    mi[o[1]] \in 1 .. h /\ o \in Ins[s] /\ mi[s] \in 1 .. h => sp = [by |-> s, status |-> S!Confirmed(mi[s])]

\* What is recorded of the chain stays recorded.
LEMMA SettledKept ==
  ASSUME NEW q, NEW w, NEW t, NEW st, NEW ls, NEW os, NEW sp, Writes(q, w, t, st, ls, os, sp),
         NEW mi, NEW T, IsNews(t, st, mi, T), NEW h, IsTrueMark(mi, h, os, sp), IsSettled(q, mi, h)
  PROVE  IsSettled(w, mi, h)
<1> SUFFICES ASSUME NEW o \in OwnNotes, mi[o[1]] \in 1 .. h
             PROVE  /\ IsNoted(w, mi, o)
                    /\ \A s \in Txs : o \in Ins[s] /\ mi[s] \in 1 .. h => IsSpentBy(w, mi, o, s)
  BY DEF IsSettled
<1>1. IsNoted(q, mi, o)
  BY DEF IsSettled
<1>2. IsNoted(w, mi, o)
  BY <1>1, NotedKept
<1>3. ASSUME NEW s \in Txs, o \in Ins[s], mi[s] \in 1 .. h PROVE IsSpentBy(w, mi, o, s)
  <2>1. IsSpentBy(q, mi, o, s)
    BY <1>3 DEF IsSettled
  <2>2. o \notin os \/ sp = [by |-> s, status |-> S!Confirmed(mi[s])]
    BY <1>3 DEF IsTrueMark
  <2> QED BY <2>1, <2>2, SpentKept
<1> QED BY <1>2, <1>3
-----------------------------------------------------------------------------
(* Records go: those of transactions that are invalidated, and those that    *)
(* are not in the file.  The spends by the ones that go are undone.          *)

Remains(r, v, gone) ==
  /\ v.listed = r.listed /\ DOMAIN v.outgoing = DOMAIN r.outgoing
  /\ DOMAIN v.coins = DOMAIN r.coins /\ DOMAIN v.notes = DOMAIN r.notes
  /\ S!IsConfirmed(r.status) => v.status = r.status
  /\ S!IsConfirmed(v.status) => S!IsConfirmed(r.status)
  /\ v.status.kind = "Absent" <=> r.status.kind = "Absent"
  /\ \A n \in DOMAIN r.notes :
       /\ v.notes[n].nf <=> r.notes[n].nf
       /\ v.notes[n].spend = IF r.notes[n].spend.by \in gone THEN S!Unspent ELSE r.notes[n].spend

Drops(q, w, gone) == \A u \in Txs : IF u \in gone THEN w[u] = NoRecord ELSE Remains(q[u], w[u], gone)

\* A transaction without a record.
LEMMA NoRecordIs ==
  /\ NoRecord.status.kind = "Absent" /\ ~S!IsConfirmed(NoRecord.status)
  /\ NoRecord.notes = << >> /\ DOMAIN NoRecord.notes = {} /\ NoRecord.listed = {}
BY DEF NoRecord, S!NoStatus, S!IsConfirmed

\* The records that remain are sound.
LEMMA DropsSound ==
  ASSUME NEW q, NEW w, NEW gone, Drops(q, w, gone), NEW mi, NEW T, NEW M, MapOK(M, q), IsSound(q, mi, T)
  PROVE  IsSound(w, mi, T)
<1>1. ASSUME NEW u \in Txs PROVE Right(u, w[u], mi, T) /\ (w[u].listed # {} /\ ~S!IsConfirmed(w[u].status) => Full(u, w[u]))
  <2> DEFINE r == q[u]
             v == w[u]
  <2>1. Right(u, r, mi, T) /\ (r.listed # {} /\ ~S!IsConfirmed(r.status) => Full(u, r))
    BY DEF IsSound, AllRight, AllFull
  <2>2. CASE u \in gone
    <3>1. v = NoRecord
      BY <2>2 DEF Drops
    <3> HIDE DEF v
    <3>2. Right(u, v, mi, T) /\ v.listed = {}
      BY <3>1, NoRecordIs DEF Right
    <3> QED BY <3>2 DEF v
  <2>3. CASE u \notin gone
    <3>1. Remains(r, v, gone)
      BY <2>3 DEF Drops
    <3> HIDE DEF r, v
    <3>2. Right(u, v, mi, T)
      BY <2>1, <3>1 DEF Right, Remains
    <3>3. v.listed # {} /\ ~S!IsConfirmed(v.status) => Full(u, v)
      BY <2>1, <3>1 DEF Full, Remains
    <3> QED BY <3>2, <3>3 DEF v
  <2> QED BY <2>2, <2>3
<1>2. ASSUME NEW u \in Txs, NEW n \in DOMAIN w[u].notes
      PROVE  SpenderLists(w, mi, <<u, n>>, w[u].notes[n].spend)
  <2> DEFINE x == w[u].notes[n].spend
             y == q[u].notes[n].spend
             o == <<u, n>>
  <2>1. u \notin gone
    BY <1>2, NoRecordIs DEF Drops
  <2>2. Remains(q[u], w[u], gone)
    BY <2>1 DEF Drops
  <2>3. n \in DOMAIN q[u].notes /\ x = IF y.by \in gone THEN S!Unspent ELSE y
    BY <1>2, <2>2 DEF Remains
  <2>4. SpenderLists(q, mi, o, y) /\ (y.by # NoTx => y.by \in Txs)
    BY <2>3 DEF IsSound, AllListed, MapOK, RecOK, NotesOK, NoteOK, SpendOK
  <2>5. SpenderLists(w, mi, o, S!Unspent)
    BY DEF SpenderLists, S!Unspent
  <2> HIDE DEF x, y, o
  <2>6. CASE y.by \in gone
    BY <2>3, <2>5, <2>6 DEF x, o
  <2>7. CASE y.by \notin gone
    <3>1. SpenderLists(w, mi, o, y)
      <4> SUFFICES ASSUME y.by # NoTx PROVE SpenderLists(w, mi, o, y)
        BY DEF SpenderLists
      <4> DEFINE s == y.by
      <4>1. Remains(q[s], w[s], gone)
        BY <2>4, <2>7 DEF Drops
      <4>2. w[s].listed = q[s].listed /\ (S!IsConfirmed(q[s].status) => S!IsConfirmed(w[s].status))
        BY <4>1 DEF Remains
      <4> QED BY <2>4, <4>2 DEF SpenderLists
    <3> QED BY <2>3, <2>7, <3>1 DEF x, o
  <2> QED BY <2>6, <2>7
<1> QED BY <1>1, <1>2 DEF IsSound, AllRight, AllFull, AllListed

\* What was found in blocks and is not dropped is still there.
LEMMA DropsHold ==
  ASSUME NEW q, NEW w, NEW gone, Drops(q, w, gone), NEW mi, NEW o \in OwnNotes, o[1] \notin gone
  PROVE  /\ IsNoted(q, mi, o) => IsNoted(w, mi, o)
         /\ \A s : s \notin gone /\ IsSpentBy(q, mi, o, s) => IsSpentBy(w, mi, o, s)
<1> DEFINE u == o[1]
           n == o[2]
<1>1. u \in Txs
  BY OwnNoteIs
<1>2. Remains(q[u], w[u], gone)
  BY <1>1 DEF Drops
<1>3. HasNullifier(q, o) => HasNullifier(w, o)
  BY <1>2 DEF HasNullifier, HasNote, Remains
<1>4. IsNoted(q, mi, o) => IsNoted(w, mi, o)
  BY <1>2, <1>3 DEF IsNoted, Remains, S!IsConfirmed, S!Confirmed
<1>5. ASSUME NEW s, s \notin gone, IsSpentBy(q, mi, o, s) PROVE IsSpentBy(w, mi, o, s)
  <2> DEFINE x == [by |-> s, status |-> S!Confirmed(mi[s])]
  <2>1. x.by = s
    OBVIOUS
  <2>2. q[u].notes[n].spend = x /\ HasNullifier(q, o)
    BY <1>5 DEF IsSpentBy
  <2> HIDE DEF x
  <2>3. n \in DOMAIN q[u].notes
    BY <2>2 DEF HasNullifier, HasNote
  <2>4. w[u].notes[n].spend = x
    BY <1>2, <1>5, <2>1, <2>2, <2>3 DEF Remains
  <2> QED BY <1>3, <2>2, <2>4 DEF IsSpentBy, x
<1> QED BY <1>4, <1>5

\* invalidate_transactions
LEMMA InvalidateDrops ==
  ASSUME NEW T, NEW q, MapOK(T, q), NEW gone
  PROVE  Drops(q, Invalidate(q, gone), gone)
<1> DEFINE f(t) == [n \in DOMAIN q[t].notes |-> IF q[t].notes[n].spend.by \in gone
                                                  THEN [q[t].notes[n] EXCEPT !.spend = S!Unspent]
                                                  ELSE q[t].notes[n]]
           c(t) == [n \in DOMAIN q[t].coins |-> IF q[t].coins[n].by \in gone THEN S!Unspent ELSE q[t].coins[n]]
           w == [t \in Txs |-> IF t \in gone THEN NoRecord ELSE [q[t] EXCEPT !.notes = f(t), !.coins = c(t)]]
<1>1. Invalidate(q, gone) = w
  BY DEF Invalidate
<1>2. ASSUME NEW u \in Txs, u \in gone PROVE w[u] = NoRecord
  BY <1>2
<1>3. ASSUME NEW u \in Txs, u \notin gone PROVE Remains(q[u], w[u], gone)
  <2> DEFINE r == q[u]
             g == f(u)
             d == c(u)
             v == w[u]
             x == [r EXCEPT !.notes = g]
  <2>1. v = [r EXCEPT !.notes = g, !.coins = d]
    BY <1>3
  <2>2. IsShaped(r) /\ NotesOK(r.notes, NotesTo(u))
    BY DEF MapOK, RecOK
  <2>3. DOMAIN g = DOMAIN r.notes /\ DOMAIN d = DOMAIN r.coins
    OBVIOUS
  <2>4. ASSUME NEW n \in DOMAIN r.notes
        PROVE  /\ g[n].nf <=> r.notes[n].nf
               /\ g[n].spend = IF r.notes[n].spend.by \in gone THEN S!Unspent ELSE r.notes[n].spend
    <3> DEFINE note == r.notes[n]
               un == S!Unspent
    <3>1. note = [nf |-> note.nf, index |-> note.index, memo |-> note.memo, spend |-> note.spend]
      BY <2>2 DEF NotesOK, NoteOK, IsNote
    <3>2. g[n] = IF note.spend.by \in gone THEN [note EXCEPT !.spend = un] ELSE note
      OBVIOUS
    <3> HIDE DEF note, g, un
    <3>3. [note EXCEPT !.spend = un].spend = un /\ ([note EXCEPT !.spend = un].nf = note.nf)
      BY <3>1
    <3> QED BY <3>2, <3>3 DEF note, un
  <2> HIDE DEF r, g, d, v
  <2>5. IsShaped(x) /\ x.status = r.status /\ x.listed = r.listed /\ x.outgoing = r.outgoing /\ x.notes = g
    BY <2>2 DEF IsShaped
  <2>6. v = [x EXCEPT !.coins = d]
    BY <2>1
  <2> HIDE DEF x
  <2>7. v.status = x.status /\ v.listed = x.listed /\ v.outgoing = x.outgoing /\ v.notes = x.notes /\ v.coins = d
    BY <2>5, <2>6 DEF IsShaped
  <2>8. Remains(r, v, gone)
    BY <2>3, <2>4, <2>5, <2>7 DEF Remains
  <2> QED BY <2>8 DEF r, v
<1> HIDE DEF w
<1>4. Drops(q, w, gone)
  BY <1>2, <1>3 DEF Drops
<1> QED BY <1>1, <1>4

\* A pending record that spends something has what is_outgoing_transaction counts.
LEMMA FullIsOutgoing ==
  ASSUME NEW T, NEW t \in Txs, NEW r, RecOK(T, t, r), Full(t, r), Ins[t] # {}
  PROVE  IsOutgoing(t, r)
<1>1. CASE DOMAIN r.outgoing # {}
  BY <1>1 DEF IsOutgoing
<1>2. CASE DOMAIN r.outgoing = {}
  <2>1. DOMAIN r.notes = NotesTo(t) /\ DOMAIN r.coins = CoinsTo(t) /\ ToOthers(t) = {}
    BY <1>2 DEF Full, RecOK, NotesOK, CoinsOK
  <2>2. Total({t} \X (NotesTo(t) \cup CoinsTo(t))) # 0
    BY <2>1, SpendingAssumption
  <2> QED BY <2>1, <2>2 DEF IsOutgoing
<1> QED BY <1>1, <1>2

\* TxMap::write and read: the records that are not in the file list nothing.
LEMMA FileDrops ==
  ASSUME NEW M, NEW q, MapOK(M, q), NEW mi, NEW T, IsSound(q, mi, T)
  PROVE  \E gone : /\ Drops(q, Restore(Store(q)), gone)
                   /\ \A t \in Txs : S!IsConfirmed(q[t].status) => t \notin gone
<1> DEFINE w == Restore(Store(q))
           kept == {u \in S!Known(q) : S!IsConfirmed(q[u].status) \/ IsOutgoing(u, q[u])}
           gone == Txs \ kept
<1>1. Store(q) = [t \in kept |-> StoreRecord(q[t])]
  BY DEF Store
<1>2. \A t \in Txs : t \in kept <=> /\ q[t].status.kind # "Absent"
                                    /\ S!IsConfirmed(q[t].status) \/ IsOutgoing(t, q[t])
  BY DEF S!Known
<1> HIDE DEF kept
<1>3. \A t \in Txs : w[t] = IF t \in kept THEN RestoreRecord(StoreRecord(q[t])) ELSE NoRecord
  BY <1>1 DEF Restore
<1>4. ASSUME NEW t \in Txs, t \in gone PROVE q[t].listed = {}
  <2> SUFFICES ASSUME q[t].listed # {} PROVE FALSE
    OBVIOUS
  <2>1. Right(t, q[t], mi, T) /\ RecOK(M, t, q[t])
    BY DEF IsSound, AllRight, MapOK
  <2>2. q[t].status.kind # "Absent" /\ Ins[t] # {}
    BY <2>1 DEF Right
  <2>3. ~S!IsConfirmed(q[t].status) => Full(t, q[t])
    BY DEF IsSound, AllFull
  <2>4. S!IsConfirmed(q[t].status) \/ IsOutgoing(t, q[t])
    BY <2>1, <2>2, <2>3, FullIsOutgoing
  <2> QED BY <1>2, <1>4, <2>2, <2>4
<1>5. ASSUME NEW t \in Txs, t \notin gone PROVE Remains(q[t], w[t], gone)
  <2> DEFINE r == q[t]
             v == w[t]
             st == IF S!IsConfirmed(r.status) THEN r.status ELSE S!Transmitted(r.status.height)
             c == ForgetPending(r).coins
  <2>1. RecOK(M, t, r) /\ t \in kept
    BY <1>5 DEF MapOK
  <2>2. IsRecord(r)
    BY <2>1, RecOKIsRecord
  <2>3. r.status.kind # "Absent"
    BY <1>2, <2>1
  <2>4. ASSUME NEW n \in DOMAIN r.notes PROVE r.notes[n].spend.by \notin gone
    <3> DEFINE sp == r.notes[n].spend
    <3>1. SpenderLists(q, mi, <<t, n>>, sp) /\ SpendOK(sp)
      BY <2>1, <2>4 DEF IsSound, AllListed, RecOK, NotesOK, NoteOK
    <3> HIDE DEF sp
    <3>2. sp.by # NoTx => sp.by \in Txs /\ q[sp.by].listed # {}
      BY <3>1 DEF SpenderLists, SpendOK
    <3>3. sp.by = NoTx => sp.by \notin gone
      BY LedgerAssumption
    <3>4. sp.by \notin gone
      BY <1>4, <3>2, <3>3
    <3> QED BY <3>4 DEF sp
  <2>5. v = RestoreRecord(StoreRecord(r))
    BY <1>3, <2>1
  <2>6. (r.status.kind = "Absent" <=> FALSE) /\ st.kind # "Absent"
    BY <2>3 DEF S!Transmitted
  <2>7. DOMAIN c = DOMAIN r.coins
    <3>1. c = [n \in DOMAIN r.coins |-> IF S!IsConfirmed(r.coins[n].status) THEN r.coins[n] ELSE S!Unspent]
      BY <2>2 DEF ForgetPending, IsRecord
    <3> HIDE DEF c
    <3> QED BY <3>1
  <2>8. (S!IsConfirmed(r.status) => st = r.status) /\ (S!IsConfirmed(st) => S!IsConfirmed(r.status))
    BY DEF S!IsConfirmed, S!Transmitted
  <2> HIDE DEF r, v, gone
  <2>9. v = [status |-> st, notes |-> r.notes, coins |-> c, listed |-> r.listed,
             tspent |-> r.tspent, outgoing |-> r.outgoing]
    BY <2>2, <2>5, RecordKept
  <2> HIDE DEF st, c
  <2>10. v.status = st /\ v.notes = r.notes /\ v.coins = c /\ v.listed = r.listed /\ v.outgoing = r.outgoing
    BY <2>9
  <2>11. Remains(r, v, gone)
    BY <2>4, <2>6, <2>7, <2>8, <2>10 DEF Remains
  <2> QED BY <2>11 DEF r, v
<1>6. \A t \in Txs : t \in gone => w[t] = NoRecord
  BY <1>3
<1>7. \A t \in Txs : S!IsConfirmed(q[t].status) => t \notin gone
  BY <1>2 DEF S!IsConfirmed
<1> HIDE DEF w, gone
<1>8. Drops(q, w, gone)
  BY <1>5, <1>6 DEF Drops
<1> QED BY <1>7, <1>8 DEF w
-----------------------------------------------------------------------------
(* What a batch has still to find.  q are the records, h is the height the   *)
(* wallet is synced to and b is the batch.                                   *)

\* The chain holds transactions that are made, none before the ones whose
\* outputs it spends.
IsChain(mi, T) == \A s \in Txs : mi[s] # 0 => s \in T /\ \A o \in Ins[s] : mi[o[1]] \in 1 .. mi[s]

\* The spend of o by s is recorded, or a worker will look for it.
IsSought(q, mi, h, b, o, s) ==
  \/ mi[o[1]] <= h /\ "list" \in b.tasks
  \/ o \in b.notes \/ \E u \in b.updates : u.out = o
  \/ IsSpentBy(q, mi, o, s)

\* Until a worker fails, every note of the blocks of the batch is recorded or
\* will be, and every spend in them.
IsGoing(q, mi, h, b) ==
  ~b.failed => \A o \in OwnNotes :
    /\ mi[o[1]] \in (h + 1) .. b.target => o \in b.notes \/ IsNoted(q, mi, o)
    /\ \A s \in Txs : o \in Ins[s] /\ mi[s] \in (h + 1) .. b.target => IsSought(q, mi, h, b, o, s)

\* Notes are looked for in the blocks of the batch, and no outgoing data that
\* is on its way is empty.
IsWork(mi, h, b) ==
  (\A o \in b.notes : mi[o[1]] \in (h + 1) .. b.target) /\ \A w \in b.writes : DOMAIN w.out # {}

\* The records and the file are sound and know the chain up to their heights,
\* and a batch finds the rest of it.
ShieldInv ==
  /\ LedgerInv /\ IsChain(mined, made)
  /\ IsSound(m, mined, made) /\ IsSettled(m, mined, synced)
  /\ IsSound(Restore(file.recs), mined, made) /\ IsSettled(Restore(file.recs), mined, file.synced)
  /\ IsGoing(m, mined, synced, batch) /\ IsWork(mined, synced, batch)

\* Of the transactions that are made only one spends an output.
LEMMA OneSpender ==
  ASSUME NEW T \in DOMAIN MaxSize, NEW s \in T, NEW t \in T, NEW o, o \in Ins[s], o \in Ins[t]
  PROVE  s = t
BY SpendingAssumption

\* Writing keeps the records sound.
LEMMA SoundKept ==
  ASSUME NEW q, NEW w, NEW t \in Txs, NEW st, NEW ls, NEW os, NEW sp, Writes(q, w, t, st, ls, os, sp),
         NEW mi, NEW T, IsNews(t, st, mi, T), NEW M, MapOK(M, q), ls \subseteq Ins[t],
         IsMark(w, mi, t, os, sp),
         w[t].listed = q[t].listed \/ S!IsConfirmed(w[t].status) \/ Full(t, w[t]), IsSound(q, mi, T)
  PROVE  IsSound(w, mi, T)
<1>1. AllRight(q, mi, T) /\ AllListed(q, mi) /\ AllFull(q)
  BY DEF IsSound
<1>2. AllRight(w, mi, T)
  BY <1>1, RightKept
<1>3. AllListed(w, mi)
  BY <1>1, ListedKept
<1>4. AllFull(w)
  BY <1>1, FullKept
<1> QED BY <1>2, <1>3, <1>4 DEF IsSound

\* A mark that is true of a longer chain is true of a shorter one.
LEMMA TrueMarkBelow ==
  ASSUME NEW mi, NEW h \in Nat, NEW g \in Nat, g <= h, NEW os, NEW sp, IsTrueMark(mi, h, os, sp)
  PROVE  IsTrueMark(mi, g, os, sp)
<1> SUFFICES ASSUME NEW o \in os, NEW s \in Txs, mi[o[1]] \in 1 .. g, o \in Ins[s], mi[s] \in 1 .. g
             PROVE  sp = [by |-> s, status |-> S!Confirmed(mi[s])]
  BY DEF IsTrueMark
<1>1. mi[o[1]] \in 1 .. h /\ mi[s] \in 1 .. h
  OBVIOUS
<1> QED BY <1>1 DEF IsTrueMark

\* A batch loses nothing of what it has found by writing what is true.
LEMMA GoingKept ==
  ASSUME NEW q, NEW w, NEW t, NEW st, NEW ls, NEW os, NEW sp, Writes(q, w, t, st, ls, os, sp),
         NEW mi, NEW T, IsNews(t, st, mi, T), NEW h \in Nat, NEW b, b.target \in Nat, NEW top \in Nat,
         b.target <= top, IsTrueMark(mi, top, os, sp), IsChain(mi, T), IsGoing(q, mi, h, b)
  PROVE  IsGoing(w, mi, h, b)
<1> SUFFICES ASSUME ~b.failed, NEW o \in OwnNotes
             PROVE  /\ mi[o[1]] \in (h + 1) .. b.target => o \in b.notes \/ IsNoted(w, mi, o)
                    /\ \A s \in Txs : o \in Ins[s] /\ mi[s] \in (h + 1) .. b.target => IsSought(w, mi, h, b, o, s)
  BY DEF IsGoing
<1>1. mi[o[1]] \in (h + 1) .. b.target => o \in b.notes \/ IsNoted(w, mi, o)
  <2>1. IsNoted(q, mi, o) => IsNoted(w, mi, o)
    BY NotedKept
  <2> QED BY <2>1 DEF IsGoing
<1>2. ASSUME NEW s \in Txs, o \in Ins[s], mi[s] \in (h + 1) .. b.target PROVE IsSought(w, mi, h, b, o, s)
  <2>1. IsSought(q, mi, h, b, o, s)
    BY <1>2 DEF IsGoing
  <2>2. CASE IsSpentBy(q, mi, o, s)
    <3>1. mi[s] # 0 /\ mi[s] \in 1 .. top
      BY <1>2
    <3>2. mi[o[1]] \in 1 .. mi[s]
      BY <1>2, <3>1 DEF IsChain
    <3>3. mi[o[1]] \in 1 .. top
      BY <3>1, <3>2
    <3>4. o \notin os \/ sp = [by |-> s, status |-> S!Confirmed(mi[s])]
      BY <1>2, <3>1, <3>3 DEF IsTrueMark
    <3>5. IsSpentBy(w, mi, o, s)
      BY <2>2, <3>4, SpentKept
    <3> QED BY <3>5 DEF IsSought
  <2>3. CASE ~IsSpentBy(q, mi, o, s)
    BY <2>1, <2>3 DEF IsSought
  <2> QED BY <2>2, <2>3
<1> QED BY <1>1, <1>2

\* A batch with more to do, or one that has failed.
LEMMA GoingMore ==
  ASSUME NEW q, NEW mi, NEW h, NEW b, NEW c, IsGoing(q, mi, h, b), c.target = b.target,
         b.failed => c.failed, "list" \in b.tasks => "list" \in c.tasks,
         b.notes \subseteq c.notes, b.updates \subseteq c.updates
  PROVE  IsGoing(q, mi, h, c)
BY DEF IsGoing, IsSought

\* What the steps start from.
LEMMA ShieldParts ==
  ASSUME ShieldInv
  PROVE  /\ LedgerInv /\ MapOK(Mined, m) /\ BatchOK(batch, Mined, tip) /\ made \in DOMAIN MaxSize
         /\ tip \in Nat /\ synced \in Nat /\ synced <= tip /\ batch.target \in Nat /\ batch.target <= tip
         /\ file.synced \in Nat /\ file.synced <= tip
         /\ \A t \in Txs : mined[t] \in Nat /\ mined[t] <= tip
         /\ \A t \in Mined : t \in Txs /\ mined[t] # 0 /\ t \in made
         /\ IsChain(mined, made) /\ IsSound(m, mined, made) /\ IsSettled(m, mined, synced)
         /\ IsGoing(m, mined, synced, batch) /\ IsWork(mined, synced, batch)
<1>1. LedgerInv /\ IsChain(mined, made)
  BY DEF ShieldInv
<1>2. /\ MapOK(Mined, m) /\ BatchOK(batch, Mined, tip) /\ made \in DOMAIN MaxSize
      /\ tip \in Nat /\ synced \in 0 .. tip /\ batch.target \in 0 .. tip /\ file.synced \in 0 .. tip
      /\ \A t \in Txs : mined[t] \in 0 .. tip
  BY <1>1 DEF LedgerInv, Heights, BatchOK
<1>3. \A t \in Mined : t \in Txs /\ mined[t] # 0 /\ t \in made
  BY <1>1, <1>2 DEF IsChain, Mined
<1> QED BY <1>1, <1>2, <1>3 DEF ShieldInv

\* A step that writes what is true of the chain.
LEMMA WriteStep ==
  ASSUME ShieldInv, NEW w, NEW t \in Txs, NEW st, NEW ls, NEW os, NEW sp, Writes(m, w, t, st, ls, os, sp),
         IsNews(t, st, mined, made), ls \subseteq Ins[t], IsMark(w, mined, t, os, sp),
         w[t].listed = m[t].listed \/ S!IsConfirmed(w[t].status) \/ Full(t, w[t]),
         IsTrueMark(mined, tip, os, sp)
  PROVE  IsSound(w, mined, made) /\ IsSettled(w, mined, synced) /\ IsGoing(w, mined, synced, batch)
<1>1. IsSound(w, mined, made)
  BY ShieldParts, SoundKept
<1>2. IsTrueMark(mined, synced, os, sp)
  BY ShieldParts, TrueMarkBelow
<1>3. IsSettled(w, mined, synced)
  BY <1>2, ShieldParts, SettledKept
<1>4. IsGoing(w, mined, synced, batch)
  BY ShieldParts, GoingKept
<1> QED BY <1>1, <1>3, <1>4

\* A step that leaves the chain, the file and the height of the wallet alone.
LEMMA SameShield ==
  ASSUME ShieldInv, LedgerInv', made' = made, mined' = mined, synced' = synced, file' = file,
         IsSound(m', mined, made), IsSettled(m', mined, synced),
         IsGoing(m', mined, synced, batch'), IsWork(mined, synced, batch')
  PROVE  ShieldInv'
BY DEF ShieldInv
-----------------------------------------------------------------------------
(* One lemma for each action: the shielded part of the invariant is kept.    *)

\* The records of transactions that are in blocks do not see a new block.
LEMMA GrownSound ==
  ASSUME NEW q, NEW mi, NEW mj, NEW T, NEW M, MapOK(M, q), IsSound(q, mi, T),
         \A t \in Txs : mi[t] # 0 => mj[t] = mi[t]
  PROVE  IsSound(q, mj, T)
<1>1. AllFull(q)
  BY DEF IsSound
<1>2. AllRight(q, mj, T)
  <2> SUFFICES ASSUME NEW t \in Txs PROVE Right(t, q[t], mj, T)
    BY DEF AllRight
  <2>1. Right(t, q[t], mi, T)
    BY DEF IsSound, AllRight
  <2> QED BY <2>1 DEF Right
<1>3. AllListed(q, mj)
  <2> SUFFICES ASSUME NEW t \in Txs, NEW n \in DOMAIN q[t].notes
               PROVE  SpenderLists(q, mj, <<t, n>>, q[t].notes[n].spend)
    BY DEF AllListed
  <2> DEFINE sp == q[t].notes[n].spend
             s == sp.by
  <2>1. SpenderLists(q, mi, <<t, n>>, sp) /\ (s # NoTx => s \in Txs)
    BY DEF IsSound, AllListed, MapOK, RecOK, NotesOK, NoteOK, SpendOK
  <2>2. s \in Txs /\ S!IsConfirmed(q[s].status) => mi[s] # 0
    BY DEF IsSound, AllRight, Right
  <2>3. s \in Txs /\ S!IsConfirmed(q[s].status) => mj[s] = mi[s]
    BY <2>2
  <2>4. SpenderLists(q, mj, <<t, n>>, sp)
    BY <2>1, <2>3 DEF SpenderLists
  <2> QED BY <2>4
<1> QED BY <1>1, <1>2, <1>3 DEF IsSound

\* Two chains with the same blocks up to h.
LEMMA GrownSettled ==
  ASSUME NEW q, NEW mi, NEW mj, NEW h, IsSettled(q, mi, h),
         \A t \in Txs : mj[t] \in 1 .. h => mj[t] = mi[t]
  PROVE  IsSettled(q, mj, h)
<1> SUFFICES ASSUME NEW o \in OwnNotes, mj[o[1]] \in 1 .. h
             PROVE  /\ IsNoted(q, mj, o)
                    /\ \A s \in Txs : o \in Ins[s] /\ mj[s] \in 1 .. h => IsSpentBy(q, mj, o, s)
  BY DEF IsSettled
<1>1. o[1] \in Txs /\ mj[o[1]] = mi[o[1]]
  BY OwnNoteIs
<1>2. IsNoted(q, mi, o)
  BY <1>1 DEF IsSettled
<1>3. IsNoted(q, mj, o)
  BY <1>1, <1>2 DEF IsNoted
<1>4. ASSUME NEW s \in Txs, o \in Ins[s], mj[s] \in 1 .. h PROVE IsSpentBy(q, mj, o, s)
  <2>1. mj[s] = mi[s]
    BY <1>4
  <2>2. IsSpentBy(q, mi, o, s)
    BY <1>1, <1>4, <2>1 DEF IsSettled
  <2> QED BY <2>1, <2>2 DEF IsSpentBy
<1> QED BY <1>3, <1>4

\* A block.
LEMMA MineShield == ShieldInv /\ (\E B \in SUBSET made : Mine(B)) => ShieldInv'
<1> SUFFICES ASSUME ShieldInv, NEW B \in SUBSET made, Mine(B) PROVE ShieldInv'
  OBVIOUS
<1> DEFINE mj == mined'
<1>1. /\ \A t \in B : mined[t] = 0 /\ {o[1] : o \in Ins[t]} \subseteq Mined \cup B
      /\ tip' = tip + 1 /\ mined' = [t \in Txs |-> IF t \in B THEN tip + 1 ELSE mined[t]]
      /\ made' = made /\ m' = m /\ synced' = synced /\ batch' = batch /\ file' = file
  BY DEF Mine
<1>2. LedgerInv'
  BY MineInv DEF ShieldInv
<1>3. /\ tip \in Nat /\ synced \in Nat /\ synced <= tip /\ batch.target \in Nat /\ batch.target <= tip
      /\ file.synced \in Nat /\ file.synced <= tip /\ \A t \in Txs : mined[t] \in Nat /\ mined[t] <= tip
  BY ShieldParts
<1>4. \A t \in Txs : mj[t] = IF t \in B THEN tip + 1 ELSE mined[t]
  BY <1>1
<1>5. \A t \in Txs : mined[t] # 0 => mj[t] = mined[t]
  BY <1>1, <1>4
<1> HIDE DEF mj
<1>6. ASSUME NEW h \in Nat, h <= tip PROVE \A t \in Txs : mj[t] \in 1 .. h => mj[t] = mined[t]
  BY <1>3, <1>4, <1>6
<1>7. IsChain(mj, made)
  <2> SUFFICES ASSUME NEW s \in Txs, mj[s] # 0 PROVE s \in made /\ \A o \in Ins[s] : mj[o[1]] \in 1 .. mj[s]
    BY DEF IsChain
  <2>1. IsChain(mined, made)
    BY ShieldParts
  <2>2. CASE s \in B
    <3>1. mj[s] = tip + 1
      BY <1>4, <2>2
    <3>2. ASSUME NEW o \in Ins[s] PROVE mj[o[1]] \in 1 .. (tip + 1)
      <4>1. o[1] \in Mined \cup B
        BY <1>1, <2>2
      <4>2. o[1] \in Txs
        BY LedgerAssumption DEF OutIds
      <4>3. CASE o[1] \in B
        BY <1>3, <1>4, <4>2, <4>3
      <4>4. CASE o[1] \notin B
        BY <1>3, <1>4, <4>1, <4>2, <4>4 DEF Mined
      <4> QED BY <4>3, <4>4
    <3> QED BY <2>2, <3>1, <3>2
  <2>3. CASE s \notin B
    <3>1. mj[s] = mined[s] /\ mined[s] # 0
      BY <1>4, <2>3
    <3>2. s \in made /\ \A o \in Ins[s] : mined[o[1]] \in 1 .. mined[s]
      BY <2>1, <3>1 DEF IsChain
    <3>3. \A o \in Ins[s] : o[1] \in Txs
      BY LedgerAssumption DEF OutIds
    <3>4. ASSUME NEW o \in Ins[s] PROVE mj[o[1]] \in 1 .. mj[s]
      <4>1. mined[o[1]] \in 1 .. mined[s] /\ o[1] \in Txs
        BY <3>2, <3>3
      <4>2. mj[o[1]] = mined[o[1]]
        BY <1>3, <1>5, <4>1
      <4> QED BY <3>1, <4>1, <4>2
    <3> QED BY <3>2, <3>4
  <2> QED BY <2>2, <2>3
<1>8. MapOK(Mined, m) /\ MapOK(Mined, Restore(file.recs))
  BY DEF ShieldInv, LedgerInv
<1>9. IsSound(m, mj, made) /\ IsSound(Restore(file.recs), mj, made)
  BY <1>5, <1>8, GrownSound DEF ShieldInv
<1>10. IsSettled(m, mj, synced) /\ IsSettled(Restore(file.recs), mj, file.synced)
  <2>1. \A t \in Txs : mj[t] \in 1 .. synced => mj[t] = mined[t]
    BY <1>3, <1>6
  <2>2. \A t \in Txs : mj[t] \in 1 .. file.synced => mj[t] = mined[t]
    BY <1>3, <1>6
  <2> QED BY <2>1, <2>2, GrownSettled DEF ShieldInv
<1>11. \A t \in Txs : mj[t] \in (synced + 1) .. batch.target => mj[t] = mined[t]
  BY <1>3, <1>4
<1>12. IsGoing(m, mj, synced, batch)
  <2> SUFFICES ASSUME ~batch.failed, NEW o \in OwnNotes
               PROVE  /\ mj[o[1]] \in (synced + 1) .. batch.target => o \in batch.notes \/ IsNoted(m, mj, o)
                      /\ \A s \in Txs : o \in Ins[s] /\ mj[s] \in (synced + 1) .. batch.target
                                          => IsSought(m, mj, synced, batch, o, s)
    BY DEF IsGoing
  <2>1. o[1] \in Txs /\ IsGoing(m, mined, synced, batch)
    BY OwnNoteIs, ShieldParts
  <2>2. ASSUME mj[o[1]] \in (synced + 1) .. batch.target PROVE o \in batch.notes \/ IsNoted(m, mj, o)
    <3>1. mj[o[1]] = mined[o[1]]
      BY <1>11, <2>1, <2>2
    <3> QED BY <2>1, <2>2, <3>1 DEF IsGoing, IsNoted
  <2>3. ASSUME NEW s \in Txs, o \in Ins[s], mj[s] \in (synced + 1) .. batch.target
        PROVE  IsSought(m, mj, synced, batch, o, s)
    <3>1. mj[s] = mined[s]
      BY <1>11, <2>3
    <3>2. IsSought(m, mined, synced, batch, o, s)
      BY <2>1, <2>3, <3>1 DEF IsGoing
    <3>3. mj[o[1]] = mined[o[1]]
      <4>1. mined[s] # 0
        BY <1>3, <2>3, <3>1
      <4>2. mined[o[1]] # 0
        <5>1. mined[o[1]] \in 1 .. mined[s]
          BY <2>3, <4>1, ShieldParts DEF IsChain
        <5> QED BY <5>1
      <4> QED BY <1>5, <2>1, <4>2
    <3> QED BY <3>1, <3>2, <3>3 DEF IsSought, IsSpentBy
  <2> QED BY <2>2, <2>3
<1>13. IsWork(mj, synced, batch)
  <2>1. IsWork(mined, synced, batch) /\ BatchOK(batch, Mined, tip)
    BY ShieldParts
  <2>2. ASSUME NEW o \in batch.notes PROVE mj[o[1]] \in (synced + 1) .. batch.target
    <3>1. o[1] \in Mined /\ mined[o[1]] \in (synced + 1) .. batch.target
      BY <2>1 DEF IsWork, BatchOK, NotesIn
    <3>2. mj[o[1]] = mined[o[1]]
      BY <1>5, <3>1, ShieldParts
    <3> QED BY <3>1, <3>2
  <2> QED BY <2>1, <2>2 DEF IsWork
<1> QED BY <1>1, <1>2, <1>7, <1>9, <1>10, <1>12, <1>13 DEF ShieldInv, mj

\* get_notes_for_updating names every note that is recorded up to the height
\* and has a spender, unless this spend is recorded already.
LEMMA ForUpdating ==
  ASSUME NEW M, NEW q, MapOK(M, q), NEW mi, NEW T \in DOMAIN MaxSize, IsSound(q, mi, T), NEW h \in Nat,
         NEW o \in OwnNotes, mi[o[1]] \in 1 .. h, IsNoted(q, mi, o), NEW s \in T, o \in Ins[s]
  PROVE  o \in NotesForUpdating(q, h) \/ IsSpentBy(q, mi, o, s)
<1> DEFINE t == o[1]
           n == o[2]
           sp == q[t].notes[n].spend
<1>1. t \in Txs /\ o = <<t, n>>
  BY OwnNoteIs
<1>2. HasNullifier(q, o) /\ n \in DOMAIN q[t].notes /\ q[t].status = S!Confirmed(mi[t])
  BY DEF IsNoted, HasNullifier, HasNote
<1>3. S!IsConfirmed(q[t].status) /\ q[t].status.height <= h
  BY <1>2 DEF S!IsConfirmed, S!Confirmed
<1>4. o \in Held(q) /\ SpendOf(q, o) = sp
  BY <1>1, <1>2 DEF Held, SpendOf, HasNote
<1>5. SpendOK(sp) /\ SpenderLists(q, mi, o, sp)
  BY <1>1, <1>2 DEF MapOK, RecOK, NotesOK, NoteOK, IsSound, AllListed
<1>6. CASE ~S!IsConfirmed(sp.status)
  BY <1>2, <1>3, <1>4, <1>6 DEF NotesForUpdating
<1>7. CASE S!IsConfirmed(sp.status)
  <2> HIDE DEF sp
  <2>1. sp.by # NoTx /\ sp.by \in Txs /\ sp = [by |-> sp.by, status |-> sp.status]
    BY <1>5, <1>7, SummaryIs DEF SpendOK, IsSpend
  <2>2. o \in q[sp.by].listed /\ S!IsConfirmed(q[sp.by].status) /\ sp.status = S!Confirmed(mi[sp.by])
    BY <1>5, <1>7, <2>1 DEF SpenderLists
  <2>3. Right(sp.by, q[sp.by], mi, T)
    BY <2>1 DEF IsSound, AllRight
  <2>4. sp.by \in T /\ o \in Ins[sp.by]
    BY <2>2, <2>3 DEF Right, S!IsConfirmed
  <2>5. sp.by = s
    BY <2>4, OneSpender
  <2>6. sp = [by |-> s, status |-> S!Confirmed(mi[s])]
    BY <2>1, <2>2, <2>5, Zenon
  <2> QED BY <1>2, <2>6 DEF IsSpentBy, sp
<1> QED BY <1>6, <1>7

\* A batch starts.
LEMMA StartShield == ShieldInv /\ StartBatch => ShieldInv'
<1> SUFFICES ASSUME ShieldInv, StartBatch PROVE ShieldInv'
  OBVIOUS
<1> DEFINE new == {t \in Mined : synced < mined[t]}
           tasks == {k \in {"list", "rescan"} :
                       {} # IF k = "list" THEN NotesForUpdating(m, synced) ELSE Unindexed(m, synced)}
           notes == UNION {{t} \X NotesTo(t) : t \in new}
           b == batch'
<1>1. PICK queue : batch' = [NoBatch EXCEPT !.target = tip, !.tasks = tasks, !.notes = notes, !.queue = queue]
  BY DEF StartBatch
<1>2. made' = made /\ mined' = mined /\ m' = m /\ synced' = synced /\ file' = file
  BY DEF StartBatch, chain
<1>3. LedgerInv'
  BY StartInv DEF ShieldInv
<1>4. "list" \in tasks <=> NotesForUpdating(m, synced) # {}
  OBVIOUS
<1> HIDE DEF tasks
<1>5. \A o \in notes : o[1] \in new
  OBVIOUS
<1>6. \A o \in OwnNotes : o[1] \in new => o \in notes
  <2> SUFFICES ASSUME NEW o \in OwnNotes, o[1] \in new PROVE o \in notes
    OBVIOUS
  <2>1. o \in {o[1]} \X NotesTo(o[1])
    BY OwnNoteIs
  <2> QED BY <2>1
<1> HIDE DEF notes
<1>7. b.target = tip /\ b.tasks = tasks /\ b.notes = notes /\ b.writes = {} /\ b.updates = {}
  BY <1>1 DEF NoBatch
<1> HIDE DEF b
<1>8. \A t \in Txs : t \in new <=> mined[t] \in (synced + 1) .. tip
  BY ShieldParts DEF Mined
<1>9. IsWork(mined, synced, b)
  <2>1. \A t \in new : t \in Txs
    BY DEF Mined
  <2> QED BY <1>5, <1>7, <1>8, <2>1 DEF IsWork
<1> HIDE DEF new
<1>10. IsGoing(m, mined, synced, b)
  <2> SUFFICES ASSUME NEW o \in OwnNotes
               PROVE  /\ mined[o[1]] \in (synced + 1) .. tip => o \in b.notes
                      /\ \A s \in Txs : o \in Ins[s] /\ mined[s] \in (synced + 1) .. tip
                                          => IsSought(m, mined, synced, b, o, s)
    BY <1>7 DEF IsGoing
  <2>1. o[1] \in Txs
    BY OwnNoteIs
  <2>2. mined[o[1]] \in (synced + 1) .. tip => o \in b.notes
    BY <1>6, <1>7, <1>8, <2>1
  <2>3. ASSUME NEW s \in Txs, o \in Ins[s], mined[s] \in (synced + 1) .. tip
        PROVE  IsSought(m, mined, synced, b, o, s)
    <3>1. mined[s] # 0
      BY <2>3, ShieldParts
    <3>2. s \in made /\ mined[o[1]] \in 1 .. mined[s]
      BY <2>3, <3>1, ShieldParts DEF IsChain
    <3>3. CASE mined[o[1]] \in 1 .. synced
      <4>1. IsNoted(m, mined, o)
        BY <3>3, ShieldParts DEF IsSettled
      <4>2. o \in NotesForUpdating(m, synced) \/ IsSpentBy(m, mined, o, s)
        BY <2>3, <3>2, <3>3, <4>1, ShieldParts, ForUpdating
      <4>3. mined[o[1]] <= synced
        BY <3>3, ShieldParts
      <4> QED BY <1>4, <1>7, <4>2, <4>3 DEF IsSought
    <3>4. CASE mined[o[1]] \notin 1 .. synced
      <4>1. mined[o[1]] \in (synced + 1) .. tip
        BY <2>1, <3>2, <3>4, ShieldParts
      <4> QED BY <2>2, <4>1 DEF IsSought
    <3> QED BY <3>3, <3>4
  <2> QED BY <2>2, <2>3
<1>11. IsSound(m, mined, made) /\ IsSettled(m, mined, synced)
  BY ShieldParts
<1> QED BY <1>2, <1>3, <1>9, <1>10, <1>11, SameShield DEF b

\* update_notes lists the notes of the wallet.
LEMMA ListShield == ShieldInv /\ ListNotes => ShieldInv'
<1> SUFFICES ASSUME ShieldInv, ListNotes PROVE ShieldInv'
  OBVIOUS
<1> DEFINE tasks == batch.tasks \ {"list"}
           more == {[out |-> o, index |-> m[o[1]].notes[o[2]].index, fetch |-> FALSE] :
                      o \in NotesForUpdating(m, synced)}
           updates == batch.updates \cup more
           b == batch'
<1>1. batch' = [batch EXCEPT !.tasks = tasks, !.updates = updates]
  BY DEF ListNotes
<1>2. made' = made /\ mined' = mined /\ m' = m /\ synced' = synced /\ file' = file
  BY DEF ListNotes, chain
<1>3. LedgerInv'
  BY ListInv DEF ShieldInv
<1>4. \A o \in NotesForUpdating(m, synced) : \E u \in more : u.out = o
  <2> SUFFICES ASSUME NEW o \in NotesForUpdating(m, synced) PROVE \E u \in more : u.out = o
    OBVIOUS
  <2> DEFINE u == [out |-> o, index |-> m[o[1]].notes[o[2]].index, fetch |-> FALSE]
  <2>1. u \in more /\ u.out = o
    OBVIOUS
  <2> QED BY <2>1
<1> HIDE DEF more, tasks
<1>5. IsBatch(batch)
  BY ShieldParts DEF BatchOK
<1>6. /\ b.target = batch.target /\ b.updates = updates /\ b.notes = batch.notes /\ b.writes = batch.writes
      /\ b.failed = batch.failed
  BY <1>1, <1>5 DEF IsBatch
<1> HIDE DEF b
<1>7. IsWork(mined, synced, b)
  BY <1>6, ShieldParts DEF IsWork
<1>8. IsGoing(m, mined, synced, b)
  <2> SUFFICES ASSUME ~b.failed, NEW o \in OwnNotes
               PROVE  /\ mined[o[1]] \in (synced + 1) .. b.target => o \in b.notes \/ IsNoted(m, mined, o)
                      /\ \A s \in Txs : o \in Ins[s] /\ mined[s] \in (synced + 1) .. b.target
                                          => IsSought(m, mined, synced, b, o, s)
    BY DEF IsGoing
  <2>1. mined[o[1]] \in (synced + 1) .. b.target => o \in b.notes \/ IsNoted(m, mined, o)
    BY <1>6, ShieldParts DEF IsGoing
  <2>2. ASSUME NEW s \in Txs, o \in Ins[s], mined[s] \in (synced + 1) .. b.target
        PROVE  IsSought(m, mined, synced, b, o, s)
    <3>1. IsSought(m, mined, synced, batch, o, s)
      BY <1>6, <2>2, ShieldParts DEF IsGoing
    <3>2. CASE mined[o[1]] <= synced
      <4>1. mined[s] # 0
        BY <2>2, ShieldParts
      <4>2. s \in made /\ mined[o[1]] \in 1 .. mined[s]
        BY <2>2, <4>1, ShieldParts DEF IsChain
      <4>3. mined[o[1]] \in 1 .. synced
        BY <3>2, <4>2, ShieldParts
      <4>4. IsNoted(m, mined, o)
        BY <4>3, ShieldParts DEF IsSettled
      <4>5. o \in NotesForUpdating(m, synced) \/ IsSpentBy(m, mined, o, s)
        BY <2>2, <4>2, <4>3, <4>4, ShieldParts, ForUpdating
      <4> QED BY <1>4, <1>6, <4>5 DEF IsSought
    <3>3. CASE ~(mined[o[1]] <= synced)
      BY <1>6, <3>1, <3>3 DEF IsSought
    <3> QED BY <3>2, <3>3
  <2> QED BY <2>1, <2>2
<1>9. IsSound(m, mined, made) /\ IsSettled(m, mined, synced)
  BY ShieldParts
<1> QED BY <1>2, <1>3, <1>7, <1>8, <1>9, SameShield DEF b

\* A step that leaves the records alone, after which the batch has to find what
\* it had to find, or has failed.
LEMMA SameWork ==
  ASSUME ShieldInv, LedgerInv', made' = made, mined' = mined, m' = m, synced' = synced, file' = file,
         NEW b, batch' = b, b.target = batch.target, b.notes \subseteq batch.notes,
         b.writes \subseteq batch.writes,
         \/ b.failed
         \/ /\ b.failed = batch.failed /\ b.notes = batch.notes /\ b.updates = batch.updates
            /\ "list" \in batch.tasks => "list" \in b.tasks
  PROVE  ShieldInv'
<1>1. IsWork(mined, synced, b)
  BY ShieldParts DEF IsWork
<1>2. IsGoing(m, mined, synced, b)
  <2>1. CASE b.failed
    BY <2>1 DEF IsGoing
  <2>2. CASE ~b.failed
    BY <2>2, ShieldParts, GoingMore
  <2> QED BY <2>1, <2>2
<1>3. IsSound(m, mined, made) /\ IsSettled(m, mined, synced)
  BY ShieldParts
<1> QED BY <1>1, <1>2, <1>3, SameShield

\* targetted_rescan
LEMMA RescanShield == ShieldInv /\ Rescan => ShieldInv'
<1> SUFFICES ASSUME ShieldInv, Rescan PROVE ShieldInv'
  OBVIOUS
<1> DEFINE tasks == batch.tasks \ {"rescan"}
           scans == batch.scans \cup {[tx |-> t, for |-> <<t, 0>>] : t \in Unindexed(m, synced)}
           b == batch'
<1>1. batch' = [batch EXCEPT !.tasks = tasks, !.scans = scans]
  BY DEF Rescan
<1>2. made' = made /\ mined' = mined /\ m' = m /\ synced' = synced /\ file' = file
  BY DEF Rescan, chain
<1>3. LedgerInv'
  BY RescanInv DEF ShieldInv
<1>4. "list" \in batch.tasks => "list" \in tasks
  OBVIOUS
<1>5. IsBatch(batch)
  BY ShieldParts DEF BatchOK
<1> HIDE DEF tasks, scans
<1>6. /\ b.target = batch.target /\ b.updates = batch.updates /\ b.notes = batch.notes
      /\ b.writes = batch.writes /\ b.failed = batch.failed /\ b.tasks = tasks
  BY <1>1, <1>5 DEF IsBatch
<1>7. batch' = b
  OBVIOUS
<1> HIDE DEF b
<1> QED BY <1>2, <1>3, <1>4, <1>6, <1>7, SameWork

\* The stream of the address is lost.
LEMMA TaddrCutShield == ShieldInv /\ TaddrCut => ShieldInv'
<1> SUFFICES ASSUME ShieldInv, TaddrCut PROVE ShieldInv'
  OBVIOUS
<1> DEFINE none == << >>
           b == batch'
<1>1. batch' = [batch EXCEPT !.queue = none]
  BY DEF TaddrCut
<1>2. made' = made /\ mined' = mined /\ m' = m /\ synced' = synced /\ file' = file
  BY DEF TaddrCut, chain
<1>3. LedgerInv'
  BY TaddrCutInv DEF ShieldInv
<1>4. IsBatch(batch)
  BY ShieldParts DEF BatchOK
<1> HIDE DEF none
<1>5. /\ b.target = batch.target /\ b.updates = batch.updates /\ b.notes = batch.notes
      /\ b.writes = batch.writes /\ b.failed = batch.failed /\ b.tasks = batch.tasks
  BY <1>1, <1>4 DEF IsBatch
<1>6. batch' = b
  OBVIOUS
<1> HIDE DEF b
<1> QED BY <1>2, <1>3, <1>5, <1>6, SameWork

\* A worker fails.
LEMMA WorkerFailsShield == ShieldInv /\ WorkerFails => ShieldInv'
<1> SUFFICES ASSUME ShieldInv, WorkerFails PROVE ShieldInv'
  OBVIOUS
<1> DEFINE b == batch'
<1>1. made' = made /\ mined' = mined /\ m' = m /\ synced' = synced /\ file' = file
  BY DEF WorkerFails, chain
<1>2. LedgerInv'
  BY WorkerFailsInv DEF ShieldInv
<1>3. IsBatch(batch)
  BY ShieldParts DEF BatchOK
<1>4. \/ \E o \in batch.notes : batch' = [batch EXCEPT !.notes = batch.notes \ {o}, !.failed = TRUE]
      \/ \E j \in batch.scans : batch' = [batch EXCEPT !.scans = batch.scans \ {j}, !.failed = TRUE]
  BY DEF WorkerFails
<1>5. b.target = batch.target /\ b.notes \subseteq batch.notes /\ b.writes = batch.writes /\ b.failed
  <2>1. CASE \E o \in batch.notes : batch' = [batch EXCEPT !.notes = batch.notes \ {o}, !.failed = TRUE]
    BY <1>3, <2>1 DEF IsBatch
  <2>2. CASE \E j \in batch.scans : batch' = [batch EXCEPT !.scans = batch.scans \ {j}, !.failed = TRUE]
    BY <1>3, <2>2 DEF IsBatch
  <2> QED BY <1>4, <2>1, <2>2
<1>6. batch' = b
  OBVIOUS
<1> HIDE DEF b
<1> QED BY <1>1, <1>2, <1>5, <1>6, SameWork

\* Trial decryption finds a note.
LEMMA DetectShield == ShieldInv /\ (\E o \in batch.notes : DetectNote(o)) => ShieldInv'
<1> SUFFICES ASSUME ShieldInv, NEW o \in batch.notes, DetectNote(o) PROVE ShieldInv'
  OBVIOUS
<1> DEFINE notes == batch.notes \ {o}
           u == [out |-> o, index |-> TRUE, fetch |-> TRUE]
           updates == batch.updates \cup {u}
           t == o[1]
           st == S!Confirmed(mined[t])
           w == m'
           b == batch'
           un == S!Unspent
<1>1. batch' = [batch EXCEPT !.notes = notes, !.updates = updates] /\ w = AddNewNote(m, t, st, o[2])
  BY DEF DetectNote
<1>2. made' = made /\ mined' = mined /\ synced' = synced /\ file' = file
  BY DEF DetectNote, chain
<1>3. LedgerInv'
  BY DetectInv DEF ShieldInv
<1>4. o \in OutIds /\ t \in Mined /\ o[2] \in NotesTo(t)
  BY ShieldParts DEF BatchOK, NotesIn
<1>5. t \in Txs /\ t \in made /\ mined[t] \in Nat \ {0} /\ MapOK(Mined, m) /\ IsSeen(Mined, t, st)
  BY <1>4, ShieldParts, MinedSeen
<1>6. IsNews(t, st, mined, made) /\ S!IsConfirmed(st)
  BY <1>5 DEF IsNews, S!Confirmed, S!IsConfirmed
<1>7. o = <<t, o[2]>> /\ o \in OwnNotes
  <2>1. PICK x \in Txs : o \in {x} \X DOMAIN Outs[x]
    BY <1>4 DEF OutIds
  <2>2. o = <<t, o[2]>>
    BY <2>1
  <2>3. o \in {t} \X NotesTo(t)
    BY <1>4, <2>2
  <2> QED BY <1>5, <2>2, <2>3 DEF OwnNotes
<1>8. IsBatch(batch)
  BY ShieldParts DEF BatchOK
<1>9. u.out = o
  OBVIOUS
<1> HIDE DEF u
<1>10. \A x \in OutIds : x # o /\ x \in batch.notes => x \in notes
  OBVIOUS
<1>11. (\A x \in batch.updates : x \in updates) /\ u \in updates /\ notes \subseteq batch.notes
  OBVIOUS
<1> HIDE DEF notes, updates
<1>12. /\ b.target = batch.target /\ b.updates = updates /\ b.notes = notes /\ b.writes = batch.writes
       /\ b.failed = batch.failed /\ b.tasks = batch.tasks
  BY <1>1, <1>8 DEF IsBatch
<1> HIDE DEF b, w, st
<1>13. /\ Writes(m, w, t, st, {}, {<<t, o[2]>>}, S!Unspent)
       /\ HasNullifier(w, <<t, o[2]>>) /\ w[t].status = st
  BY <1>1, <1>4, <1>5, <1>6, AddNewNoteWrites
<1>14. Writes(m, w, t, st, {}, {o}, un) /\ HasNullifier(w, o)
  BY <1>7, <1>13
<1>15. mined[t] \in (synced + 1) .. batch.target
  BY ShieldParts DEF IsWork
<1>16. IsTrueMark(mined, synced, {o}, un)
  BY <1>15, ShieldParts DEF IsTrueMark
<1>17. IsMark(w, mined, t, {o}, un) /\ {} \subseteq Ins[t]
  BY DEF IsMark
<1> HIDE DEF un
<1>18. S!IsConfirmed(w[t].status)
  BY <1>6, <1>13
<1>19. IsSound(w, mined, made)
  <2> DEFINE os == {o}
             ls == {}
  <2>1. Writes(m, w, t, st, ls, os, un) /\ ls \subseteq Ins[t] /\ IsMark(w, mined, t, os, un)
    BY <1>14, <1>17
  <2> HIDE DEF os, ls
  <2> QED BY <1>5, <1>6, <1>18, <2>1, ShieldParts, SoundKept
<1>20. IsSettled(w, mined, synced)
  <2> DEFINE os == {o}
             ls == {}
  <2>1. Writes(m, w, t, st, ls, os, un) /\ IsTrueMark(mined, synced, os, un)
    BY <1>14, <1>16
  <2> HIDE DEF os, ls
  <2> QED BY <1>6, <2>1, ShieldParts, SettledKept
<1>21. IsGoing(w, mined, synced, b)
  <2> SUFFICES ASSUME ~batch.failed, NEW x \in OwnNotes
               PROVE  /\ mined[x[1]] \in (synced + 1) .. batch.target => x \in b.notes \/ IsNoted(w, mined, x)
                      /\ \A s \in Txs : x \in Ins[s] /\ mined[s] \in (synced + 1) .. batch.target
                                          => IsSought(w, mined, synced, b, x, s)
    BY <1>12 DEF IsGoing
  <2>1. IsGoing(m, mined, synced, batch)
    BY ShieldParts
  <2>2. CASE x = o
    <3>1. IsNoted(w, mined, o)
      BY <1>13, <1>14 DEF IsNoted, st
    <3>2. \E y \in b.updates : y.out = o
      BY <1>9, <1>11, <1>12
    <3> QED BY <2>2, <3>1, <3>2 DEF IsSought
  <2>3. CASE x # o
    <3> DEFINE os == {o}
               ls == {}
    <3>1. Writes(m, w, t, st, ls, os, un) /\ x \notin os
      BY <1>14, <2>3
    <3> HIDE DEF os, ls
    <3>2. IsNoted(m, mined, x) => IsNoted(w, mined, x)
      BY <1>6, <3>1, NotedKept
    <3>3. \A s : IsSpentBy(m, mined, x, s) => IsSpentBy(w, mined, x, s)
      BY <3>1, SpentKept
    <3>4. x \in batch.notes => x \in b.notes
      <4>1. x \in batch.notes => x \in OutIds
        BY ShieldParts DEF BatchOK, NotesIn
      <4> QED BY <1>10, <1>12, <2>3, <4>1
    <3>5. mined[x[1]] \in (synced + 1) .. batch.target => x \in b.notes \/ IsNoted(w, mined, x)
      BY <2>1, <3>2, <3>4 DEF IsGoing
    <3>6. ASSUME NEW s \in Txs, x \in Ins[s], mined[s] \in (synced + 1) .. batch.target
          PROVE  IsSought(w, mined, synced, b, x, s)
      <4>1. IsSought(m, mined, synced, batch, x, s)
        BY <2>1, <3>6 DEF IsGoing
      <4> QED BY <1>11, <1>12, <3>3, <3>4, <4>1 DEF IsSought
    <3> QED BY <3>5, <3>6
  <2> QED BY <2>2, <2>3
<1>22. IsWork(mined, synced, b)
  BY <1>11, <1>12, ShieldParts DEF IsWork
<1> QED BY <1>2, <1>3, <1>19, <1>20, <1>21, <1>22, SameShield DEF w, b

\* A spend that is found is marked in the note, and the spender lists it.
LEMMA FoundIsSpent ==
  ASSUME NEW q, NEW w, NEW t, NEW st, NEW ls, NEW os, NEW sp, Writes(q, w, t, st, ls, os, sp),
         NEW mi, NEW o \in OwnNotes, o \in os, HasNullifier(q, o), NEW s,
         sp = [by |-> s, status |-> S!Confirmed(mi[s])]
  PROVE  IsSpentBy(w, mi, o, s)
<1> DEFINE u == o[1]
           n == o[2]
<1>1. u \in Txs /\ o = <<u, n>>
  BY OwnNoteIs
<1>2. n \in DOMAIN q[u].notes /\ q[u].notes[n].nf
  BY DEF HasNullifier, HasNote
<1>3. Wrote(u, q[u], w[u], t, st, ls, os, sp)
  BY <1>1 DEF Writes
<1>4. n \in DOMAIN w[u].notes /\ w[u].notes[n].nf
  BY <1>2, <1>3 DEF Wrote
<1>5. NoteWrote(u, n, q[u], w[u], os, sp)
  BY <1>3, <1>4 DEF Wrote
<1>6. w[u].notes[n].spend = sp
  BY <1>1, <1>5 DEF NoteWrote
<1> QED BY <1>4, <1>6 DEF IsSpentBy, HasNullifier, HasNote

\* update_notes looks for the spend of a note.
LEMMA UpdateShield == ShieldInv /\ (\E u \in batch.updates : UpdateNote(u)) => ShieldInv'
<1> SUFFICES ASSUME ShieldInv, NEW u \in batch.updates, UpdateNote(u) PROVE ShieldInv'
  OBVIOUS
<1> DEFINE o == u.out
           by == Spenders(o)
           same == HasNullifier(m, o) /\ m[o[1]].notes[o[2]].index = u.index
           fetched == IF u.fetch THEN {o[1]} ELSE {}
           more == {[tx |-> t, for |-> o] : t \in by \cup fetched}
           updates == batch.updates \ {u}
           a == [batch EXCEPT !.updates = updates]
           scans == a.scans \cup more
           yes == TRUE
           t1 == CHOOSE s \in by : TRUE
           st == S!Confirmed(mined[t1])
           os == {o}
           b == batch'
           w == m'
<1>1. \/ batch' = [a EXCEPT !.failed = yes] /\ m' = m
      \/ /\ batch' = [a EXCEPT !.scans = scans] /\ (by # {} => HasNullifier(m, o))
         /\ m' = IF by = {} THEN m ELSE FoundSpent(m, t1, st, os)
  BY DEF UpdateNote
<1>2. made' = made /\ mined' = mined /\ synced' = synced /\ file' = file
  BY DEF UpdateNote, chain
<1>3. LedgerInv'
  BY UpdateInv DEF ShieldInv
<1>4. IsBatch(batch)
  BY ShieldParts DEF BatchOK
<1>5. o \in OutIds
  BY ShieldParts DEF BatchOK, UpdatesIn
<1>6. (\A x \in batch.updates : x.out # o => x \in updates) /\ yes
  OBVIOUS
<1> HIDE DEF updates
<1>7. IsBatch(a) /\ a.target = batch.target /\ a.notes = batch.notes /\ a.writes = batch.writes
      /\ a.failed = batch.failed /\ a.tasks = batch.tasks /\ a.updates = updates
  BY <1>4 DEF IsBatch
<1> HIDE DEF a, scans, yes
<1>8. CASE batch' = [a EXCEPT !.failed = yes] /\ m' = m
  <2>1. /\ b.target = batch.target /\ b.notes = batch.notes /\ b.writes = batch.writes /\ b.failed
    BY <1>6, <1>7, <1>8 DEF IsBatch
  <2>2. batch' = b
    OBVIOUS
  <2> HIDE DEF b
  <2> QED BY <1>2, <1>3, <1>8, <2>1, <2>2, SameWork
<1>9. CASE /\ batch' = [a EXCEPT !.scans = scans] /\ (by # {} => HasNullifier(m, o))
           /\ m' = IF by = {} THEN m ELSE FoundSpent(m, t1, st, os)
  <2>1. /\ b.target = batch.target /\ b.notes = batch.notes /\ b.writes = batch.writes
        /\ b.failed = batch.failed /\ b.tasks = batch.tasks /\ b.updates = updates
    BY <1>7, <1>9 DEF IsBatch
  <2>2. IsWork(mined, synced, b)
    BY <2>1, ShieldParts DEF IsWork
  <2>3. \A s \in Txs : s \in by <=> o \in Ins[s] /\ mined[s] \in (synced + 1) .. batch.target
    BY ShieldParts DEF Spenders, InBatch, Mined
  <2>4. ASSUME NEW q, IsGoing(q, mined, synced, batch), \A s \in by : o \in OwnNotes => IsSpentBy(q, mined, o, s)
        PROVE  IsGoing(q, mined, synced, b)
    <3> HIDE DEF by, o, b
    <3> SUFFICES ASSUME ~batch.failed, NEW x \in OwnNotes
                 PROVE  /\ mined[x[1]] \in (synced + 1) .. batch.target => x \in b.notes \/ IsNoted(q, mined, x)
                        /\ \A s \in Txs : x \in Ins[s] /\ mined[s] \in (synced + 1) .. batch.target
                                            => IsSought(q, mined, synced, b, x, s)
      BY <2>1 DEF IsGoing
    <3>1. mined[x[1]] \in (synced + 1) .. batch.target => x \in b.notes \/ IsNoted(q, mined, x)
      BY <2>1, <2>4 DEF IsGoing
    <3>2. ASSUME NEW s \in Txs, x \in Ins[s], mined[s] \in (synced + 1) .. batch.target
          PROVE  IsSought(q, mined, synced, b, x, s)
      <4>1. IsSought(q, mined, synced, batch, x, s)
        BY <2>4, <3>2 DEF IsGoing
      <4>2. CASE x = o
        <5>1. s \in by
          BY <2>3, <3>2, <4>2
        <5> QED BY <2>4, <4>2, <5>1 DEF IsSought
      <4>3. CASE x # o
        BY <1>6, <2>1, <4>1, <4>3 DEF IsSought, o
      <4> QED BY <4>2, <4>3
    <3> QED BY <3>1, <3>2
  <2>5. CASE by = {}
    <3>1. IsGoing(m, mined, synced, b)
      BY <2>4, <2>5, ShieldParts
    <3>2. m' = m /\ IsSound(m, mined, made) /\ IsSettled(m, mined, synced)
      BY <1>9, <2>5, ShieldParts
    <3> QED BY <1>2, <1>3, <2>2, <3>1, <3>2, SameShield
  <2>6. CASE by # {}
    <3> DEFINE sp == [by |-> t1, status |-> st]
    <3>1. t1 \in by /\ w = FoundSpent(m, t1, st, os) /\ HasNullifier(m, o)
      BY <1>9, <2>6
    <3>2. t1 \in Mined /\ o \in Ins[t1]
      BY <3>1 DEF Spenders, InBatch
    <3>3. t1 \in Txs /\ t1 \in made /\ mined[t1] \in Nat \ {0} /\ IsSeen(Mined, t1, st) /\ MapOK(Mined, m)
      BY <3>2, ShieldParts, MinedSeen
    <3>4. st = S!Confirmed(mined[t1])
      OBVIOUS
    <3> HIDE DEF t1, w, by, st
    <3>5. IsNews(t1, st, mined, made) /\ S!IsConfirmed(st) /\ st.kind # "Absent"
      BY <3>3, <3>4 DEF IsNews, S!Confirmed, S!IsConfirmed
    <3>6. os \in SUBSET OutIds /\ os # {} /\ os \subseteq Ins[t1]
      BY <1>5, <3>2
    <3>7. \A s \in made : o \in Ins[s] => s = t1
      BY <3>2, <3>3, ShieldParts, OneSpender
    <3>8. o \in os /\ \A x \in os : x = o
      OBVIOUS
    <3> HIDE DEF os, o
    <3>9. /\ Writes(m, w, t1, st, os, os, sp) /\ w[t1].listed = m[t1].listed \cup os
          /\ w[t1].status = Raised(m[t1], st)
      BY <3>1, <3>3, <3>6, FoundSpentWrites
    <3>10. S!IsConfirmed(w[t1].status)
      BY <3>5, <3>9, RaisedIs
    <3>11. sp.by = t1 /\ sp.status = st
      OBVIOUS
    <3>12. sp = [by |-> t1, status |-> S!Confirmed(mined[t1])]
      BY <3>4
    <3> HIDE DEF sp
    <3>13. IsMark(w, mined, t1, os, sp)
      BY <3>4, <3>9, <3>10, <3>11 DEF IsMark, SpenderLists
    <3>14. IsTrueMark(mined, tip, os, sp)
      <4> SUFFICES ASSUME NEW s \in Txs, o \in Ins[s], mined[s] \in 1 .. tip
                   PROVE  sp = [by |-> s, status |-> S!Confirmed(mined[s])]
        BY <3>8 DEF IsTrueMark
      <4>1. s \in made
        BY ShieldParts DEF IsChain
      <4>2. s = t1
        BY <3>7, <4>1
      <4> QED BY <3>12, <4>2
    <3>15. IsSound(w, mined, made) /\ IsSettled(w, mined, synced) /\ IsGoing(w, mined, synced, batch)
      BY <3>3, <3>5, <3>6, <3>9, <3>10, <3>13, <3>14, WriteStep
    <3>16. ASSUME NEW s \in by, o \in OwnNotes PROVE IsSpentBy(w, mined, o, s)
      <4>1. s \in made /\ o \in Ins[s]
        BY ShieldParts DEF by, Spenders, InBatch
      <4>2. s = t1
        BY <3>7, <4>1
      <4>3. IsSpentBy(w, mined, o, t1)
        BY <3>1, <3>8, <3>9, <3>12, <3>16, FoundIsSpent
      <4> QED BY <4>2, <4>3
    <3>17. IsGoing(w, mined, synced, b)
      BY <2>4, <3>15, <3>16
    <3> QED BY <1>2, <1>3, <2>2, <3>15, <3>17, SameShield DEF w
  <2> QED BY <2>5, <2>6
<1> QED BY <1>1, <1>8, <1>9

\* add_outgoing_metadata writes outgoing data only.
LEMMA WriteOutgoingIs ==
  ASSUME NEW T, NEW q, MapOK(T, q), NEW t \in Txs, NEW out, DOMAIN out # {}, NEW w, w = WriteOutgoing(q, t, out)
  PROVE  /\ \A u \in Txs : u # t => w[u] = q[u]
         /\ OnlyOutgoing(q[t], w[t])
         /\ DOMAIN q[t].outgoing # {} => DOMAIN w[t].outgoing # {}
         /\ q[t].status.kind # "Absent" => DOMAIN w[t].outgoing = DOMAIN out
<1> DEFINE uas == {Outs[t][n].ua : n \in {k \in ToOthers(t) : \E j \in NotesTo(t) : Outs[t][j].memo = "zingo"}}
           f == [n \in DOMAIN out |-> IF Outs[t][n].ua \in uas \ {"none"} THEN Outs[t][n].ua ELSE out[n]]
           x == [q EXCEPT ![t].outgoing = f]
<1>1. w = IF t \notin S!Known(q) THEN q ELSE x
  BY DEF WriteOutgoing
<1>2. DOMAIN f = DOMAIN out
  OBVIOUS
<1> HIDE DEF uas, f
<1>3. x[t] = [q[t] EXCEPT !.outgoing = f] /\ \A u \in Txs : u # t => x[u] = q[u]
  BY DEF MapOK
<1>4. IsShaped(q[t])
  BY DEF MapOK, RecOK
<1>5. OnlyOutgoing(q[t], x[t]) /\ x[t].outgoing = f
  BY <1>3, <1>4 DEF IsShaped, OnlyOutgoing
<1> HIDE DEF x
<1>6. CASE t \in S!Known(q)
  BY <1>1, <1>2, <1>3, <1>5, <1>6
<1>7. CASE t \notin S!Known(q)
  <2>1. w = q /\ q[t].status.kind = "Absent"
    BY <1>1, <1>7 DEF S!Known
  <2> QED BY <2>1 DEF OnlyOutgoing
<1> QED BY <1>6, <1>7

\* Outgoing data are written after something else.
LEMMA OutgoingJoins ==
  ASSUME NEW q, NEW f, NEW w, NEW t, NEW st, NEW ls, NEW os, NEW sp, Writes(q, f, t, st, ls, os, sp),
         \A u \in Txs : u # t => w[u] = f[u], t \in Txs, OnlyOutgoing(f[t], w[t]),
         DOMAIN f[t].outgoing # {} => DOMAIN w[t].outgoing # {}
  PROVE  Writes(q, w, t, st, ls, os, sp)
<1> SUFFICES ASSUME NEW u \in Txs PROVE Wrote(u, q[u], w[u], t, st, ls, os, sp)
  BY DEF Writes
<1>1. Wrote(u, q[u], f[u], t, st, ls, os, sp)
  BY DEF Writes
<1>2. CASE u # t
  <2>1. w[u] = f[u]
    BY <1>2
  <2> QED BY <1>1, <2>1
<1>3. CASE u = t
  <2> DEFINE r == q[u]
             x == f[u]
             v == w[u]
  <2>1. Wrote(u, r, x, t, st, ls, os, sp) /\ OnlyOutgoing(x, v) /\ (DOMAIN x.outgoing # {} => DOMAIN v.outgoing # {})
    BY <1>1, <1>3
  <2> HIDE DEF r, x, v
  <2>2. /\ StatusWrote(u, r, v, t, st)
        /\ v.listed = r.listed \/ (u = t /\ v.listed = r.listed \cup ls /\ v.status.kind # "Absent")
        /\ v.status.kind = "Absent" => DOMAIN v.notes \subseteq DOMAIN r.notes
        /\ DOMAIN r.coins \subseteq DOMAIN v.coins
        /\ DOMAIN r.outgoing # {} => DOMAIN v.outgoing # {}
        /\ S!IsConfirmed(v.status) \/ DOMAIN r.notes \subseteq DOMAIN v.notes
    BY <2>1 DEF Wrote, StatusWrote, OnlyOutgoing
  <2>3. \A n \in DOMAIN r.notes : r.notes[n].nf => n \in DOMAIN v.notes /\ v.notes[n].nf
    BY <2>1 DEF Wrote, OnlyOutgoing
  <2>4. \A n \in DOMAIN v.notes : NoteWrote(u, n, r, v, os, sp)
    BY <2>1 DEF Wrote, NoteWrote, OnlyOutgoing
  <2>5. Wrote(u, r, v, t, st, ls, os, sp)
    BY <2>2, <2>3, <2>4 DEF Wrote
  <2> QED BY <2>5 DEF r, v
<1> QED BY <1>2, <1>3

\* A record that is left alone.
LEMMA WritesNothing ==
  ASSUME NEW q, NEW t, NEW st, NEW sp
  PROVE  Writes(q, q, t, st, {}, {}, sp)
<1> SUFFICES ASSUME NEW u \in Txs PROVE Wrote(u, q[u], q[u], t, st, {}, {}, sp)
  BY DEF Writes
<1> DEFINE r == q[u]
           ls == {}
<1>1. StatusWrote(u, r, r, t, st) /\ r.listed = r.listed
  BY DEF StatusWrote
<1> HIDE DEF r, ls
<1>2. Wrote(u, r, r, t, st, ls, {}, sp)
  BY <1>1, WroteStatus
<1> QED BY <1>2 DEF r, ls

\* A step that writes no spend.
LEMMA PlainStep ==
  ASSUME ShieldInv, NEW w, NEW t \in Txs, NEW st, Writes(m, w, t, st, {}, {}, S!Unspent),
         IsNews(t, st, mined, made)
  PROVE  IsSound(w, mined, made) /\ IsSettled(w, mined, synced) /\ IsGoing(w, mined, synced, batch)
<1> DEFINE none == {}
           un == S!Unspent
<1>1. none \subseteq Ins[t] /\ IsMark(w, mined, t, none, un) /\ IsTrueMark(mined, tip, none, un)
  BY DEF IsMark, IsTrueMark
<1>2. w[t].listed = m[t].listed
  BY DEF Writes, Wrote
<1>3. Writes(m, w, t, st, none, none, un)
  OBVIOUS
<1> HIDE DEF none, un
<1> QED BY <1>1, <1>2, <1>3, WriteStep

\* A full transaction is scanned up to its outgoing data.
LEMMA ScannedShield ==
  ASSUME ShieldInv, NEW j, j.tx \in Mined, NEW rest, Scanned(j, rest), IsBatch(rest),
         rest.target = batch.target, rest.notes = batch.notes, rest.updates = batch.updates,
         rest.tasks = batch.tasks, rest.failed = batch.failed, rest.writes = batch.writes
  PROVE  /\ IsSound(m', mined, made) /\ IsSettled(m', mined, synced)
         /\ IsGoing(m', mined, synced, batch') /\ IsWork(mined, synced, batch')
<1> DEFINE t == j.tx
           st == S!Confirmed(mined[t])
           q == ScanRecord(m, t, st)
           p == ScanReceipts(ScanTransparent(m, t, st), t, st)
           out == Outgoing(q, t)
           x == [tx |-> t, for |-> j.for, out |-> out]
           writes == IF out = << >> THEN rest.writes ELSE rest.writes \cup {x}
           b == batch'
           w == m'
<1>1. w = q /\ batch' = [rest EXCEPT !.writes = writes]
  BY DEF Scanned
<1>2. S!IsConfirmed(st)
  BY DEF S!IsConfirmed, S!Confirmed
<1>3. q = p
  BY <1>2 DEF ScanRecord
<1>4. t \in Txs /\ t \in made /\ mined[t] \in Nat \ {0} /\ MapOK(Mined, m) /\ IsSeen(Mined, t, st)
  BY ShieldParts, MinedSeen
<1>5. IsNews(t, st, mined, made)
  BY <1>4 DEF IsNews, S!Confirmed
<1>6. x.out = out /\ (out # << >> => DOMAIN out # {})
  <2>1. out = [n \in DOMAIN out |-> out[n]]
    BY DEF Outgoing
  <2> HIDE DEF out
  <2>2. DOMAIN out = {} => out = [n \in {} |-> n]
    BY <2>1
  <2>3. << >> = [n \in {} |-> n]
    OBVIOUS
  <2> QED BY <2>2, <2>3
<1> HIDE DEF p, out, st, t, w
<1>7. Writes(m, p, t, st, {}, {}, S!Unspent)
  BY <1>4, ScanWrites DEF p
<1>8. Writes(m, w, t, st, {}, {}, S!Unspent)
  BY <1>1, <1>3, <1>7
<1>9. IsSound(w, mined, made) /\ IsSettled(w, mined, synced) /\ IsGoing(w, mined, synced, batch)
  BY <1>4, <1>5, <1>8, PlainStep
<1> HIDE DEF x
<1>10. \A y \in writes : y \in batch.writes \/ DOMAIN y.out # {}
  BY <1>6
<1> HIDE DEF writes
<1>11. /\ b.target = batch.target /\ b.notes = batch.notes /\ b.updates = batch.updates
       /\ b.tasks = batch.tasks /\ b.failed = batch.failed /\ b.writes = writes
  BY <1>1 DEF IsBatch
<1> HIDE DEF b
<1>12. IsGoing(w, mined, synced, b)
  BY <1>9, <1>11, GoingMore
<1>13. IsWork(mined, synced, b)
  BY <1>10, <1>11, ShieldParts DEF IsWork
<1> QED BY <1>9, <1>12, <1>13 DEF w, b

\* A worker scans a full transaction.
LEMMA ScanFullShield == ShieldInv /\ (\E j \in batch.scans : ScanFull(j)) => ShieldInv'
<1> SUFFICES ASSUME ShieldInv, NEW j \in batch.scans, ScanFull(j) PROVE ShieldInv'
  OBVIOUS
<1> DEFINE scans == batch.scans \ {j}
           rest == [batch EXCEPT !.scans = scans]
<1>1. Scanned(j, rest)
  BY DEF ScanFull
<1>2. made' = made /\ mined' = mined /\ synced' = synced /\ file' = file
  BY DEF ScanFull, chain
<1>3. LedgerInv'
  BY ScanFullInv DEF ShieldInv
<1>4. j.tx \in Mined /\ IsBatch(batch)
  BY ShieldParts DEF BatchOK, ScansIn
<1> HIDE DEF scans
<1>5. /\ IsBatch(rest) /\ rest.target = batch.target /\ rest.notes = batch.notes /\ rest.updates = batch.updates
      /\ rest.tasks = batch.tasks /\ rest.failed = batch.failed /\ rest.writes = batch.writes
  BY <1>4 DEF IsBatch
<1> HIDE DEF rest
<1>6. /\ IsSound(m', mined, made) /\ IsSettled(m', mined, synced)
      /\ IsGoing(m', mined, synced, batch') /\ IsWork(mined, synced, batch')
  BY <1>1, <1>4, <1>5, ScannedShield
<1> QED BY <1>2, <1>3, <1>6, SameShield

\* The next transaction of the address is scanned.
LEMMA ScanTaddrShield == ShieldInv /\ ScanTaddr => ShieldInv'
<1> SUFFICES ASSUME ShieldInv, ScanTaddr PROVE ShieldInv'
  OBVIOUS
<1> DEFINE j == [tx |-> Head(batch.queue), for |-> <<Head(batch.queue), 0>>]
           queue == Tail(batch.queue)
           rest == [batch EXCEPT !.queue = queue]
<1>1. Scanned(j, rest) /\ batch.queue # << >>
  BY DEF ScanTaddr
<1>2. made' = made /\ mined' = mined /\ synced' = synced /\ file' = file
  BY DEF ScanTaddr, chain
<1>3. LedgerInv'
  BY ScanTaddrInv DEF ShieldInv
<1>4. batch.queue \in Seq(Txs) /\ AllIn(batch.queue, Mined) /\ IsBatch(batch)
  BY ShieldParts DEF BatchOK, QueueIn
<1>5. Head(batch.queue) \in Mined
  BY <1>1, <1>4, HeadAllIn
<1>6. j.tx \in Mined
  BY <1>5
<1> HIDE DEF j, queue
<1>7. /\ IsBatch(rest) /\ rest.target = batch.target /\ rest.notes = batch.notes /\ rest.updates = batch.updates
      /\ rest.tasks = batch.tasks /\ rest.failed = batch.failed /\ rest.writes = batch.writes
  BY <1>4 DEF IsBatch
<1> HIDE DEF rest
<1>8. /\ IsSound(m', mined, made) /\ IsSettled(m', mined, synced)
      /\ IsGoing(m', mined, synced, batch') /\ IsWork(mined, synced, batch')
  BY <1>1, <1>6, <1>7, ScannedShield
<1> QED BY <1>2, <1>3, <1>8, SameShield

\* The outgoing data of a scan are written.
LEMMA WriteOutShield == ShieldInv /\ (\E w \in batch.writes : WriteOut(w)) => ShieldInv'
<1> SUFFICES ASSUME ShieldInv, NEW x \in batch.writes, WriteOut(x) PROVE ShieldInv'
  OBVIOUS
<1> DEFINE writes == batch.writes \ {x}
           w == m'
           b == batch'
           t == x.tx
           st == S!Confirmed(mined[t])
           un == S!Unspent
<1>1. w = WriteOutgoing(m, t, x.out) /\ batch' = [batch EXCEPT !.writes = writes]
  BY DEF WriteOut
<1>2. made' = made /\ mined' = mined /\ synced' = synced /\ file' = file
  BY DEF WriteOut, chain
<1>3. LedgerInv'
  BY WriteOutInv DEF ShieldInv
<1>4. t \in Mined /\ DOMAIN x.out # {} /\ IsBatch(batch)
  BY ShieldParts DEF BatchOK, WritesIn, IsWork
<1>5. t \in Txs /\ t \in made /\ mined[t] \in Nat \ {0} /\ MapOK(Mined, m)
  BY <1>4, ShieldParts
<1>6. IsNews(t, st, mined, made)
  BY <1>5 DEF IsNews, S!Confirmed
<1>7. \A y \in writes : y \in batch.writes
  OBVIOUS
<1> HIDE DEF writes, w, t, st
<1>8. /\ b.target = batch.target /\ b.notes = batch.notes /\ b.updates = batch.updates
      /\ b.tasks = batch.tasks /\ b.failed = batch.failed /\ b.writes = writes
  BY <1>1, <1>4 DEF IsBatch
<1> HIDE DEF b
<1>9. /\ \A u \in Txs : u # t => w[u] = m[u]
      /\ OnlyOutgoing(m[t], w[t]) /\ (DOMAIN m[t].outgoing # {} => DOMAIN w[t].outgoing # {})
  BY <1>1, <1>4, <1>5, WriteOutgoingIs
<1>10. Writes(m, w, t, st, {}, {}, S!Unspent)
  <2> DEFINE none == {}
  <2>1. Writes(m, m, t, st, none, none, un)
    BY WritesNothing
  <2> HIDE DEF none, un
  <2>2. Writes(m, w, t, st, none, none, un)
    BY <1>5, <1>9, <2>1, OutgoingJoins
  <2> QED BY <2>2 DEF none, un
<1>11. IsSound(w, mined, made) /\ IsSettled(w, mined, synced) /\ IsGoing(w, mined, synced, batch)
  BY <1>5, <1>6, <1>10, PlainStep
<1>12. IsGoing(w, mined, synced, b)
  BY <1>8, <1>11, GoingMore
<1>13. IsWork(mined, synced, b)
  BY <1>7, <1>8, ShieldParts DEF IsWork
<1> QED BY <1>2, <1>3, <1>11, <1>12, <1>13, SameShield DEF w, b

\* The records of what was found up to h stay, if only others go.
LEMMA SettledDrops ==
  ASSUME NEW q, NEW w, NEW gone, Drops(q, w, gone), NEW mi, NEW T, NEW h \in Nat, NEW g \in Nat, g <= h,
         IsSound(q, mi, T), IsSettled(q, mi, h),
         \A t \in Txs : S!IsConfirmed(q[t].status) /\ mi[t] \in 1 .. g => t \notin gone
  PROVE  IsSettled(w, mi, g)
<1> SUFFICES ASSUME NEW o \in OwnNotes, mi[o[1]] \in 1 .. g
             PROVE  /\ IsNoted(w, mi, o)
                    /\ \A s \in Txs : o \in Ins[s] /\ mi[s] \in 1 .. g => IsSpentBy(w, mi, o, s)
  BY DEF IsSettled
<1>1. mi[o[1]] \in 1 .. h /\ o[1] \in Txs /\ o = <<o[1], o[2]>>
  BY OwnNoteIs
<1>2. IsNoted(q, mi, o)
  BY <1>1 DEF IsSettled
<1>3. o[1] \notin gone
  BY <1>1, <1>2 DEF IsNoted, S!IsConfirmed, S!Confirmed
<1>4. IsNoted(w, mi, o)
  BY <1>2, <1>3, DropsHold
<1>5. ASSUME NEW s \in Txs, o \in Ins[s], mi[s] \in 1 .. g PROVE IsSpentBy(w, mi, o, s)
  <2>1. mi[s] \in 1 .. h
    BY <1>5
  <2>2. IsSpentBy(q, mi, o, s)
    BY <1>1, <1>5, <2>1 DEF IsSettled
  <2> DEFINE sp == q[o[1]].notes[o[2]].spend
  <2>3. sp.by = s /\ S!IsConfirmed(sp.status) /\ o[2] \in DOMAIN q[o[1]].notes
    BY <2>2 DEF IsSpentBy, HasNullifier, HasNote, S!IsConfirmed, S!Confirmed
  <2>4. SpenderLists(q, mi, <<o[1], o[2]>>, sp)
    BY <1>1, <2>3 DEF IsSound, AllListed
  <2>5. S!IsConfirmed(q[s].status)
    BY <2>3, <2>4, LedgerAssumption DEF SpenderLists
  <2>6. s \notin gone
    BY <1>5, <2>5
  <2> QED BY <1>3, <2>2, <2>6, DropsHold
<1> QED BY <1>4, <1>5

\* A wallet file is as sound as the records it was written from.
LEMMA FileShield ==
  ASSUME NEW M, NEW q, MapOK(M, q), NEW mi, NEW T, IsSound(q, mi, T), NEW h \in Nat, IsSettled(q, mi, h)
  PROVE  IsSound(Restore(Store(q)), mi, T) /\ IsSettled(Restore(Store(q)), mi, h)
<1> DEFINE w == Restore(Store(q))
<1>1. PICK gone : Drops(q, w, gone) /\ \A t \in Txs : S!IsConfirmed(q[t].status) => t \notin gone
  BY FileDrops
<1> HIDE DEF w
<1>2. IsSound(w, mi, T)
  BY <1>1, DropsSound
<1>3. h <= h
  OBVIOUS
<1>4. IsSettled(w, mi, h)
  BY <1>1, <1>3, SettledDrops
<1> QED BY <1>2, <1>4 DEF w

\* Between two batches nothing is to be found.
LEMMA NoBatchGoing ==
  ASSUME NEW q, NEW mi, NEW h \in Nat
  PROVE  IsGoing(q, mi, h, NoBatch) /\ IsWork(mi, h, NoBatch)
<1>1. NoBatch.target = 0 /\ NoBatch.notes = {} /\ NoBatch.writes = {}
  BY DEF NoBatch
<1>2. \A x : x \notin (h + 1) .. 0
  OBVIOUS
<1> QED BY <1>1, <1>2 DEF IsGoing, IsWork

\* A batch that has nothing left to do has found what there is in its blocks.
LEMMA BatchSettles ==
  ASSUME ShieldInv, WorkersDone, ~batch.failed
  PROVE  IsSettled(m, mined, batch.target)
<1> SUFFICES ASSUME NEW o \in OwnNotes, mined[o[1]] \in 1 .. batch.target
             PROVE  /\ IsNoted(m, mined, o)
                    /\ \A s \in Txs : o \in Ins[s] /\ mined[s] \in 1 .. batch.target => IsSpentBy(m, mined, o, s)
  BY DEF IsSettled
<1>1. batch.tasks = {} /\ batch.notes = {} /\ batch.updates = {}
  BY DEF WorkersDone
<1>2. IsGoing(m, mined, synced, batch) /\ IsSettled(m, mined, synced) /\ IsChain(mined, made)
  BY ShieldParts
<1>3. \A x \in 1 .. batch.target : x \in 1 .. synced \/ x \in (synced + 1) .. batch.target
  BY ShieldParts
<1>4. IsNoted(m, mined, o)
  <2>1. CASE mined[o[1]] \in 1 .. synced
    BY <1>2, <2>1 DEF IsSettled
  <2>2. CASE mined[o[1]] \in (synced + 1) .. batch.target
    BY <1>1, <1>2, <2>2 DEF IsGoing
  <2> QED BY <1>3, <2>1, <2>2
<1>5. ASSUME NEW s \in Txs, o \in Ins[s], mined[s] \in 1 .. batch.target PROVE IsSpentBy(m, mined, o, s)
  <2>1. CASE mined[s] \in 1 .. synced
    <3>1. mined[s] # 0
      BY <2>1
    <3>2. mined[o[1]] \in 1 .. mined[s]
      BY <1>2, <1>5, <3>1 DEF IsChain
    <3>3. mined[o[1]] \in 1 .. synced
      BY <2>1, <3>2, ShieldParts
    <3> QED BY <1>2, <1>5, <2>1, <3>3 DEF IsSettled
  <2>2. CASE mined[s] \in (synced + 1) .. batch.target
    <3>1. IsSought(m, mined, synced, batch, o, s)
      BY <1>2, <1>5, <2>2 DEF IsGoing
    <3> QED BY <1>1, <3>1 DEF IsSought
  <2> QED BY <1>3, <1>5, <2>1, <2>2
<1> QED BY <1>4, <1>5

\* The end of a batch, which saves the wallet.
LEMMA EndBatchShield == ShieldInv /\ EndBatch => ShieldInv'
<1> SUFFICES ASSUME ShieldInv, EndBatch PROVE ShieldInv'
  OBVIOUS
<1> DEFINE gone == {t \in Txs : /\ S!IsPending(m[t].status)
                                /\ m[t].status.height < S!SaturatingSub(batch.target, MaxReorg)}
           h == batch.target
           w == Invalidate(m, gone)
           f == Restore(Store(w))
<1>1. /\ m' = w /\ synced' = h /\ batch' = NoBatch
      /\ file'.recs = Store(w) /\ file'.synced = h
      /\ made' = made /\ mined' = mined /\ WorkersDone /\ ~batch.failed
  BY DEF EndBatch, chain, ClearExpired
<1>2. LedgerInv'
  BY EndBatchInv DEF ShieldInv
<1>3. IsSettled(m, mined, h)
  BY <1>1, BatchSettles
<1>4. h \in Nat /\ h <= h /\ MapOK(Mined, m) /\ IsSound(m, mined, made) /\ IsChain(mined, made)
  BY ShieldParts
<1>5. \A t \in Txs : S!IsConfirmed(m[t].status) => t \notin gone
  BY DEF S!IsConfirmed, S!IsPending
<1> HIDE DEF gone, h
<1>6. Drops(m, w, gone) /\ MapOK(Mined, w)
  BY <1>4, InvalidateDrops, InvalidateOK
<1> HIDE DEF w
<1>7. IsSound(w, mined, made) /\ IsSettled(w, mined, h)
  BY <1>3, <1>4, <1>5, <1>6, DropsSound, SettledDrops
<1>8. IsSound(f, mined, made) /\ IsSettled(f, mined, h)
  BY <1>4, <1>6, <1>7, FileShield
<1>9. IsGoing(w, mined, h, NoBatch) /\ IsWork(mined, h, NoBatch)
  BY <1>4, NoBatchGoing
<1>10. Restore(file'.recs) = f
  BY <1>1
<1> HIDE DEF f
<1> QED BY <1>1, <1>2, <1>4, <1>7, <1>8, <1>9, <1>10 DEF ShieldInv

\* A batch that failed.
LEMMA RollBackShield == ShieldInv /\ RollBack => ShieldInv'
<1> SUFFICES ASSUME ShieldInv, RollBack PROVE ShieldInv'
  OBVIOUS
<1> DEFINE gone == {t \in S!Known(m) : m[t].status.height >= synced}
           h == synced - 1
           w == Invalidate(m, gone)
<1>1. /\ IF synced = 0 THEN m' = m /\ synced' = synced ELSE m' = w /\ synced' = h
      /\ batch' = NoBatch /\ made' = made /\ mined' = mined /\ file' = file
  BY DEF RollBack, chain, InvalidateFrom
<1>2. LedgerInv'
  BY RollBackInv DEF ShieldInv
<1>3. /\ synced \in Nat /\ MapOK(Mined, m) /\ IsSound(m, mined, made) /\ IsSettled(m, mined, synced)
      /\ IsChain(mined, made)
      /\ IsSound(Restore(file.recs), mined, made) /\ IsSettled(Restore(file.recs), mined, file.synced)
  BY ShieldParts DEF ShieldInv
<1>4. CASE synced = 0
  <2>1. IsGoing(m, mined, synced, NoBatch) /\ IsWork(mined, synced, NoBatch)
    BY <1>3, NoBatchGoing
  <2> QED BY <1>1, <1>2, <1>3, <1>4, <2>1 DEF ShieldInv
<1>5. CASE synced # 0
  <2>1. h \in Nat /\ h <= synced
    BY <1>3, <1>5
  <2>2. \A t \in Txs : S!IsConfirmed(m[t].status) /\ mined[t] \in 1 .. h => t \notin gone
    <3> SUFFICES ASSUME NEW t \in Txs, S!IsConfirmed(m[t].status), mined[t] \in 1 .. h PROVE ~(m[t].status.height >= synced)
      OBVIOUS
    <3>1. m[t].status = S!Confirmed(mined[t])
      BY <1>3 DEF IsSound, AllRight, Right
    <3>2. m[t].status.height = mined[t]
      BY <3>1 DEF S!Confirmed
    <3> QED BY <1>3, <3>2
  <2> HIDE DEF gone, h
  <2>3. Drops(m, w, gone)
    BY <1>3, InvalidateDrops
  <2> HIDE DEF w
  <2>4. IsSound(w, mined, made) /\ IsSettled(w, mined, h)
    BY <1>3, <2>1, <2>2, <2>3, DropsSound, SettledDrops
  <2>5. IsGoing(w, mined, h, NoBatch) /\ IsWork(mined, h, NoBatch)
    BY <2>1, NoBatchGoing
  <2>6. m' = w /\ synced' = h
    BY <1>1, <1>5
  <2> QED BY <1>1, <1>2, <1>3, <2>4, <2>5, <2>6 DEF ShieldInv
<1> QED BY <1>4, <1>5

\* A new process.
LEMMA RestartShield == ShieldInv /\ Restart => ShieldInv'
<1> SUFFICES ASSUME ShieldInv, Restart PROVE ShieldInv'
  OBVIOUS
<1> DEFINE w == Restore(file.recs)
<1>1. /\ m' = w /\ synced' = file.synced /\ batch' = NoBatch
      /\ made' = made /\ mined' = mined /\ file' = file
  BY DEF Restart, chain
<1>2. LedgerInv'
  BY RestartInv DEF ShieldInv
<1>3. file.synced \in Nat /\ IsChain(mined, made) /\ IsSound(w, mined, made) /\ IsSettled(w, mined, file.synced)
  BY ShieldParts DEF ShieldInv
<1> HIDE DEF w
<1>4. IsGoing(w, mined, file.synced, NoBatch) /\ IsWork(mined, file.synced, NoBatch)
  BY <1>3, NoBatchGoing
<1>5. Restore(file'.recs) = w
  BY <1>1 DEF w
<1> QED BY <1>1, <1>2, <1>3, <1>4, <1>5 DEF ShieldInv

\* A transaction that is not in a block marks no note whose spend is.
LEMMA PendingMark ==
  ASSUME ShieldInv, NEW t \in made, mined[t] = 0, NEW os, os \subseteq Ins[t], NEW sp
  PROVE  IsTrueMark(mined, tip, os, sp)
<1> SUFFICES ASSUME NEW o \in os, NEW s \in Txs, o \in Ins[s], mined[s] \in 1 .. tip PROVE FALSE
  BY DEF IsTrueMark
<1>1. s \in made /\ mined[s] # 0
  BY ShieldParts DEF IsChain
<1>2. o \in Ins[t]
  OBVIOUS
<1>3. s = t
  BY <1>1, <1>2, ShieldParts, OneSpender
<1> QED BY <1>1, <1>3

\* The outgoing data of a pending transaction that spends a note of the wallet
\* are all its outputs to others.
LEMMA OutgoingAll ==
  ASSUME NEW q, NEW t \in Txs, q[t].status.kind # "Absent", NEW o, o \in q[t].listed, HasNullifier(q, o),
         Ins[t] # {}
  PROVE  DOMAIN Outgoing(q, t) = ToOthers(t)
<1>1. t \in S!Known(q)
  BY DEF S!Known
<1>2. NotesSpentIn(q, t) # {}
  BY DEF NotesSpentIn
<1>3. Kind(q, t) # "received"
  BY <1>2 DEF Kind
<1> QED BY <1>1, <1>3 DEF Outgoing

\* The monitor meets a transaction without a record.
LEMMA ScanPendingShield == ShieldInv /\ (\E t \in Txs : ScanPending(t)) => ShieldInv'
<1> SUFFICES ASSUME ShieldInv, NEW t \in Txs, ScanPending(t) PROVE ShieldInv'
  OBVIOUS
<1> DEFINE st == S!Mempool(tip + 1)
           q == ScanRecord(m, t, st)
           p == ScanReceipts(ScanTransparent(m, t, st), t, st)
           os == {o \in Ins[t] : HasNullifier(p, o) /\ IsUnspent(p, o)}
           out == Outgoing(q, t)
           w == m'
           un == S!Unspent
           sp == [by |-> t, status |-> st]
<1>1. /\ w = (IF out = << >> THEN q ELSE WriteOutgoing(q, t, out))
      /\ made' = made /\ mined' = mined /\ synced' = synced /\ batch' = batch /\ file' = file
      /\ t \in made /\ mined[t] = 0
  BY DEF ScanPending, chain, InMempool
<1>2. LedgerInv'
  BY ScanPendingInv DEF ShieldInv
<1>3. ~S!IsConfirmed(st) /\ st.kind # "Absent"
  BY DEF S!IsConfirmed, S!Mempool
<1>4. q = FoundSpent(p, t, st, os)
  BY <1>3 DEF ScanRecord
<1>5. MapOK(Mined, m) /\ IsSeen(Mined, t, st)
  BY ShieldParts, MinedSeen
<1>6. IsNews(t, st, mined, made)
  BY <1>1, <1>3 DEF IsNews
<1>7. os \in SUBSET OutIds /\ os \subseteq Ins[t] /\ \A o \in os : HasNullifier(p, o)
  BY LedgerAssumption
<1>8. out # << >> => DOMAIN out # {}
  <2>1. out = [n \in DOMAIN out |-> out[n]]
    BY DEF Outgoing
  <2> HIDE DEF out
  <2>2. DOMAIN out = {} => out = [n \in {} |-> n]
    BY <2>1
  <2>3. << >> = [n \in {} |-> n]
    OBVIOUS
  <2> QED BY <2>2, <2>3
<1>9. out = << >> => DOMAIN out = {}
  OBVIOUS
<1>10. out = Outgoing(q, t)
  OBVIOUS
<1> HIDE DEF q, out, st, os, w
<1>11. /\ MapOK(Mined, p) /\ Writes(m, p, t, st, {}, {}, S!Unspent) /\ CoinsTo(t) \subseteq DOMAIN p[t].coins
       /\ NotesTo(t) \subseteq DOMAIN p[t].notes
  BY <1>3, <1>5, ScanWrites
<1> HIDE DEF p
<1>12. IsSound(p, mined, made) /\ IsSettled(p, mined, synced) /\ IsGoing(p, mined, synced, batch)
  BY <1>6, <1>11, PlainStep
<1>13. MapOK(Mined, q)
  BY <1>4, <1>5, <1>7, <1>11, FoundSpentOK
<1>14. /\ \A u \in Txs : u # t => w[u] = q[u]
       /\ OnlyOutgoing(q[t], w[t]) /\ (DOMAIN q[t].outgoing # {} => DOMAIN w[t].outgoing # {})
       /\ q[t].status.kind # "Absent" /\ DOMAIN out # {} => DOMAIN w[t].outgoing # {}
  <2>1. CASE out = << >>
    <3>1. w = q
      BY <1>1, <2>1
    <3> QED BY <1>9, <2>1, <3>1 DEF OnlyOutgoing
  <2>2. CASE out # << >>
    <3>1. w = WriteOutgoing(q, t, out)
      BY <1>1, <2>2
    <3> QED BY <1>8, <1>13, <2>2, <3>1, WriteOutgoingIs
  <2> QED BY <2>1, <2>2
<1>15. IsWork(mined, synced, batch)
  BY ShieldParts
<1>16. CASE os = {}
  <2>1. q = p
    BY <1>4, <1>16 DEF FoundSpent
  <2> DEFINE none == {}
  <2>2. Writes(m, q, t, st, none, none, un)
    BY <1>11, <2>1
  <2> HIDE DEF none, un
  <2>3. Writes(m, w, t, st, none, none, un)
    BY <1>14, <2>2, OutgoingJoins
  <2>4. Writes(m, w, t, st, {}, {}, S!Unspent)
    BY <2>3 DEF none, un
  <2>5. IsSound(w, mined, made) /\ IsSettled(w, mined, synced) /\ IsGoing(w, mined, synced, batch)
    BY <1>6, <2>4, PlainStep
  <2> QED BY <1>1, <1>2, <1>15, <2>5, SameShield DEF w
<1>17. CASE os # {}
  <2>1. /\ Writes(p, q, t, st, os, os, sp) /\ q[t].listed = p[t].listed \cup os
        /\ q[t].status = Raised(p[t], st) /\ DOMAIN q[t].coins = DOMAIN p[t].coins
        /\ \A u \in Txs : DOMAIN q[u].notes = DOMAIN p[u].notes
    BY <1>4, <1>5, <1>7, <1>11, <1>17, FoundSpentWrites
  <2>2. sp.by = t /\ sp.status = st
    OBVIOUS
  <2> HIDE DEF sp
  <2>3. Writes(p, w, t, st, os, os, sp)
    BY <1>14, <2>1, OutgoingJoins
  <2>4. q[t].status.kind # "Absent"
    BY <1>3, <2>1, RaisedIs
  <2>5. PICK o \in os : TRUE
    BY <1>17
  <2>6. o \in q[t].listed /\ HasNullifier(q, o) /\ Ins[t] # {}
    <3>1. HasNullifier(p, o) /\ o \in OutIds
      BY <1>7
    <3>2. o[1] \in Txs
      BY <3>1 DEF OutIds
    <3>3. Wrote(o[1], p[o[1]], q[o[1]], t, st, os, os, sp)
      BY <2>1, <3>2 DEF Writes
    <3>4. HasNullifier(q, o)
      BY <3>1, <3>3 DEF HasNullifier, HasNote, Wrote
    <3> QED BY <1>7, <2>1, <3>4
  <2>7. DOMAIN out = ToOthers(t)
    BY <1>10, <2>4, <2>6, OutgoingAll
  <2>8. Full(t, w[t])
    <3>1. CASE ToOthers(t) # {}
      BY <1>14, <2>4, <2>7, <3>1 DEF Full
    <3>2. CASE ToOthers(t) = {}
      BY <1>11, <1>14, <2>1, <3>2 DEF Full, OnlyOutgoing
    <3> QED BY <3>1, <3>2
  <2>9. IsMark(w, mined, t, os, sp)
    <3>1. \A x \in os : x \in w[t].listed
      BY <1>14, <2>1 DEF OnlyOutgoing
    <3> QED BY <1>3, <2>2, <3>1 DEF IsMark, SpenderLists
  <2>10. IsTrueMark(mined, tip, os, sp)
    BY <1>1, <1>7, PendingMark
  <2>11. IsTrueMark(mined, synced, os, sp)
    BY <2>10, ShieldParts, TrueMarkBelow
  <2>12. IsSound(w, mined, made)
    BY <1>6, <1>7, <1>11, <1>12, <2>3, <2>8, <2>9, SoundKept
  <2>13. IsSettled(w, mined, synced)
    BY <1>6, <1>12, <2>3, <2>11, SettledKept
  <2>14. IsGoing(w, mined, synced, batch)
    BY <1>6, <1>12, <2>3, <2>10, ShieldParts, GoingKept
  <2> QED BY <1>1, <1>2, <1>15, <2>12, <2>13, <2>14, SameShield DEF w
<1> QED BY <1>16, <1>17

\* The monitor meets a transaction that was sent.
LEMMA SeenAgainShield == ShieldInv /\ (\E t \in Txs : SeenAgain(t)) => ShieldInv'
<1> SUFFICES ASSUME ShieldInv, NEW t \in Txs, SeenAgain(t) PROVE ShieldInv'
  OBVIOUS
<1> DEFINE st == S!Mempool(tip + 1)
           os == NotesSpentIn(m, t)
           q == FoundSpent(m, t, st, os)
           x == [q EXCEPT ![t].status = st]
           w == m'
           un == S!Unspent
           sp == [by |-> t, status |-> st]
<1>1. /\ w = x /\ made' = made /\ mined' = mined /\ synced' = synced /\ batch' = batch /\ file' = file
      /\ t \in made /\ mined[t] = 0 /\ m[t].status.kind = "Transmitted"
  BY DEF SeenAgain, chain, InMempool
<1>2. LedgerInv'
  BY SeenAgainInv DEF ShieldInv
<1>3. ~S!IsConfirmed(st) /\ st.kind # "Absent" /\ ~S!IsConfirmed(m[t].status)
  BY <1>1 DEF S!IsConfirmed, S!Mempool
<1>4. MapOK(Mined, m) /\ IsSeen(Mined, t, st) /\ IsWork(mined, synced, batch)
  BY ShieldParts, MinedSeen
<1>5. IsNews(t, st, mined, made)
  BY <1>1, <1>3 DEF IsNews
<1>6. os \subseteq m[t].listed /\ os \in SUBSET OutIds /\ os \subseteq Ins[t]
  <2>1. Right(t, m[t], mined, made)
    BY ShieldParts DEF IsSound, AllRight
  <2> QED BY <1>4, <2>1 DEF MapOK, RecOK, NotesSpentIn, Right
<1> HIDE DEF st, os, w
<1>7. MapOK(Mined, q)
  BY <1>4, <1>6, FoundSpentOK
<1>8. os = {} => q = m
  BY DEF FoundSpent
<1>9. os # {} => /\ Writes(m, q, t, st, os, os, sp) /\ q[t].listed = m[t].listed \cup os
                 /\ q[t].status = Raised(m[t], st)
  BY <1>4, <1>6, FoundSpentWrites
<1> HIDE DEF q
<1>10. IsShaped(q[t])
  BY <1>7 DEF MapOK, RecOK
<1>11. x[t] = [q[t] EXCEPT !.status = st] /\ \A u \in Txs : u # t => x[u] = q[u]
  BY <1>7 DEF MapOK
<1>12. OnlyStatus(q[t], x[t]) /\ x[t].status = st
  BY <1>10, <1>11 DEF IsShaped, OnlyStatus
<1> HIDE DEF x
<1>13. (\A u \in Txs : u # t => w[u] = q[u]) /\ OnlyStatus(q[t], w[t]) /\ w[t].status = st
  BY <1>1, <1>11, <1>12
<1>14. CASE os = {}
  <2>1. Writes(m, w, t, st, {}, {}, S!Unspent)
    <3> SUFFICES ASSUME NEW u \in Txs PROVE Wrote(u, m[u], w[u], t, st, {}, {}, S!Unspent)
      BY DEF Writes
    <3> DEFINE r == m[u]
               v == w[u]
               ls == {}
    <3>1. (u # t => v = r) /\ (u = t => OnlyStatus(r, v) /\ v.status = st /\ ~S!IsConfirmed(r.status))
      BY <1>3, <1>8, <1>13, <1>14
    <3> HIDE DEF r, v, ls, un
    <3>2. StatusWrote(u, r, v, t, st)
      BY <3>1 DEF StatusWrote
    <3>3. /\ v.listed = r.listed /\ v.notes = r.notes /\ DOMAIN r.coins \subseteq DOMAIN v.coins
          /\ DOMAIN r.outgoing # {} => DOMAIN v.outgoing # {}
      BY <3>1 DEF OnlyStatus
    <3>4. Wrote(u, r, v, t, st, ls, {}, un)
      BY <3>2, <3>3, WroteStatus
    <3> QED BY <3>4 DEF r, v, ls, un
  <2>2. IsSound(w, mined, made) /\ IsSettled(w, mined, synced) /\ IsGoing(w, mined, synced, batch)
    BY <1>5, <2>1, PlainStep
  <2> QED BY <1>1, <1>2, <1>4, <2>2, SameShield DEF w
<1>15. CASE os # {}
  <2>1. Writes(m, q, t, st, os, os, sp) /\ q[t].listed = m[t].listed /\ q[t].status = st
    BY <1>3, <1>6, <1>9, <1>15 DEF Raised
  <2>2. sp.by = t /\ sp.status = st
    OBVIOUS
  <2> HIDE DEF sp
  <2>3. OnlyOutgoing(q[t], w[t]) /\ w[t].outgoing = q[t].outgoing
    BY <1>13, <2>1 DEF OnlyStatus, OnlyOutgoing
  <2>4. Writes(m, w, t, st, os, os, sp)
    BY <1>13, <2>1, <2>3, OutgoingJoins
  <2>5. w[t].listed = m[t].listed
    BY <2>1, <2>3 DEF OnlyOutgoing
  <2>6. IsMark(w, mined, t, os, sp)
    BY <1>3, <1>6, <2>2, <2>5 DEF IsMark, SpenderLists
  <2>7. IsTrueMark(mined, tip, os, sp)
    BY <1>1, <1>6, PendingMark
  <2>8. IsSound(w, mined, made) /\ IsSettled(w, mined, synced) /\ IsGoing(w, mined, synced, batch)
    BY <1>5, <1>6, <2>4, <2>5, <2>6, <2>7, WriteStep
  <2> QED BY <1>1, <1>2, <1>4, <2>8, SameShield DEF w
<1> QED BY <1>14, <1>15

\* A record of an old file: its notes were found in a block, and are unspent.
LEMMA OldRecordIs ==
  ASSUME NEW t \in Txs
  PROVE  /\ OldRecord(t).status = S!Confirmed(1) /\ OldRecord(t).listed = {}
         /\ DOMAIN OldRecord(t).notes = NotesTo(t)
         /\ \A n \in NotesTo(t) : OldRecord(t).notes[n].nf /\ OldRecord(t).notes[n].spend = S!Unspent
<1> DEFINE st == S!Confirmed(1)
           f == [n \in NotesTo(t) |-> [nf |-> TRUE, index |-> FALSE, memo |-> Outs[t][n].memo, spend |-> S!Unspent]]
           c == [n \in CoinsTo(t) |-> S!Unspent]
           x == [NoRecord EXCEPT !.status = st]
           y == [x EXCEPT !.notes = f]
<1>1. OldRecord(t) = [y EXCEPT !.coins = c]
  BY DEF OldRecord
<1>2. DOMAIN f = NotesTo(t) /\ \A n \in NotesTo(t) : f[n].nf /\ f[n].spend = S!Unspent
  OBVIOUS
<1>3. IsShaped(NoRecord) /\ NoRecord.listed = {}
  BY DEF NoRecord, IsShaped
<1> HIDE DEF f, c, st
<1>4. IsShaped(x) /\ x.listed = {} /\ x.status = st
  BY <1>3 DEF IsShaped
<1> HIDE DEF x
<1>5. IsShaped(y) /\ y.listed = {} /\ y.status = st /\ y.notes = f
  BY <1>4 DEF IsShaped
<1> HIDE DEF y
<1>6. OldRecord(t).listed = {} /\ OldRecord(t).status = st /\ OldRecord(t).notes = f
  BY <1>1, <1>5 DEF IsShaped
<1> QED BY <1>2, <1>6 DEF st

\* The first state.
LEMMA ShieldInit == Init => ShieldInv
<1> SUFFICES ASSUME Init PROVE ShieldInv
  OBVIOUS
<1>1. PICK old \in {{}, OldFile \cap made} :
        /\ mined = [t \in Txs |-> IF t \in old THEN 1 ELSE 0]
        /\ m = [t \in Txs |-> IF t \in old THEN OldRecord(t) ELSE NoRecord]
        /\ synced = 1 /\ batch = NoBatch /\ file = [recs |-> Store(m), synced |-> synced]
  BY DEF Init
<1>2. LedgerInv
  BY LedgerInit
<1>3. \A t \in old : t \in made /\ Ins[t] = {}
  BY LedgerAssumption
<1>4. \A t \in Txs : mined[t] = (IF t \in old THEN 1 ELSE 0) /\ m[t] = IF t \in old THEN OldRecord(t) ELSE NoRecord
  BY <1>1
<1>5. file.recs = Store(m) /\ file.synced = 1 /\ synced = 1 /\ batch = NoBatch
  BY <1>1
<1>6. IsChain(mined, made)
  BY <1>3, <1>4 DEF IsChain
<1>7. IsSound(m, mined, made)
  <2>1. ASSUME NEW t \in Txs PROVE Right(t, m[t], mined, made) /\ m[t].listed = {}
    <3>1. CASE t \in old
      <4>1. mined[t] = 1 /\ m[t] = OldRecord(t) /\ t \in made
        BY <1>3, <1>4, <3>1
      <4>2. m[t].status = S!Confirmed(1) /\ m[t].listed = {}
        BY <4>1, OldRecordIs
      <4>3. S!Confirmed(1).kind # "Absent"
        BY DEF S!Confirmed
      <4> QED BY <4>1, <4>2, <4>3 DEF Right
    <3>2. CASE t \notin old
      <4>1. m[t] = NoRecord
        BY <1>4, <3>2
      <4> QED BY <4>1, NoRecordIs DEF Right
    <3> QED BY <3>1, <3>2
  <2>2. ASSUME NEW t \in Txs, NEW n \in DOMAIN m[t].notes PROVE m[t].notes[n].spend = S!Unspent
    <3>1. CASE t \in old
      BY <1>4, <2>2, <3>1, OldRecordIs
    <3>2. CASE t \notin old
      BY <1>4, <2>2, <3>2, NoRecordIs
    <3> QED BY <3>1, <3>2
  <2>3. AllListed(m, mined)
    <3>1. S!Unspent.by = NoTx
      BY DEF S!Unspent
    <3> QED BY <2>2, <3>1 DEF AllListed, SpenderLists
  <2> QED BY <2>1, <2>3 DEF IsSound, AllRight, AllFull
<1>8. IsSettled(m, mined, 1)
  <2> SUFFICES ASSUME NEW o \in OwnNotes, mined[o[1]] \in 1 .. 1
               PROVE  /\ IsNoted(m, mined, o)
                      /\ \A s \in Txs : o \in Ins[s] /\ mined[s] \in 1 .. 1 => IsSpentBy(m, mined, o, s)
    BY DEF IsSettled
  <2>1. o[1] \in Txs /\ o[2] \in NotesTo(o[1]) /\ o[1] \in old
    BY <1>4, OwnNoteIs
  <2>2. mined[o[1]] = 1 /\ m[o[1]] = OldRecord(o[1])
    BY <1>4, <2>1
  <2>3. IsNoted(m, mined, o)
    BY <2>1, <2>2, OldRecordIs DEF IsNoted, HasNullifier, HasNote
  <2>4. \A s \in Txs : mined[s] \in 1 .. 1 => Ins[s] = {}
    BY <1>3, <1>4
  <2> QED BY <2>3, <2>4
<1>9. MapOK(Mined, m) /\ 1 \in Nat
  BY <1>2, InvParts
<1>10. IsSound(Restore(Store(m)), mined, made) /\ IsSettled(Restore(Store(m)), mined, 1)
  BY <1>7, <1>8, <1>9, FileShield
<1>11. IsGoing(m, mined, 1, NoBatch) /\ IsWork(mined, 1, NoBatch)
  BY NoBatchGoing
<1> QED BY <1>2, <1>5, <1>6, <1>7, <1>8, <1>10, <1>11 DEF ShieldInv

\* No step breaks the invariant.
LEMMA ShieldInvKept == ShieldInv /\ [Next]_vars => ShieldInv'
<1> SUFFICES ASSUME ShieldInv, [Next]_vars PROVE ShieldInv'
  OBVIOUS
<1>1. CASE Workers
  BY <1>1, ListShield, RescanShield, ScanTaddrShield, TaddrCutShield, WorkerFailsShield, DetectShield,
     UpdateShield, ScanFullShield, WriteOutShield DEF Workers
<1>2. CASE (\E B \in SUBSET made : Mine(B)) \/ StartBatch \/ EndBatch \/ RollBack \/ Restart
  BY <1>2, MineShield, StartShield, EndBatchShield, RollBackShield, RestartShield
<1>3. CASE \E t \in Txs : ScanPending(t) \/ SeenAgain(t)
  BY <1>3, ScanPendingShield, SeenAgainShield
<1>4. CASE UNCHANGED vars
  <2>1. /\ made' = made /\ mined' = mined /\ m' = m /\ synced' = synced /\ batch' = batch /\ file' = file
    BY <1>4 DEF vars
  <2>2. LedgerInv'
    BY LedgerInvKept DEF ShieldInv
  <2> QED BY <2>1, <2>2, ShieldParts, SameShield
<1> QED BY <1>1, <1>2, <1>3, <1>4 DEF Next

\* In a wallet that has caught up the records of notes and the chain agree.
LEMMA QuietNotes ==
  ASSUME ShieldInv, Quiet, NEW o \in OutIds, Out(o).pool \in Shielded
  PROVE  /\ o \in Held(m) => HasNullifier(m, o) /\ S!IsConfirmed(m[o[1]].status)
         /\ o \in Held(m) => IsUnspent(m, o) \/ S!IsConfirmed(SpendOf(m, o).status)
         /\ o \in Held(m) /\ IsUnspent(m, o) => ~S!IsConfirmed(SpendOf(m, o).status)
         /\ o \in Held(m) /\ IsUnspent(m, o) /\ S!IsConfirmed(m[o[1]].status) <=> o \in Left
<1> DEFINE t == o[1]
           n == o[2]
           sp == m[t].notes[n].spend
<1>1. /\ IsSound(m, mined, made) /\ IsSettled(m, mined, tip) /\ MapOK(Mined, m) /\ tip \in Nat
      /\ IsChain(mined, made)
  BY ShieldParts DEF Quiet
<1>2. ASSUME NEW s \in Txs, m[s].status.kind # "Absent" PROVE s \in Mined /\ mined[s] \in 1 .. tip
  <2>1. S!IsConfirmed(m[s].status)
    BY <1>2 DEF Quiet, S!Known
  <2>2. mined[s] \in Nat \ {0} /\ mined[s] <= tip
    BY <1>1, <2>1, ShieldParts DEF IsSound, AllRight, Right
  <2> QED BY <1>1, <2>2 DEF Mined
<1>3. t \in Txs /\ o = <<t, n>> /\ n \in DOMAIN Outs[t]
  <2>1. PICK x \in Txs : o \in {x} \X DOMAIN Outs[x]
    BY DEF OutIds
  <2> QED BY <2>1
<1>4. Out(o).to = Self => o \in OwnNotes
  <2> SUFFICES ASSUME Out(o).to = Self PROVE o \in {t} \X NotesTo(t)
    BY <1>3 DEF OwnNotes
  <2>1. n \in NotesTo(t)
    BY <1>3 DEF NotesTo, Out
  <2> QED BY <1>3, <2>1
<1>5. ASSUME o \in Held(m)
      PROVE  /\ HasNote(m, o) /\ Out(o).to = Self /\ t \in Mined /\ mined[t] \in 1 .. tip /\ SpendOK(sp)
             /\ S!IsConfirmed(m[t].status)
  <2>1. HasNote(m, o)
    BY <1>1, <1>5, HeldIs DEF Shielded
  <2>2. n \in DOMAIN m[t].notes
    BY <2>1 DEF HasNote
  <2>3. n \in NotesTo(t) /\ SpendOK(sp)
    BY <1>1, <1>3, <2>2 DEF MapOK, RecOK, NotesOK, NoteOK
  <2>4. m[t].status.kind # "Absent"
    BY <1>1, <1>3, <2>2 DEF IsSound, AllRight, Right
  <2>5. S!IsConfirmed(m[t].status)
    BY <1>3, <2>4 DEF Quiet, S!Known
  <2> QED BY <1>2, <1>3, <2>1, <2>3, <2>4, <2>5 DEF NotesTo, Out
<1>6. o \in Held(m) => HasNullifier(m, o)
  BY <1>1, <1>4, <1>5 DEF IsSettled, IsNoted
<1>7. ASSUME o \in Held(m), IsUnspent(m, o), S!IsConfirmed(m[t].status) PROVE o \in Left
  <2>1. HasNote(m, o) /\ Out(o).to = Self /\ t \in Mined /\ mined[t] \in 1 .. tip
    BY <1>5, <1>7
  <2>2. ASSUME NEW s \in Mined, o \in Ins[s] PROVE FALSE
    <3>1. s \in Txs /\ mined[s] \in 1 .. tip
      BY ShieldParts
    <3>2. IsSpentBy(m, mined, o, s)
      BY <1>1, <1>4, <2>1, <2>2, <3>1 DEF IsSettled
    <3>3. sp.by = s
      BY <3>2 DEF IsSpentBy
    <3>4. SpendOf(m, o) = sp
      BY <2>1 DEF SpendOf
    <3> QED BY <1>7, <3>1, <3>3, <3>4, LedgerAssumption DEF IsUnspent
  <2> QED BY <2>1, <2>2 DEF Left
<1>8. ASSUME o \in Held(m), sp.by # NoTx PROVE sp.by \in Mined /\ sp.by \in Txs /\ o \in Ins[sp.by]
  <2>1. SpenderLists(m, mined, o, sp) /\ SpendOK(sp)
    BY <1>1, <1>3, <1>5, <1>8 DEF IsSound, AllListed, HasNote
  <2>2. sp.by \in Txs /\ o \in m[sp.by].listed
    BY <1>8, <2>1 DEF SpenderLists, SpendOK
  <2> HIDE DEF sp
  <2>3. Right(sp.by, m[sp.by], mined, made)
    BY <1>1, <2>2 DEF IsSound, AllRight
  <2>4. m[sp.by].status.kind # "Absent" /\ o \in Ins[sp.by]
    BY <2>2, <2>3 DEF Right
  <2> QED BY <1>2, <2>2, <2>4
<1>9. ASSUME o \in Left PROVE o \in Held(m) /\ IsUnspent(m, o) /\ S!IsConfirmed(m[t].status)
  <2>1. Out(o).to = Self /\ t \in Mined /\ \A s \in Mined : o \notin Ins[s]
    BY <1>9 DEF Left
  <2>2. mined[t] \in 1 .. tip
    BY <2>1, ShieldParts
  <2>3. IsNoted(m, mined, o)
    BY <1>1, <1>4, <2>1, <2>2 DEF IsSettled
  <2>4. HasNote(m, o) /\ n \in DOMAIN m[t].notes /\ S!IsConfirmed(m[t].status)
    BY <2>3 DEF IsNoted, HasNullifier, HasNote, S!IsConfirmed, S!Confirmed
  <2>5. o \in Held(m)
    BY <1>3, <2>4 DEF Held
  <2>6. sp.by = NoTx
    BY <1>8, <2>1, <2>5
  <2>7. IsUnspent(m, o)
    BY <2>4, <2>6 DEF IsUnspent, SpendOf
  <2> QED BY <2>4, <2>5, <2>7
<1>10. ASSUME o \in Held(m) PROVE IsUnspent(m, o) <=> ~S!IsConfirmed(SpendOf(m, o).status)
  <2>1. HasNote(m, o) /\ SpendOf(m, o) = sp /\ SpendOK(sp) /\ o \in OwnNotes /\ mined[t] \in 1 .. tip
    BY <1>4, <1>5, <1>10 DEF SpendOf
  <2>2. sp.by = NoTx => ~S!IsConfirmed(sp.status)
    BY <2>1, SummaryIs
  <2>3. ASSUME sp.by # NoTx PROVE S!IsConfirmed(sp.status)
    <3>1. sp.by \in Mined /\ sp.by \in Txs /\ mined[sp.by] \in 1 .. tip /\ o \in Ins[sp.by]
      BY <1>8, <1>10, <2>3, ShieldParts
    <3>2. IsSpentBy(m, mined, o, sp.by)
      BY <1>1, <2>1, <3>1 DEF IsSettled
    <3> QED BY <3>2 DEF IsSpentBy, S!IsConfirmed, S!Confirmed
  <2> QED BY <2>1, <2>2, <2>3 DEF IsUnspent
<1> QED BY <1>5, <1>6, <1>7, <1>9, <1>10

\* The invariant implies that the shielded balances are true.
LEMMA ShieldInvTrue == ShieldInv => ShieldedIsTrue
<1> SUFFICES ASSUME ShieldInv, Quiet
             PROVE  /\ \A p \in Shielded : /\ ConfirmedBalance(m, p) = Total({o \in Left : Out(o).pool = p})
                                           /\ PendingBalance(m, p) = 0
                    /\ \A p \in Shielded, all \in BOOLEAN :
                         LET list == ListOutputs(m, all, synced)[p]
                         IN list.unspent = {o \in Left : Out(o).pool = p} /\ list.pending = {}
                    /\ BalanceExcludingDust(m) = Total({o \in Left : Out(o).pool \in Shielded /\ Value(o) > MarginalFee})
  BY DEF ShieldedIsTrue
<1>1. Held(m) \subseteq OutIds /\ Left \subseteq OutIds
  BY ShieldParts, HeldOuts DEF Left
<1>2. ASSUME NEW p \in Shielded PROVE ConfirmedBalance(m, p) = Total({o \in Left : Out(o).pool = p})
  <2> DEFINE a == {o \in UnspentOuts(m, {p}) : HasNullifier(m, o) /\ S!IsConfirmed(m[o[1]].status)}
             b == {o \in Left : Out(o).pool = p}
  <2>1. ASSUME NEW o PROVE o \in a <=> o \in b
    <3>1. o \in a <=> o \in Held(m) /\ Out(o).pool = p /\ IsUnspent(m, o) /\ HasNullifier(m, o) /\ S!IsConfirmed(m[o[1]].status)
      BY DEF UnspentOuts
    <3>2. o \in OutIds /\ Out(o).pool = p => (o \in a <=> o \in Left)
      BY <1>2, <3>1, QuietNotes
    <3> QED BY <1>1, <3>1, <3>2
  <2>2. a = b
    BY <2>1
  <2> QED BY <2>2 DEF ConfirmedBalance
<1>3. ASSUME NEW p \in Shielded PROVE PendingBalance(m, p) = 0
  <2> DEFINE a == {o \in UnspentOuts(m, {p}) : ~HasNullifier(m, o)}
  <2>1. a = {}
    BY <1>1, <1>3, QuietNotes DEF UnspentOuts
  <2>2. Total({}) = 0
    BY TotalIs, SumEmpty
  <2> QED BY <2>1, <2>2 DEF PendingBalance
<1>4. BalanceExcludingDust(m) = Total({o \in Left : Out(o).pool \in Shielded /\ Value(o) > MarginalFee})
  <2> DEFINE a == {o \in UnspentOuts(m, Shielded) :
                     HasNullifier(m, o) /\ S!IsConfirmed(m[o[1]].status) /\ Value(o) > MarginalFee}
             b == {o \in Left : Out(o).pool \in Shielded /\ Value(o) > MarginalFee}
  <2>1. ASSUME NEW o PROVE o \in a <=> o \in b
    <3>1. o \in a <=> /\ o \in Held(m) /\ Out(o).pool \in Shielded /\ IsUnspent(m, o)
                      /\ HasNullifier(m, o) /\ S!IsConfirmed(m[o[1]].status) /\ Value(o) > MarginalFee
      BY DEF UnspentOuts
    <3>2. o \in OutIds /\ Out(o).pool \in Shielded /\ Value(o) > MarginalFee => (o \in a <=> o \in Left)
      BY <3>1, QuietNotes
    <3> QED BY <1>1, <3>1, <3>2
  <2>2. a = b
    BY <2>1
  <2> QED BY <2>2 DEF BalanceExcludingDust
<1>5. ASSUME NEW p \in Shielded, NEW all \in BOOLEAN
      PROVE  /\ ListOutputs(m, all, synced)[p].unspent = {o \in Left : Out(o).pool = p}
             /\ ListOutputs(m, all, synced)[p].pending = {}
  <2> DEFINE shown(o) == all \/ IF p = "sapling" THEN IsUnspent(m, o) ELSE ~S!IsConfirmed(SpendOf(m, o).status)
             os == {o \in Held(m) : Out(o).pool = p /\ shown(o)}
             free == {o \in os : IsUnspent(m, o)}
             gone == {o \in os : S!IsConfirmed(SpendOf(m, o).status)}
  <2>1. /\ ListOutputs(m, all, synced)[p].unspent = free
        /\ ListOutputs(m, all, synced)[p].pending = os \ (free \cup gone)
    <3>1. CASE p = "sapling"
      BY <3>1 DEF ListOutputs, ListSapling, BySpend
    <3>2. CASE p = "orchard"
      BY <3>2 DEF ListOutputs, ListOrchard, BySpend
    <3>3. p = "sapling" \/ p = "orchard"
      BY DEF Shielded, Pools
    <3> HIDE DEF os, free, gone
    <3> QED BY <3>1, <3>2, <3>3
  <2>2. ASSUME NEW o PROVE /\ o \in free <=> o \in Left /\ Out(o).pool = p
                           /\ o \in os => o \in free \/ o \in gone
    <3>1. o \in Held(m) /\ Out(o).pool = p =>
            /\ S!IsConfirmed(m[o[1]].status)
            /\ IsUnspent(m, o) \/ S!IsConfirmed(SpendOf(m, o).status)
            /\ IsUnspent(m, o) => ~S!IsConfirmed(SpendOf(m, o).status)
      BY <1>1, <1>5, QuietNotes
    <3>2. Out(o).pool = p => (o \in Held(m) /\ IsUnspent(m, o) /\ S!IsConfirmed(m[o[1]].status) <=> o \in Left)
      BY <1>1, <1>5, QuietNotes
    <3> QED BY <3>1, <3>2
  <2> HIDE DEF os, free, gone
  <2>3. free = {o \in Left : Out(o).pool = p} /\ os \ (free \cup gone) = {}
    BY <2>2
  <2> QED BY <2>1, <2>3
<1> QED BY <1>2, <1>3, <1>4, <1>5

\* For all transactions and chains, in whatever order the workers found notes
\* and spends, whichever of them failed, and whenever the process ended: in a
\* wallet that has caught up the shielded balances are what the chain leaves
\* it (confirmed_balance, confirmed_shielded_balance_excluding_dust), and the
\* notes listed as unspent are those (do_list_notes).
THEOREM ShieldedAlwaysTrue == Spec => []ShieldedIsTrue
<1>1. Init => ShieldInv
  BY ShieldInit
<1>2. ShieldInv /\ [Next]_vars => ShieldInv'
  BY ShieldInvKept
<1>3. ShieldInv => ShieldedIsTrue
  BY ShieldInvTrue
<1> QED BY <1>1, <1>2, <1>3, PTL DEF Spec
=============================================================================
