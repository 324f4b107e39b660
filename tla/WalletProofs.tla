----------------------------- MODULE WalletProofs -----------------------------
(***************************************************************************)
(* The record map for every set of transactions, every chain and any       *)
(* number of reorganisations.                                              *)
(*                                                                         *)
(* SpendIsListed, whichever of the three writers takes the lock next.  It  *)
(* is not inductive: a scan marks notes for a transaction whose record may *)
(* be gone by the time it takes the lock again, so one must know that a    *)
(* missing record lists nothing (AbsentListsNothing) and that a scan       *)
(* carries a status that makes the record known (ScanReady).               *)
(*                                                                         *)
(* TraceInv adds what the server's chain, the batch's snapshot of it and   *)
(* the jobs have to do with each other; it needs no condition and gives    *)
(* SourceKnown.  The properties about the chain hold under a condition on  *)
(* the constants, which the part that proves them states and explains:     *)
(* ConfirmedStays (OnePendingWriter), OnlyChainIsConfirmed (KeepsBlocks),  *)
(* NoSpentNoteOffered (Quiet) and ChainIsRecorded (Alone).                 *)
(***************************************************************************)
EXTENDS WalletRecords, TLAPS

Listed(m) ==
  \A s \in Txs : m[s].spend.by # NoTx =>
    m[s].spend.by \in Known(m) /\ s \in m[m[s].spend.by].spent

AbsentListsNothing(m) == \A t \in Txs : t \notin Known(m) => m[t].spent = {}

MapOK(m) == m \in [Txs -> Records] /\ Listed(m) /\ AbsentListsNothing(m)

ScanReady(p) ==
  /\ p.pc \in {"received", "upgrade", "receipts", "nullifiers", "mark", "update"} =>
       p.tx \in Txs /\ p.status.kind # "Absent"
  /\ p.pc = "broadcast" => p.status.kind # "Absent"

\* The inductive invariant.
WalletInv ==
  /\ TypeOK
  /\ MapOK(records)
  /\ ScanReady(monitor) /\ ScanReady(sender)
  /\ sync # "idle" => batch.first >= 1
-----------------------------------------------------------------------------
(* The operations on the record map *)

\* A record that is removed takes the spends it lists with it
\* (invalidate_transactions).
LEMMA InvalidateOK ==
  ASSUME NEW m, MapOK(m), NEW gone
  PROVE  MapOK(Invalidate(m, gone))
<1> DEFINE n == Invalidate(m, gone)
<1>0. /\ m \in [Txs -> Records] /\ Listed(m) /\ AbsentListsNothing(m)
      /\ NoTx \notin Txs
  BY RecordsAssumption DEF MapOK
<1>1. ASSUME NEW t \in Txs
      PROVE  /\ t \in gone => n[t] = NoRecord
             /\ t \notin gone /\ m[t].spend.by \in gone =>
                  n[t] = [m[t] EXCEPT !.spend = Unspent]
             /\ t \notin gone /\ m[t].spend.by \notin gone => n[t] = m[t]
  BY DEF Invalidate
<1> HIDE DEF n
<1>2. /\ NoRecord \in Records /\ Unspent \in SpendMarks
      /\ NoRecord.spent = {} /\ NoRecord.spend.by = NoTx /\ Unspent.by = NoTx
  BY DEF NoRecord, Unspent, NoStatus, Records, SpendMarks, Statuses, Kinds
<1>3. n \in [Txs -> Records]
  BY <1>0, <1>2 DEF n, Invalidate, Records
<1>4. ASSUME NEW t \in Txs, t \notin gone
      PROVE  n[t].status = m[t].status /\ n[t].spent = m[t].spent
  BY <1>0, <1>1, <1>4 DEF Records
<1>5. ASSUME NEW s \in Txs, n[s].spend.by # NoTx
      PROVE  n[s].spend.by \in Known(n) /\ s \in n[n[s].spend.by].spent
  <2>1. s \notin gone /\ m[s].spend.by \notin gone /\ n[s] = m[s]
    <3>1. s \notin gone BY <1>1, <1>2, <1>5
    <3>2. CASE m[s].spend.by \in gone
      <4>1. n[s].spend = Unspent BY <1>0, <1>1, <3>1, <3>2 DEF Records
      <4> QED BY <4>1, <1>2, <1>5
    <3> QED BY <1>1, <3>1, <3>2
  <2>2. m[s].spend.by \in Known(m) /\ s \in m[m[s].spend.by].spent
    BY <1>0, <1>5, <2>1 DEF Listed
  <2> QED BY <1>4, <2>1, <2>2 DEF Known
<1>6. ASSUME NEW t \in Txs, t \notin Known(n) PROVE n[t].spent = {}
  <2>1. CASE t \in gone BY <2>1, <1>1, <1>2
  <2>2. CASE t \notin gone
    <3>1. t \notin Known(m) BY <2>2, <1>4, <1>6 DEF Known
    <3> QED BY <3>1, <2>2, <1>0, <1>4 DEF AbsentListsNothing
  <2> QED BY <2>1, <2>2
<1>7. MapOK(n) BY <1>3, <1>5, <1>6 DEF MapOK, Listed, AbsentListsNothing
<1> QED BY <1>7 DEF n

\* Setting a status other than "Absent" disturbs no spend.
LEMMA SetStatusOK ==
  ASSUME NEW m, MapOK(m), NEW t \in Txs, NEW st \in Statuses, st.kind # "Absent"
  PROVE  /\ MapOK([m EXCEPT ![t].status = st])
         /\ t \in Known([m EXCEPT ![t].status = st])
<1> DEFINE n == [m EXCEPT ![t].status = st]
<1>0. m \in [Txs -> Records] /\ Listed(m) /\ AbsentListsNothing(m)
  BY DEF MapOK
<1>1. n \in [Txs -> Records] BY <1>0 DEF Records
<1>2. \A u \in Txs : n[u].spend = m[u].spend /\ n[u].spent = m[u].spent
  BY <1>0 DEF Records
<1>3. n[t].status = st /\ \A u \in Txs : u # t => n[u] = m[u]
  BY <1>0 DEF Records
<1>4. t \in Known(n) /\ Known(m) \subseteq Known(n)
  BY <1>3 DEF Known
<1>5. Listed(n) BY <1>0, <1>2, <1>4 DEF Listed, Known
<1>6. AbsentListsNothing(n) BY <1>0, <1>2, <1>4 DEF AbsentListsNothing
<1> QED BY <1>1, <1>4, <1>5, <1>6 DEF MapOK

\* create_modify_get_transaction_record leaves a known record.
LEMMA CreateModifyOK ==
  ASSUME NEW m, MapOK(m), NEW t \in Txs, NEW st \in Statuses, st.kind # "Absent"
  PROVE  MapOK(CreateModify(m, t, st)) /\ t \in Known(CreateModify(m, t, st))
BY SetStatusOK DEF CreateModify, IsConfirmed, Known

\* A pending note changes neither spends nor statuses.
LEMMA AddPendingNoteOK ==
  ASSUME NEW m, MapOK(m), NEW t \in Txs, NEW st \in Statuses, st.kind # "Absent"
  PROVE  MapOK(AddPendingNote(m, t, st))
<1> DEFINE c == CreateModify(m, t, st)
           n == AddPendingNote(m, t, st)
<1>0. c \in [Txs -> Records] /\ Listed(c) /\ AbsentListsNothing(c)
  BY CreateModifyOK DEF MapOK
<1> HIDE DEF c
<1>1. n = [c EXCEPT ![t].note = IF @ = "none" THEN "pending" ELSE @]
  BY DEF AddPendingNote, c
<1> HIDE DEF n
<1>2. n \in [Txs -> Records] BY <1>0, <1>1 DEF Records
<1>3. \A u \in Txs : /\ n[u].spend = c[u].spend /\ n[u].spent = c[u].spent
                     /\ n[u].status = c[u].status
  BY <1>0, <1>1 DEF Records
<1>4. Known(n) = Known(c) BY <1>3 DEF Known
<1>5. Listed(n) /\ AbsentListsNothing(n)
  BY <1>0, <1>3, <1>4 DEF Listed, AbsentListsNothing, Known
<1>6. MapOK(n) BY <1>2, <1>5 DEF MapOK
<1> QED BY <1>6 DEF n

\* A note found in a block is overwritten as unspent.
LEMMA AddNewNoteOK ==
  ASSUME NEW m, MapOK(m), NEW t \in Txs, NEW st \in Statuses, st.kind # "Absent"
  PROVE  MapOK(AddNewNote(m, t, st))
<1> DEFINE c == CreateModify(m, t, st)
           n == AddNewNote(m, t, st)
<1>0. c \in [Txs -> Records] /\ Listed(c) /\ AbsentListsNothing(c)
  BY CreateModifyOK DEF MapOK
<1> HIDE DEF c
<1>1. n = [c EXCEPT ![t].note = "chained", ![t].spend = Unspent]
  BY DEF AddNewNote, c
<1> HIDE DEF n
<1>a. Unspent \in SpendMarks /\ Unspent.by = NoTx
  BY DEF Unspent, NoStatus, SpendMarks, Statuses, Kinds
<1>2. n \in [Txs -> Records]
  <2>1. c[t] \in Records /\ [c[t] EXCEPT !.note = "chained", !.spend = Unspent] \in Records
    BY <1>0, <1>a DEF Records
  <2>2. n = [c EXCEPT ![t] = [c[t] EXCEPT !.note = "chained", !.spend = Unspent]]
    BY <1>0, <1>1
  <2> QED BY <1>0, <2>1, <2>2
<1>3. /\ \A u \in Txs : n[u].spent = c[u].spent /\ n[u].status = c[u].status
      /\ n[t].spend = Unspent
      /\ \A u \in Txs : u # t => n[u].spend = c[u].spend
  BY <1>0, <1>1 DEF Records
<1>4. Known(n) = Known(c) BY <1>3 DEF Known
<1>5. Listed(n) /\ AbsentListsNothing(n)
  BY <1>0, <1>3, <1>4, <1>a DEF Listed, AbsentListsNothing, Known
<1>6. MapOK(n) BY <1>2, <1>5 DEF MapOK
<1> QED BY <1>6 DEF n

\* found_spent_nullifier marks the note and lists it, under one lock.
LEMMA FoundSpentOK ==
  ASSUME NEW m, MapOK(m), NEW t \in Txs, NEW st \in Statuses, st.kind # "Absent",
         NEW s \in Txs
  PROVE  MapOK(FoundSpent(m, t, st, s))
<1>1. CASE ~HasNullifier(m, s) BY <1>1 DEF FoundSpent
<1>2. CASE HasNullifier(m, s)
  <2> DEFINE mark == [by |-> t, status |-> st]
             a == [m EXCEPT ![s].spend = mark]
             c == CreateModify(a, t, st)
             n == [c EXCEPT ![t].spent = @ \cup {s}]
  <2>0. m \in [Txs -> Records] /\ Listed(m) /\ AbsentListsNothing(m)
    BY DEF MapOK
  <2>1. /\ a \in [Txs -> Records]
        /\ a[s].spend.by = t /\ \A u \in Txs : u # s => a[u].spend = m[u].spend
        /\ \A u \in Txs : a[u].status = m[u].status /\ a[u].spent = m[u].spent
    BY <2>0 DEF Records, SpendMarks
  <2> HIDE DEF a
  <2>2. /\ c \in [Txs -> Records]
        /\ c[t].status.kind # "Absent"
        /\ \A u \in Txs : c[u].spend = a[u].spend /\ c[u].spent = a[u].spent
        /\ \A u \in Txs : u # t => c[u].status = a[u].status
    <3>1. CASE c = a /\ a[t].status.kind = "Confirmed" BY <2>1, <3>1
    <3>2. CASE c = [a EXCEPT ![t].status = st] BY <2>1, <3>2 DEF Records
    <3> QED BY <3>1, <3>2 DEF CreateModify, IsConfirmed
  <2> HIDE DEF c
  <2>3. n \in [Txs -> Records] BY <2>2 DEF Records
  <2>4. /\ \A u \in Txs : n[u].status = c[u].status /\ n[u].spend = c[u].spend
        /\ n[t].spent = c[t].spent \cup {s}
        /\ \A u \in Txs : u # t => n[u].spent = c[u].spent
    BY <2>2 DEF Records
  <2>5. FoundSpent(m, t, st, s) = n BY <1>2 DEF FoundSpent, n, c, a
  <2> HIDE DEF n
  <2>6. Known(n) = Known(m) \cup {t} BY <2>1, <2>2, <2>4 DEF Known
  <2>7. Listed(n) BY <2>0, <2>1, <2>2, <2>4, <2>6 DEF Listed, Known
  <2>8. AbsentListsNothing(n) BY <2>0, <2>1, <2>2, <2>4, <2>6 DEF AbsentListsNothing
  <2> QED BY <2>3, <2>5, <2>7, <2>8 DEF MapOK
<1> QED BY <1>1, <1>2

\* update_note_spend_statuses reaches only notes that t lists; a transaction
\* without a record lists none.
LEMMA UpdateSpendStatusesOK ==
  ASSUME NEW m, MapOK(m), NEW t \in Txs, NEW st \in Statuses
  PROVE  MapOK(UpdateSpendStatuses(m, t, st))
<1> DEFINE n == UpdateSpendStatuses(m, t, st)
<1>0. m \in [Txs -> Records] /\ Listed(m) /\ AbsentListsNothing(m)
  BY DEF MapOK
<1>1. n \in [Txs -> Records]
  BY <1>0 DEF UpdateSpendStatuses, Records, SpendMarks
<1>2. /\ \A u \in Txs : n[u].status = m[u].status /\ n[u].spent = m[u].spent
      /\ \A u \in Txs : n[u].spend = m[u].spend
                        \/ (n[u].spend.by = t /\ u \in m[t].spent)
  BY <1>0 DEF UpdateSpendStatuses, Records
<1>3. Known(n) = Known(m) BY <1>2 DEF Known
<1> HIDE DEF n
<1>4. Listed(n) BY <1>0, <1>2, <1>3 DEF Listed, AbsentListsNothing, Known
<1>5. AbsentListsNothing(n) BY <1>0, <1>2, <1>3 DEF AbsentListsNothing
<1>6. MapOK(n) BY <1>1, <1>4, <1>5 DEF MapOK
<1> QED BY <1>6 DEF n
-----------------------------------------------------------------------------
(* The steps of the three writers *)

\* Every write to the record map by the synchroniser keeps it consistent.
LEMMA SyncerKeepsMap ==
  ASSUME WalletInv, Syncer
  PROVE  MapOK(records')
<1>0. /\ MapOK(records) /\ jobs \subseteq Jobs
      /\ batch \in [first : Nat, top : Nat, existing : Nat, agree : Nat,
                   mined : [Txs -> Nat]]
  BY DEF WalletInv, TypeOK
<1>1. \A t \in Txs : /\ Confirmed(batch.mined[t]) \in Statuses
                     /\ Confirmed(batch.mined[t]).kind # "Absent"
  BY <1>0 DEF Confirmed, Statuses, Kinds
<1>2. ASSUME InvalidateBlock PROVE MapOK(records')
  BY <1>0, <1>2, InvalidateOK DEF InvalidateBlock, InvalidateFrom
<1>3. CASE OneBlockReorg BY <1>2, <1>3 DEF OneBlockReorg
<1>4. CASE RollBack BY <1>2, <1>4 DEF RollBack
<1>5. CASE ReorgBlock BY <1>0, <1>5, InvalidateOK DEF ReorgBlock, InvalidateFrom
<1>6. CASE EndBatch BY <1>0, <1>6, InvalidateOK DEF EndBatch, ClearExpired
<1>7. CASE StartBatch \/ PopulateDone \/ ListNotes \/ UpdateWitnesses
  BY <1>0, <1>7 DEF StartBatch, PopulateDone, ListNotes, UpdateWitnesses
<1>8. ASSUME NEW t \in Txs, DetectNote(t) PROVE MapOK(records')
  BY <1>0, <1>1, <1>8, AddNewNoteOK DEF DetectNote
<1>9. ASSUME NEW t \in Txs, UpdateNote(t) PROVE MapOK(records')
  <2>1. CASE UNCHANGED records BY <1>0, <2>1
  <2>2. ASSUME NEW u \in Spender(t),
               records' = FoundSpent(records, u, Confirmed(batch.mined[u]), t)
        PROVE  MapOK(records')
    BY <1>0, <1>1, <2>2, FoundSpentOK DEF Spender
  <2> QED BY <1>9, <2>1, <2>2 DEF UpdateNote
<1>10. ASSUME NEW t \in Txs, ScanFullTx(t) PROVE MapOK(records')
  BY <1>0, <1>1, <1>10, CreateModifyOK DEF ScanFullTx
<1>11. ASSUME NEW j \in jobs, WorkerFails(j) PROVE MapOK(records')
  BY <1>0, <1>11 DEF WorkerFails
<1> QED BY <1>3, <1>4, <1>5, <1>6, <1>7, <1>8, <1>9, <1>10, <1>11 DEF Syncer

\* A step of scan_full_tx for a pending transaction keeps the map consistent,
\* also when another writer has removed records since the step before.
LEMMA ScanKeepsMap ==
  ASSUME MapOK(records), NEW p \in Scans, ScanReady(p), NEW q,
         Scan(p, q) \/ UpdateSpends(p)
  PROVE  MapOK(records')
<1>0. p.status \in Statuses /\ p.found \subseteq Txs
  BY DEF Scans
<1>1. CASE UNCHANGED records BY <1>1
<1>2. CASE Receipts(p)
  BY <1>0, <1>2, AddPendingNoteOK DEF Receipts, ScanReady
<1>3. ASSUME NEW s \in p.found, Mark(p, s) PROVE MapOK(records')
  BY <1>0, <1>3, FoundSpentOK DEF Mark, ScanReady
<1>4. CASE UpdateSpends(p)
  BY <1>0, <1>4, UpdateSpendStatusesOK DEF UpdateSpends, ScanReady
<1> QED BY <1>1, <1>2, <1>3, <1>4 DEF Scan, Nullifiers

\* Every write by the mempool monitor keeps the map consistent.
LEMMA MonitorKeepsMap ==
  ASSUME WalletInv, Monitor
  PROVE  MapOK(records')
<1>0. MapOK(records) /\ monitor \in Scans /\ ScanReady(monitor)
  BY DEF WalletInv, TypeOK
<1>1. CASE MonitorScans \/ MonitorUpdates
  BY <1>0, <1>1, ScanKeepsMap DEF MonitorScans, MonitorUpdates
<1>2. CASE MonitorUpgrades
  <2>1. /\ monitor.tx \in Txs /\ monitor.status.kind # "Absent"
        /\ monitor.status \in Statuses
    BY <1>0, <1>2 DEF MonitorUpgrades, ScanReady, Scans
  <2> DEFINE a == [records EXCEPT ![monitor.tx].status = monitor.status]
  <2>2. MapOK(a) BY <1>0, <2>1, SetStatusOK
  <2> HIDE DEF a
  <2>3. MapOK(UpdateSpendStatuses(a, monitor.tx, monitor.status))
    BY <2>1, <2>2, UpdateSpendStatusesOK
  <2> QED BY <1>0, <1>2, <2>3 DEF MonitorUpgrades, a
<1>3. CASE MonitorLooksUp \/ \E t \in Txs : MonitorReceives(t)
  BY <1>0, <1>3 DEF MonitorLooksUp, MonitorReceives
<1> QED BY <1>1, <1>2, <1>3 DEF Monitor

\* Every write by the sender keeps the map consistent.
LEMMA SenderKeepsMap ==
  ASSUME WalletInv, Sender
  PROVE  MapOK(records')
<1>0. MapOK(records) /\ sender \in Scans /\ ScanReady(sender)
  BY DEF WalletInv, TypeOK
<1>1. CASE SenderScans \/ SenderUpdates
  BY <1>0, <1>1, ScanKeepsMap DEF SenderScans, SenderUpdates
<1>2. ASSUME NEW t \in Txs, SendTransaction(t) PROVE MapOK(records')
  <2>1. sender.status.kind # "Absent" /\ sender.status \in Statuses
    BY <1>0, <1>2 DEF SendTransaction, Sends, ScanReady, Scans
  <2> DEFINE a == [records EXCEPT ![t].status = sender.status]
  <2>2. MapOK(a) BY <1>0, <2>1, SetStatusOK
  <2> HIDE DEF a
  <2>3. MapOK(UpdateSpendStatuses(a, t, sender.status))
    BY <2>1, <2>2, UpdateSpendStatusesOK
  <2> QED BY <1>2, <2>3 DEF SendTransaction, a
<1>3. CASE UNCHANGED records BY <1>0, <1>3
<1> QED
  BY <1>1, <1>2, <1>3 DEF Sender, Propose, CreateTransaction, RecordCreated,
     HeightFails, BeginBroadcast, SkipTransaction, BroadcastDone, SendFails
-----------------------------------------------------------------------------
(* The other variables.  Control is the part of the invariant that is not   *)
(* about the record map.                                                    *)

ChainType ==
  /\ tip \in Nat /\ agree \in Nat /\ forks \in Nat
  /\ mined \in [Txs -> Nat] /\ mempool \subseteq Txs

BlocksType == top \in Nat /\ floor \in Nat /\ anchor \in Nat /\ oldest \in Nat

SyncType ==
  /\ sync \in {"idle", "reorg", "work"}
  /\ batch \in [first : Nat, top : Nat, existing : Nat, agree : Nat,
                mined : [Txs -> Nat]]
  /\ jobs \subseteq Jobs
  /\ failed \in BOOLEAN
  /\ sync # "idle" => batch.first >= 1

MonitorType == monitor \in Scans /\ ScanReady(monitor)

SenderType ==
  /\ sender \in Scans /\ ScanReady(sender)
  /\ proposal \in Seq(Txs) /\ cache \in Seq(Txs)
  /\ created \subseteq Txs

Control == ChainType /\ BlocksType /\ SyncType /\ MonitorType /\ SenderType

\* WalletInv is the record map and the control.
LEMMA InvSplits == WalletInv <=> MapOK(records) /\ Control
BY DEF WalletInv, TypeOK, MapOK, Control, ChainType, BlocksType, SyncType,
       MonitorType, SenderType

\* The steps of the server.
LEMMA ServerControl ==
  ASSUME Control, Server
  PROVE  Control'
<1>0. ChainType /\ BlocksType /\ SyncType /\ MonitorType /\ SenderType
  BY DEF Control
<1>1. UNCHANGED <<blocks, monitor, sending>>
  BY DEF Server, Submit, Evict, Mine, Reorg
<1>2. (BlocksType /\ MonitorType /\ SenderType)'
  BY <1>0, <1>1 DEF BlocksType, MonitorType, SenderType, blocks, trees, sending
<1>3. ASSUME NEW t \in Txs, Submit(t) \/ Evict(t) PROVE (ChainType /\ SyncType)'
  BY <1>0, <1>3 DEF Submit, Evict, ChainType, SyncType, syncing
<1>4. ASSUME NEW B \in SUBSET mempool, Mine(B) PROVE (ChainType /\ SyncType)'
  BY <1>0, <1>4 DEF Mine, ChainType, SyncType, syncing
<1>5. ASSUME NEW h \in 1..(tip - 1), Reorg(h) PROVE (ChainType /\ SyncType)'
  BY <1>0, <1>5 DEF Reorg, ChainType, SyncType, Min2
<1> QED BY <1>2, <1>3, <1>4, <1>5 DEF Server, Control

\* The steps of the synchroniser; a batch that has started has a first block
\* above the birthday, so that popping blocks stays within the naturals.
LEMMA SyncerControl ==
  ASSUME Control, Syncer
  PROVE  Control'
<1>0. ChainType /\ BlocksType /\ SyncType /\ MonitorType /\ SenderType
  BY DEF Control
<1>1. UNCHANGED <<tip, mined, mempool, forks, monitor, sending>>
  BY DEF Syncer, OneBlockReorg, StartBatch, ReorgBlock, PopulateDone, ListNotes,
         UpdateWitnesses, EndBatch, RollBack, DetectNote, UpdateNote, ScanFullTx,
         WorkerFails, chain
<1>2. (MonitorType /\ SenderType)'
  BY <1>0, <1>1 DEF MonitorType, SenderType, sending
<1>n. NoBatch.agree \in Nat /\ NoBatch \in [first : Nat, top : Nat, existing : Nat,
                                           agree : Nat, mined : [Txs -> Nat]]
  BY DEF NoBatch
<1>j. /\ ListJob \in Jobs /\ WitnessJob \in Jobs
      /\ \A t \in Txs : NoteJob(t) \in Jobs /\ SpendJob(t) \in Jobs /\ FullJob(t) \in Jobs
  BY DEF Jobs, ListJob, WitnessJob, NoteJob, SpendJob, FullJob
<1>t. ASSUME InvalidateBlock PROVE BlocksType'
  BY <1>0, <1>t DEF InvalidateBlock, TruncateTrees, BlocksType, blocks, trees
<1>3. CASE OneBlockReorg
  BY <1>0, <1>2, <1>3, <1>t DEF OneBlockReorg, Control, ChainType, SyncType, chain, syncing
<1>4. CASE RollBack
  BY <1>0, <1>2, <1>4, <1>t, <1>n DEF RollBack, Control, ChainType, SyncType, chain
<1>5. CASE StartBatch
  <2>1. BlocksType' BY <1>0, <1>5 DEF StartBatch, BlocksType, SyncType, TruncateTrees
  <2>2. ChainType' BY <1>0, <1>5 DEF StartBatch, ChainType, chain
  <2>3. SyncType'
    BY <1>0, <1>5 DEF StartBatch, SyncType, ChainType, BlocksType, Min2
  <2> QED BY <1>2, <2>1, <2>2, <2>3 DEF Control
<1>6. CASE ReorgBlock
  BY <1>0, <1>2, <1>6 DEF ReorgBlock, Control, ChainType, SyncType, BlocksType,
     TruncateTrees, chain
<1>7. CASE PopulateDone
  <2>1. jobs' \subseteq Jobs BY <1>7, <1>j, WalletAssumption DEF PopulateDone
  <2> QED
    BY <1>0, <1>2, <1>7, <2>1 DEF PopulateDone, Control, ChainType, SyncType,
       BlocksType, chain, blocks, trees
<1>8. CASE ListNotes
  <2>1. jobs' \subseteq Jobs
    BY <1>0, <1>8, <1>j DEF ListNotes, SyncType, NotesForUpdating
  <2> QED
    BY <1>0, <1>2, <1>8, <2>1 DEF ListNotes, Control, ChainType, SyncType,
       BlocksType, chain, blocks, trees
<1>9. CASE UpdateWitnesses
  BY <1>0, <1>2, <1>9 DEF UpdateWitnesses, Control, ChainType, SyncType, BlocksType, chain
<1>10. CASE EndBatch
  BY <1>0, <1>2, <1>10, <1>n, RecordsAssumption DEF EndBatch, Control, ChainType,
     SyncType, BlocksType, SaturatingSub, trees
<1>11. ASSUME NEW t \in Txs, DetectNote(t) \/ UpdateNote(t) \/ ScanFullTx(t)
       PROVE  Control'
  <2>1. jobs' \subseteq Jobs
    BY <1>0, <1>11, <1>j DEF DetectNote, UpdateNote, ScanFullTx, SyncType, Spender
  <2>2. failed' \in BOOLEAN
    BY <1>0, <1>11 DEF DetectNote, UpdateNote, ScanFullTx, SyncType
  <2>3. UNCHANGED <<chain, blocks, sync, batch>>
    BY <1>11 DEF DetectNote, UpdateNote, ScanFullTx
  <2> QED
    BY <1>0, <1>2, <2>1, <2>2, <2>3 DEF Control, ChainType, SyncType, BlocksType,
       chain, blocks, trees
<1>12. ASSUME NEW j \in jobs, WorkerFails(j) PROVE Control'
  BY <1>0, <1>2, <1>12 DEF WorkerFails, Control, ChainType, SyncType, BlocksType,
     chain, blocks, trees
<1> QED
  BY <1>3, <1>4, <1>5, <1>6, <1>7, <1>8, <1>9, <1>10, <1>11, <1>12 DEF Syncer

\* A scan keeps its transaction and its status until it is done.
LEMMA ScanControl ==
  ASSUME NEW p \in Scans, ScanReady(p), NEW q, Scan(p, q)
  PROVE  q \in Scans /\ ScanReady(q)
<1>0. p.pc \in {"receipts", "nullifiers", "mark"}
  BY DEF Scan, Receipts, Nullifiers, Mark
<1>1. p.tx \in Txs /\ p.status.kind # "Absent"
  BY <1>0 DEF ScanReady
<1>2. /\ q.pc \in {"nullifiers", "mark", "update"} /\ q.found \subseteq Txs
      /\ q = [p EXCEPT !.pc = q.pc, !.found = q.found]
  BY DEF Scan, Receipts, Nullifiers, Mark, UnspentNullifiers, Scans
<1>3. q \in Scans BY <1>2 DEF Scans, Pcs
<1>4. q.tx = p.tx /\ q.status = p.status BY <1>2 DEF Scans
<1> QED BY <1>1, <1>2, <1>3, <1>4 DEF ScanReady

\* A task that is idle is well typed.
LEMMA IdleControl == Idle \in Scans /\ ScanReady(Idle)
BY DEF Idle, Scans, Pcs, NoStatus, Statuses, Kinds, ScanReady

\* The steps of the mempool monitor.
LEMMA MonitorControl ==
  ASSUME Control, Monitor
  PROVE  Control'
<1>0. ChainType /\ BlocksType /\ SyncType /\ MonitorType /\ SenderType
  BY DEF Control
<1>1. UNCHANGED <<chain, blocks, syncing, sending>>
  BY DEF Monitor, MonitorReceives, MonitorLooksUp, MonitorUpgrades, MonitorScans,
         MonitorUpdates
<1>2. (ChainType /\ BlocksType /\ SyncType /\ SenderType)'
  BY <1>0, <1>1 DEF ChainType, BlocksType, SyncType, SenderType, chain, blocks,
     trees, syncing, sending
<1>3. MonitorType'
  <2>0. monitor \in Scans /\ ScanReady(monitor) BY <1>0 DEF MonitorType
  <2>1. ASSUME NEW t \in Txs, MonitorReceives(t) PROVE MonitorType'
    <3>1. Mempool(tip + 1) \in Statuses /\ Mempool(tip + 1).kind # "Absent"
      BY <1>0 DEF ChainType, Mempool, Statuses, Kinds
    <3>2. monitor' = [pc |-> "received", tx |-> t, status |-> Mempool(tip + 1),
                      found |-> {}, todo |-> << >>]
      BY <2>1 DEF MonitorReceives, Idle
    <3>3. << >> \in Seq(Txs) OBVIOUS
    <3>4. monitor' \in Scans BY <3>1, <3>2, <3>3 DEF Scans, Pcs
    <3>5. ScanReady(monitor') BY <3>1, <3>2 DEF ScanReady
    <3> QED BY <3>4, <3>5 DEF MonitorType, ScanReady
  <2>2. CASE MonitorLooksUp
    <3>1. monitor.tx \in Txs /\ monitor.status.kind # "Absent"
      BY <2>0, <2>2 DEF MonitorLooksUp, ScanReady
    <3>2. \/ monitor' = Idle
          \/ monitor' = [monitor EXCEPT !.pc = "upgrade"]
          \/ monitor' = [monitor EXCEPT !.pc = "receipts"]
          \/ monitor' = [monitor EXCEPT !.pc = "nullifiers"]
      BY <2>2 DEF MonitorLooksUp, FirstStep
    <3> QED
      BY <2>0, <3>1, <3>2, IdleControl DEF MonitorType, Scans, Pcs, ScanReady
  <2>3. CASE MonitorUpgrades
    <3>1. monitor' = Idle \/ monitor' = [monitor EXCEPT !.pc = "panicked"]
      BY <2>3 DEF MonitorUpgrades
    <3> QED BY <2>0, <3>1, IdleControl DEF MonitorType, Scans, Pcs, ScanReady
  <2>4. CASE MonitorScans
    BY <2>0, <2>4, ScanControl DEF MonitorScans, MonitorType
  <2>5. CASE MonitorUpdates BY <2>5, IdleControl DEF MonitorUpdates, MonitorType
  <2> QED BY <2>1, <2>2, <2>3, <2>4, <2>5 DEF Monitor
<1> QED BY <1>2, <1>3 DEF Control

\* The next scan of a list of transactions is ready.
LEMMA NextScanControl ==
  ASSUME NEW todo \in Seq(Txs), NEW st \in Statuses, st.kind # "Absent"
  PROVE  NextScan(todo, st) \in Scans /\ ScanReady(NextScan(todo, st))
<1>1. CASE todo = << >>
  BY <1>1, IdleControl DEF NextScan, Idle, Scans, Pcs, ScanReady
<1>2. CASE todo # << >>
  <2>1. Head(todo) \in Txs /\ Tail(todo) \in Seq(Txs) BY <1>2
  <2> QED BY <1>2, <2>1 DEF NextScan, FirstStep, Scans, Pcs, ScanReady
<1> QED BY <1>1, <1>2

\* The steps of the sender.
LEMMA SenderControl ==
  ASSUME Control, Sender
  PROVE  Control'
<1>0. ChainType /\ BlocksType /\ SyncType /\ MonitorType /\ SenderType
  BY DEF Control
<1>1. UNCHANGED <<tip, mined, agree, forks, blocks, syncing, monitor>>
  BY DEF Sender, Propose, CreateTransaction, RecordCreated, HeightFails, SenderScans,
         SenderUpdates, BeginBroadcast, SkipTransaction, BroadcastDone,
         SendTransaction, SendFails, chain
<1>2. (BlocksType /\ SyncType /\ MonitorType)'
  BY <1>0, <1>1 DEF BlocksType, SyncType, MonitorType, blocks, trees, syncing
<1>3. mempool' \subseteq Txs
  BY <1>0 DEF Sender, Propose, CreateTransaction, RecordCreated, HeightFails,
     SenderScans, SenderUpdates, BeginBroadcast, SkipTransaction, BroadcastDone,
     SendTransaction, SendFails, chain, ChainType
<1>4. ChainType' BY <1>0, <1>1, <1>3 DEF ChainType
<1>5. SenderType'
  <2>0. /\ sender \in Scans /\ ScanReady(sender)
        /\ proposal \in Seq(Txs) /\ cache \in Seq(Txs)
        /\ created \subseteq Txs
        /\ tip \in Nat
    BY <1>0 DEF SenderType, ChainType
  <2>1. ASSUME NEW p \in Proposals, Propose(p) \/ CreateTransaction(p)
        PROVE  SenderType'
    <3>1. p \in Seq(Txs) BY WalletAssumption
    <3>2. CASE Propose(p) BY <2>0, <3>1, <3>2 DEF Propose, SenderType
    <3>3. CASE CreateTransaction(p)
      <4>1. sender' \in Scans /\ ScanReady(sender)'
        BY <3>3, IdleControl DEF CreateTransaction, Idle, Scans, Pcs, ScanReady
      <4>2. cache' \in Seq(Txs) BY <2>0, <3>1, <3>3 DEF CreateTransaction
      <4>3. created' \subseteq Txs BY <2>0, <3>1, <3>3 DEF CreateTransaction
      <4> QED
        BY <2>0, <3>3, <4>1, <4>2, <4>3 DEF CreateTransaction, SenderType
    <3> QED BY <2>1, <3>2, <3>3
  <2>2. CASE RecordCreated
    <3>1. Calculated(tip + 1) \in Statuses /\ Calculated(tip + 1).kind # "Absent"
      BY <2>0 DEF Calculated, Statuses, Kinds
    <3> QED BY <2>0, <2>2, <3>1, NextScanControl DEF RecordCreated, SenderType
  <2>3. CASE HeightFails BY <2>0, <2>3, IdleControl DEF HeightFails, SenderType
  <2>4. CASE SenderScans BY <2>0, <2>4, ScanControl DEF SenderScans, SenderType
  <2>5. CASE SenderUpdates
    <3>1. /\ sender.status \in Statuses /\ sender.status.kind # "Absent"
          /\ sender.todo \in Seq(Txs)
      BY <2>0, <2>5 DEF SenderUpdates, UpdateSpends, Scans, ScanReady
    <3> QED BY <2>0, <2>5, <3>1, NextScanControl DEF SenderUpdates, SenderType
  <2>6. CASE BeginBroadcast
    <3>1. Transmitted(tip + 1) \in Statuses /\ Transmitted(tip + 1).kind # "Absent"
      BY <2>0 DEF Transmitted, Statuses, Kinds
    <3>2. sender' \in Scans /\ ScanReady(sender)'
      BY <2>0, <2>6, <3>1, IdleControl DEF BeginBroadcast, Idle, Scans, Pcs, ScanReady
    <3> QED BY <2>0, <2>6, <3>2 DEF BeginBroadcast, SenderType
  <2>7. ASSUME sender.todo # << >>, sender' = [sender EXCEPT !.todo = Tail(@)],
               sender.pc = "broadcast"
        PROVE  sender' \in Scans /\ ScanReady(sender)'
    <3>1. Tail(sender.todo) \in Seq(Txs) BY <2>0, <2>7 DEF Scans
    <3> QED BY <2>0, <2>7, <3>1 DEF Scans, ScanReady
  <2>8. CASE SkipTransaction BY <2>0, <2>7, <2>8 DEF SkipTransaction, SenderType
  <2>9. ASSUME NEW t \in Txs, SendTransaction(t) PROVE SenderType'
    BY <2>0, <2>7, <2>9 DEF SendTransaction, Sends, SenderType
  <2>10. ASSUME NEW t \in Txs, SendFails(t) PROVE SenderType'
    BY <2>0, <2>10, IdleControl DEF SendFails, SenderType
  <2>11. CASE BroadcastDone
    <3>1. << >> \in Seq(Txs) OBVIOUS
    <3> QED BY <2>0, <2>11, <3>1, IdleControl DEF BroadcastDone, SenderType
  <2> QED
    BY <2>1, <2>2, <2>3, <2>4, <2>5, <2>6, <2>8, <2>9, <2>10, <2>11 DEF Sender
<1> QED BY <1>2, <1>4, <1>5 DEF Control
-----------------------------------------------------------------------------
(* The theorems *)

\* WalletInv holds initially and is kept by every step of the server, the
\* synchroniser, the monitor and the sender.
THEOREM WalletInvariant == Spec => []WalletInv
<1>1. Init => WalletInv
  <2> SUFFICES ASSUME Init PROVE WalletInv OBVIOUS
  <2>1. NoRecord \in Records /\ NoRecord.spend.by = NoTx /\ NoRecord.spent = {}
    BY DEF NoRecord, Unspent, NoStatus, Records, SpendMarks, Statuses, Kinds
  <2>2. records \in [Txs -> Records] /\ \A t \in Txs : records[t] = NoRecord
    BY <2>1 DEF Init
  <2>3. MapOK(records) BY <2>1, <2>2 DEF MapOK, Listed, AbsentListsNothing
  <2>4. << >> \in Seq(Txs) OBVIOUS
  <2>5. NoBatch \in [first : Nat, top : Nat, existing : Nat, agree : Nat,
                    mined : [Txs -> Nat]]
    BY DEF NoBatch
  <2>6. Control
    <3>1. ChainType /\ BlocksType BY DEF Init, ChainType, BlocksType
    <3>2. SyncType BY <2>5 DEF Init, SyncType
    <3>3. MonitorType BY IdleControl DEF Init, MonitorType
    <3>4. SenderType BY <2>4, IdleControl DEF Init, SenderType
    <3> QED BY <3>1, <3>2, <3>3, <3>4 DEF Control
  <2> QED BY <2>3, <2>6, InvSplits
<1>2. WalletInv /\ [Next]_vars => WalletInv'
  <2> SUFFICES ASSUME WalletInv, [Next]_vars PROVE MapOK(records') /\ Control'
    BY DEF WalletInv, TypeOK, MapOK, Control, ChainType, BlocksType, SyncType,
       MonitorType, SenderType, Listed, AbsentListsNothing, Known, ScanReady
  <2>0. MapOK(records) /\ Control BY InvSplits
  <2>1. CASE Server
    <3>1. UNCHANGED records BY <2>1 DEF Server, Submit, Evict, Mine, Reorg
    <3> QED BY <2>0, <2>1, <3>1, ServerControl
  <2>2. CASE Syncer BY <2>0, <2>2, SyncerKeepsMap, SyncerControl
  <2>3. CASE Monitor BY <2>0, <2>3, MonitorKeepsMap, MonitorControl
  <2>4. CASE Sender BY <2>0, <2>4, SenderKeepsMap, SenderControl
  <2>5. CASE UNCHANGED vars
    BY <2>0, <2>5 DEF vars, chain, blocks, trees, syncing, sending, Control,
       ChainType, BlocksType, SyncType, MonitorType, SenderType
  <2> QED BY <2>1, <2>2, <2>3, <2>4, <2>5 DEF Next
<1> QED BY <1>1, <1>2, PTL DEF Spec

\* Every variable keeps its type, with chains of any length and any set of
\* transactions.
THEOREM WalletTypeCorrect == Spec => []TypeOK
<1>1. WalletInv => TypeOK BY DEF WalletInv
<1> QED BY <1>1, WalletInvariant, PTL

\* A note that is marked as spent always names a recorded transaction whose
\* record lists it, whatever reorganisations, rollbacks, expiry and pending
\* scans do to the record in between.
THEOREM SpendsStayListed == Spec => []SpendIsListed
<1>1. WalletInv => SpendIsListed
  BY DEF WalletInv, MapOK, Listed, SpendIsListed
<1> QED BY <1>1, WalletInvariant, PTL
-----------------------------------------------------------------------------
(* What each operation on the record map changes *)

\* A status is written to t, but a pending one never over a confirmed one.
StatusSet(m, n, t, st) ==
  \A u \in Txs : n[u].status = IF u = t /\ ~(IsConfirmed(m[u].status) /\ ~IsConfirmed(st))
                               THEN st ELSE m[u].status

\* create_modify_get_transaction_record writes the status alone.
LEMMA CreateModifyEffect ==
  ASSUME NEW m \in [Txs -> Records], NEW t \in Txs, NEW st \in Statuses
  PROVE  LET n == CreateModify(m, t, st) IN
         /\ n \in [Txs -> Records] /\ StatusSet(m, n, t, st)
         /\ \A u \in Txs : n[u].note = m[u].note /\ n[u].spend = m[u].spend /\ n[u].spent = m[u].spent
<1>1. CASE IsConfirmed(m[t].status) /\ ~IsConfirmed(st)
  BY <1>1 DEF CreateModify, StatusSet
<1>2. CASE ~(IsConfirmed(m[t].status) /\ ~IsConfirmed(st))
  <2>1. CreateModify(m, t, st) = [m EXCEPT ![t].status = st]
    BY <1>2 DEF CreateModify
  <2>2. [m EXCEPT ![t].status = st] \in [Txs -> Records]
    BY DEF Records
  <2>3. \A u \in Txs : u # t => [m EXCEPT ![t].status = st][u] = m[u]
    OBVIOUS
  <2>4. /\ [m EXCEPT ![t].status = st][t].status = st
        /\ [m EXCEPT ![t].status = st][t].note = m[t].note
        /\ [m EXCEPT ![t].status = st][t].spend = m[t].spend
        /\ [m EXCEPT ![t].status = st][t].spent = m[t].spent
    BY DEF Records
  <2> QED BY <1>2, <2>1, <2>2, <2>3, <2>4 DEF StatusSet
<1> QED BY <1>1, <1>2

\* The receipt of a pending note leaves spends alone, and a note with a nullifier.
LEMMA AddPendingNoteEffect ==
  ASSUME NEW m \in [Txs -> Records], NEW t \in Txs, NEW st \in Statuses
  PROVE  LET n == AddPendingNote(m, t, st) IN
         /\ StatusSet(m, n, t, st)
         /\ \A u \in Txs : /\ n[u].spend = m[u].spend /\ n[u].spent = m[u].spent
                           /\ m[u].note = "chained" => n[u].note = "chained"
<1> DEFINE c == CreateModify(m, t, st)
           n == AddPendingNote(m, t, st)
<1>0. /\ c \in [Txs -> Records] /\ StatusSet(m, c, t, st)
      /\ \A u \in Txs : c[u].note = m[u].note /\ c[u].spend = m[u].spend /\ c[u].spent = m[u].spent
  BY CreateModifyEffect
<1>1. n = [c EXCEPT ![t].note = IF @ = "none" THEN "pending" ELSE @]
  BY DEF AddPendingNote
<1> HIDE DEF c, n
<1>2. \A u \in Txs : /\ n[u].spend = c[u].spend /\ n[u].spent = c[u].spent /\ n[u].status = c[u].status
                     /\ c[u].note = "chained" => n[u].note = "chained"
  BY <1>0, <1>1 DEF Records
<1>3. StatusSet(m, n, t, st)
  BY <1>0, <1>2 DEF StatusSet
<1>4. QED BY <1>0, <1>2, <1>3 DEF n

\* A note that is found in a block has a nullifier and is unspent.
LEMMA AddNewNoteEffect ==
  ASSUME NEW m \in [Txs -> Records], NEW t \in Txs, NEW st \in Statuses
  PROVE  LET n == AddNewNote(m, t, st) IN
         /\ StatusSet(m, n, t, st)
         /\ n[t].note = "chained" /\ n[t].spend = Unspent
         /\ \A u \in Txs : /\ n[u].spent = m[u].spent
                           /\ u # t => n[u].note = m[u].note /\ n[u].spend = m[u].spend
<1> DEFINE c == CreateModify(m, t, st)
           n == AddNewNote(m, t, st)
<1>0. /\ c \in [Txs -> Records] /\ StatusSet(m, c, t, st)
      /\ \A u \in Txs : c[u].note = m[u].note /\ c[u].spend = m[u].spend /\ c[u].spent = m[u].spent
  BY CreateModifyEffect
<1>1. n = [c EXCEPT ![t].note = "chained", ![t].spend = Unspent]
  BY DEF AddNewNote
<1> HIDE DEF c, n
<1>2. /\ \A u \in Txs : n[u].spent = c[u].spent /\ n[u].status = c[u].status
      /\ n[t].note = "chained" /\ n[t].spend = Unspent
      /\ \A u \in Txs : u # t => n[u] = c[u]
  BY <1>0, <1>1 DEF Records
<1>3. StatusSet(m, n, t, st)
  BY <1>0, <1>2 DEF StatusSet
<1>4. QED BY <1>0, <1>2, <1>3 DEF n

\* A spend is written to the note, and the note to the list of the spender.
LEMMA FoundSpentEffect ==
  ASSUME NEW m \in [Txs -> Records], NEW t \in Txs, NEW st \in Statuses, NEW s \in Txs,
         m[s].note = "chained"
  PROVE  LET n == FoundSpent(m, t, st, s) IN
         /\ StatusSet(m, n, t, st)
         /\ n[s].spend = [by |-> t, status |-> st]
         /\ n[t].spent = m[t].spent \cup {s}
         /\ \A u \in Txs : /\ n[u].note = m[u].note
                           /\ u # s => n[u].spend = m[u].spend
                           /\ u # t => n[u].spent = m[u].spent
<1> DEFINE mark == [by |-> t, status |-> st]
           a == [m EXCEPT ![s].spend = mark]
           c == CreateModify(a, t, st)
           n == FoundSpent(m, t, st, s)
<1>1. /\ a \in [Txs -> Records] /\ a[s].spend = mark
      /\ \A u \in Txs : u # s => a[u].spend = m[u].spend
      /\ \A u \in Txs : a[u].status = m[u].status /\ a[u].spent = m[u].spent /\ a[u].note = m[u].note
  BY DEF Records, SpendMarks
<1> HIDE DEF a
<1>2. /\ c \in [Txs -> Records] /\ StatusSet(a, c, t, st)
      /\ \A u \in Txs : c[u].note = a[u].note /\ c[u].spend = a[u].spend /\ c[u].spent = a[u].spent
  BY <1>1, CreateModifyEffect
<1>3. n = [c EXCEPT ![t].spent = @ \cup {s}]
  BY DEF FoundSpent, HasNullifier, a
<1> HIDE DEF c, n
<1>4. /\ \A u \in Txs : n[u].status = c[u].status /\ n[u].spend = c[u].spend /\ n[u].note = c[u].note
      /\ n[t].spent = c[t].spent \cup {s}
      /\ \A u \in Txs : u # t => n[u].spent = c[u].spent
  BY <1>2, <1>3 DEF Records
<1>5. StatusSet(m, n, t, st)
  BY <1>1, <1>2, <1>4 DEF StatusSet
<1>6. QED BY <1>1, <1>2, <1>4, <1>5 DEF n

\* update_note_spend_statuses writes the spends that t lists.
LEMMA UpdateSpendsEffect ==
  ASSUME NEW m \in [Txs -> Records], NEW t \in Txs, NEW st \in Statuses
  PROVE  LET n == UpdateSpendStatuses(m, t, st) IN
         \A u \in Txs :
           /\ n[u].status = m[u].status /\ n[u].note = m[u].note /\ n[u].spent = m[u].spent
           /\ n[u].spend = IF u \in m[t].spent /\ m[u].note = "chained"
                           THEN [by |-> t, status |-> st] ELSE m[u].spend
BY DEF UpdateSpendStatuses, Records, HasNullifier

\* Setting a status, whatever it was.
LEMMA SetStatusEffect ==
  ASSUME NEW m \in [Txs -> Records], NEW t \in Txs, NEW st \in Statuses
  PROVE  LET n == [m EXCEPT ![t].status = st] IN
         /\ n \in [Txs -> Records] /\ n[t].status = st
         /\ \A u \in Txs : /\ u # t => n[u].status = m[u].status
                           /\ n[u].note = m[u].note /\ n[u].spend = m[u].spend /\ n[u].spent = m[u].spent
BY DEF Records

\* Removal: what is not removed loses at most a spend by something that is.
LEMMA InvalidateEffect ==
  ASSUME NEW m \in [Txs -> Records], NEW gone
  PROVE  LET n == Invalidate(m, gone) IN
         \A u \in Txs :
           /\ u \in gone => n[u] = NoRecord
           /\ u \notin gone =>
                /\ n[u].status = m[u].status /\ n[u].note = m[u].note /\ n[u].spent = m[u].spent
                /\ n[u].spend = IF m[u].spend.by \in gone THEN Unspent ELSE m[u].spend
BY DEF Invalidate, Records
-----------------------------------------------------------------------------
(* The chain and the batch.  TraceInv needs no condition: it says what the    *)
(* server's chain, the snapshot a batch has of it and the jobs have to do     *)
(* with each other.                                                           *)

\* The height up to which the wallet's blocks and the server's are the same.
Common == Min2(agree, top)

OnServer(t) == mined[t] > 0 \/ t \in mempool

\* Nothing is mined above the tip, no note is spent twice, and a spend is not
\* below its note.
ServerInv ==
  /\ tip > 0
  /\ \A t \in Txs : mined[t] =< tip /\ (t \in mempool => mined[t] = 0)
  /\ \A t, u \in Txs : t # u /\ OnServer(t) /\ OnServer(u) => Spends[t] \cap Spends[u] = {}
  /\ \A t \in Txs : mined[t] > 0 => \A s \in Spends[t] : mined[s] > 0 /\ mined[s] =< mined[t]

AgreeInv == agree =< tip /\ (top > 0 => agree > 0)

\* The heights of a batch against those of the wallet and of the server.
BatchHeights ==
  /\ batch.first =< top + 1 /\ top < batch.top /\ batch.existing =< top
  /\ batch.agree =< tip /\ batch.agree =< batch.top /\ batch.agree > 0
  /\ agree >= batch.first - 1 \/ agree >= batch.agree
  /\ agree =< batch.first - 1 \/ batch.first = top + 1

\* The transactions of a batch are those the server had in its blocks.
BatchTxs ==
  /\ \A t \in Txs : batch.mined[t] > 0 =>
       /\ batch.first =< batch.mined[t] /\ batch.mined[t] =< batch.top
       /\ batch.mined[t] =< batch.agree => mined[t] = batch.mined[t]
       /\ mined[t] = 0 \/ mined[t] > Common
  /\ \A t \in Txs : mined[t] >= batch.first /\ mined[t] =< batch.agree => batch.mined[t] = mined[t]
  /\ \A t, u \in Txs :
       /\ t # u /\ batch.mined[t] > 0
       /\ batch.mined[u] > 0 \/ (mined[u] > 0 /\ mined[u] =< Common)
       => Spends[t] \cap Spends[u] = {}

BatchFacts == sync # "idle" => BatchHeights /\ BatchTxs

\* The types that the arithmetic needs.
LEMMA WalletTypes ==
  ASSUME WalletInv
  PROVE  /\ tip \in Nat /\ agree \in Nat /\ forks \in Nat /\ top \in Nat /\ floor \in Nat
         /\ mined \in [Txs -> Nat] /\ mempool \subseteq Txs
         /\ batch.first \in Nat /\ batch.top \in Nat /\ batch.existing \in Nat /\ batch.agree \in Nat
         /\ batch.mined \in [Txs -> Nat]
         /\ sync \in {"idle", "reorg", "work"} /\ (sync # "idle" => batch.first >= 1)
         /\ records \in [Txs -> Records]
         /\ Spends \in [Txs -> SUBSET Txs] /\ Pays \subseteq Txs
         /\ \A t \in Txs : Spends[t] \subseteq Pays
BY WalletAssumption DEF WalletInv, TypeOK

\* Everything but the server's own steps and the sender's leaves the chain alone.
LEMMA ChainUntouched ==
  ASSUME Syncer \/ Monitor
  PROVE  UNCHANGED <<tip, mined, mempool, forks>>
BY DEF Syncer, OneBlockReorg, StartBatch, ReorgBlock, PopulateDone, ListNotes,
       UpdateWitnesses, EndBatch, RollBack, DetectNote, UpdateNote, ScanFullTx,
       WorkerFails, Monitor, MonitorReceives, MonitorLooksUp, MonitorUpgrades,
       MonitorScans, MonitorUpdates, chain

\* The sender gives the server at most one transaction more, which it accepts.
LEMMA SenderGives ==
  ASSUME Sender
  PROVE  /\ UNCHANGED <<tip, mined, agree, forks, blocks, syncing, monitor>>
         /\ \/ UNCHANGED mempool
            \/ \E t \in Txs : Acceptable(t) /\ mempool' = mempool \cup {t}
<1>1. UNCHANGED <<tip, mined, agree, forks, blocks, syncing, monitor>>
  BY DEF Sender, Propose, CreateTransaction, RecordCreated, HeightFails, SenderScans,
         SenderUpdates, BeginBroadcast, SkipTransaction, BroadcastDone,
         SendTransaction, SendFails, chain
<1>2. ASSUME NEW t \in Txs, SendTransaction(t) \/ SendFails(t)
      PROVE  UNCHANGED mempool \/ (Acceptable(t) /\ mempool' = mempool \cup {t})
  <2>1. CASE SendTransaction(t) BY <2>1 DEF SendTransaction
  <2>2. CASE SendFails(t)
    <3>1. UNCHANGED mempool \/ (Acceptable(t) /\ mempool' \in {mempool, mempool \cup {t}})
      BY <2>2, Zenon DEF SendFails
    <3> QED BY <3>1
  <2> QED BY <1>2, <2>1, <2>2
<1>3. (\E t \in Txs : SendTransaction(t) \/ SendFails(t)) \/ UNCHANGED mempool
  BY DEF Sender, Propose, CreateTransaction, RecordCreated, HeightFails, SenderScans,
         SenderUpdates, BeginBroadcast, SkipTransaction, BroadcastDone, chain
<1> QED BY <1>1, <1>2, <1>3

\* A transaction that the server accepts joins the mempool.
LEMMA AcceptKeepsServer ==
  ASSUME WalletInv, ServerInv, NEW t \in Txs, Acceptable(t), mempool' = mempool \cup {t},
         UNCHANGED <<tip, mined>>
  PROVE  ServerInv'
<1>0. /\ tip \in Nat /\ mined \in [Txs -> Nat] /\ mempool \subseteq Txs
      /\ Spends \in [Txs -> SUBSET Txs]
  BY WalletTypes
<1>1. ASSUME NEW a \in Txs, NEW b \in Txs, a # b, OnServer(a)', OnServer(b)'
      PROVE  Spends[a] \cap Spends[b] = {}
  <2>1. (OnServer(a) \/ a = t) /\ (OnServer(b) \/ b = t)
    BY <1>1 DEF OnServer
  <2>2. CASE OnServer(a) /\ OnServer(b) BY <1>1, <2>2 DEF ServerInv
  <2>3. CASE a = t /\ OnServer(b)
    <3>1. ~(mined[b] = 0 /\ b \notin mempool) BY <1>0, <2>3 DEF OnServer
    <3>2. ~(Spends[b] \cap Spends[t] # {}) BY <1>1, <2>3, <3>1 DEF Acceptable
    <3> QED BY <2>3, <3>2
  <2>4. CASE b = t /\ OnServer(a)
    <3>1. ~(mined[a] = 0 /\ a \notin mempool) BY <1>0, <2>4 DEF OnServer
    <3>2. ~(Spends[a] \cap Spends[t] # {}) BY <1>1, <2>4, <3>1 DEF Acceptable
    <3> QED BY <2>4, <3>2
  <2> QED BY <1>1, <2>1, <2>2, <2>3, <2>4
<1>2. \A a \in Txs : a \in mempool' => mined'[a] = 0
  BY DEF Acceptable, ServerInv
<1> QED BY <1>1, <1>2 DEF ServerInv

\* ServerInv is kept by every step.
LEMMA ServerInvStep ==
  ASSUME WalletInv, ServerInv, [Next]_vars
  PROVE  ServerInv'
<1>0. /\ tip \in Nat /\ mined \in [Txs -> Nat] /\ mempool \subseteq Txs
      /\ Spends \in [Txs -> SUBSET Txs]
  BY WalletTypes
<1>1. ASSUME UNCHANGED <<tip, mined, mempool>> PROVE ServerInv'
  BY <1>1 DEF ServerInv, OnServer
<1>2. ASSUME NEW t \in Txs, Submit(t) PROVE ServerInv'
  BY <1>2, AcceptKeepsServer DEF Submit
<1>3. ASSUME NEW t \in Txs, Evict(t) PROVE ServerInv'
  BY <1>3 DEF Evict, ServerInv, OnServer
<1>4. ASSUME NEW B \in SUBSET mempool, Mine(B) PROVE ServerInv'
  <2>1. /\ tip' = tip + 1 /\ mempool' = mempool \ B
        /\ mined' = [t \in Txs |-> IF t \in B THEN tip + 1 ELSE mined[t]]
        /\ \A t \in B : \A s \in Spends[t] : mined[s] > 0 \/ s \in B
    BY <1>4 DEF Mine
  <2>2. \A t \in Txs : OnServer(t)' => OnServer(t)
    BY <1>0, <2>1 DEF OnServer
  <2>3. \A t \in Txs : mined'[t] =< tip' /\ (t \in mempool' => mined'[t] = 0)
    BY <1>0, <2>1 DEF ServerInv
  <2>4. ASSUME NEW t \in Txs, mined'[t] > 0, NEW s \in Spends[t] PROVE mined'[s] > 0 /\ mined'[s] =< mined'[t]
    <3>1. s \in Txs BY <1>0
    <3>2. CASE t \in B BY <1>0, <2>1, <3>1, <3>2 DEF ServerInv
    <3>3. CASE t \notin B
      <4>1. mined[t] > 0 /\ mined[s] > 0 /\ mined[s] =< mined[t] BY <1>0, <2>1, <2>4, <3>3 DEF ServerInv
      <4>2. s \notin B BY <1>0, <3>1, <4>1 DEF ServerInv
      <4> QED BY <2>1, <3>1, <3>3, <4>1, <4>2
    <3> QED BY <3>2, <3>3
  <2>5. tip' > 0 BY <1>0, <2>1
  <2> QED BY <2>2, <2>3, <2>4, <2>5 DEF ServerInv
<1>5. ASSUME NEW h \in 1..(tip - 1), Reorg(h) PROVE ServerInv'
  <2>1. /\ tip' = h /\ mempool' = mempool \cup {t \in Txs : mined[t] > h}
        /\ mined' = [t \in Txs |-> IF mined[t] > h THEN 0 ELSE mined[t]]
    BY <1>5 DEF Reorg
  <2>2. \A t \in Txs : OnServer(t)' => OnServer(t)
    BY <1>0, <2>1 DEF OnServer
  <2>3. \A t \in Txs : mined'[t] =< tip' /\ (t \in mempool' => mined'[t] = 0)
    BY <1>0, <2>1 DEF ServerInv
  <2>4. ASSUME NEW t \in Txs, mined'[t] > 0, NEW s \in Spends[t] PROVE mined'[s] > 0 /\ mined'[s] =< mined'[t]
    <3>1. s \in Txs BY <1>0
    <3>2. mined[t] > 0 /\ mined[t] =< h /\ mined'[t] = mined[t] BY <1>0, <2>1, <2>4
    <3>3. mined[s] > 0 /\ mined[s] =< mined[t] BY <3>2 DEF ServerInv
    <3> QED BY <1>0, <2>1, <3>1, <3>2, <3>3
  <2>5. tip' > 0 BY <2>1
  <2> QED BY <2>2, <2>3, <2>4, <2>5 DEF ServerInv
<1>6. CASE Syncer \/ Monitor BY <1>1, <1>6, ChainUntouched
<1>7. CASE Sender BY <1>1, <1>7, SenderGives, AcceptKeepsServer
<1>8. CASE UNCHANGED vars BY <1>1, <1>8 DEF vars, chain
<1> QED BY <1>2, <1>3, <1>4, <1>5, <1>6, <1>7, <1>8 DEF Next, Server

\* The workers of a batch and everybody but the server and the main task leave the
\* heights and the batch alone.
LEMMA HeightsUntouched ==
  ASSUME \/ ListNotes \/ UpdateWitnesses \/ Monitor \/ Sender
         \/ \E t \in Txs : DetectNote(t) \/ UpdateNote(t) \/ ScanFullTx(t)
         \/ \E j \in jobs : WorkerFails(j)
  PROVE  UNCHANGED <<tip, mined, agree, forks, top, floor, sync, batch>>
<1>1. CASE Sender BY <1>1, SenderGives DEF blocks, syncing
<1>2. CASE Monitor
  BY <1>2 DEF Monitor, MonitorReceives, MonitorLooksUp, MonitorUpgrades, MonitorScans,
              MonitorUpdates, chain, blocks, syncing
<1> QED BY <1>1, <1>2 DEF ListNotes, UpdateWitnesses, DetectNote, UpdateNote, ScanFullTx, WorkerFails,
                          chain, blocks

\* The server mines: the new transactions are above everything that is compared.
LEMMA MineHeights ==
  ASSUME WalletInv, ServerInv, AgreeInv, BatchFacts, NEW B \in SUBSET mempool, Mine(B)
  PROVE  AgreeInv' /\ BatchFacts'
<1>0. /\ tip \in Nat /\ mined \in [Txs -> Nat] /\ mempool \subseteq Txs /\ agree \in Nat /\ top \in Nat
      /\ batch.first \in Nat /\ batch.agree \in Nat /\ batch.mined \in [Txs -> Nat]
  BY WalletTypes
<1>1. /\ tip' = tip + 1 /\ UNCHANGED <<agree, forks, top, floor, sync, batch>>
      /\ mined' = [t \in Txs |-> IF t \in B THEN tip + 1 ELSE mined[t]]
  BY DEF Mine, blocks, syncing
<1>2. AgreeInv' BY <1>0, <1>1 DEF AgreeInv
<1>3. ASSUME sync # "idle" PROVE BatchHeights' /\ BatchTxs'
  <2>0. BatchHeights /\ BatchTxs BY <1>3 DEF BatchFacts
  <2>1. BatchHeights' BY <1>0, <1>1, <2>0 DEF BatchHeights
  <2>2. Common' = Common /\ Common \in Nat /\ Common =< agree /\ Common =< tip /\ batch.agree =< tip
    BY <1>0, <1>1, <2>0 DEF Common, Min2, AgreeInv, BatchHeights
  <2>3. \A t \in Txs : \/ mined'[t] = mined[t]
                       \/ mined[t] = 0 /\ mined'[t] > Common /\ mined'[t] > batch.agree
    BY <1>0, <1>1, <2>2 DEF ServerInv
  <2>4. \A t \in Txs : mined'[t] \in Nat BY <1>0, <1>1
  <2> HIDE DEF Common
  <2>5. BatchTxs' BY <1>0, <1>1, <2>0, <2>2, <2>3, <2>4 DEF BatchTxs
  <2> QED BY <2>1, <2>5
<1> QED BY <1>1, <1>2, <1>3 DEF BatchFacts

\* A reorganisation lowers what is compared at least as far as it goes.
LEMMA ReorgHeights ==
  ASSUME WalletInv, ServerInv, AgreeInv, BatchFacts, NEW h \in 1..(tip - 1), Reorg(h)
  PROVE  AgreeInv' /\ BatchFacts'
<1>0. /\ tip \in Nat /\ mined \in [Txs -> Nat] /\ agree \in Nat /\ top \in Nat /\ h \in Nat /\ h > 0
      /\ batch.first \in Nat /\ batch.agree \in Nat /\ batch.mined \in [Txs -> Nat]
      /\ batch.top \in Nat /\ batch.existing \in Nat
  BY WalletTypes
<1>1. /\ tip' = h /\ UNCHANGED <<top, sync>> /\ agree' = Min2(agree, h)
      /\ mined' = [t \in Txs |-> IF mined[t] > h THEN 0 ELSE mined[t]]
      /\ batch' = [batch EXCEPT !.agree = Min2(@, h)]
  BY DEF Reorg, blocks
<1>2. AgreeInv' BY <1>0, <1>1 DEF AgreeInv, Min2
<1>3. ASSUME sync # "idle" PROVE BatchHeights' /\ BatchTxs'
  <2>0. BatchHeights /\ BatchTxs BY <1>3 DEF BatchFacts
  <2>1. /\ batch'.first = batch.first /\ batch'.top = batch.top /\ batch'.existing = batch.existing
        /\ batch'.mined = batch.mined /\ batch'.agree = Min2(batch.agree, h)
    BY <1>1 DEF WalletInv, TypeOK
  <2>2. BatchHeights' BY <1>0, <1>1, <2>0, <2>1 DEF BatchHeights, Min2
  <2>3. /\ Common' \in Nat /\ Common' =< Common /\ Common' =< h /\ Common \in Nat
        /\ batch'.agree =< batch.agree /\ batch'.agree =< h /\ batch'.agree \in Nat
    BY <1>0, <1>1, <2>1 DEF Common, Min2
  <2>4. \A t \in Txs : \/ mined'[t] = mined[t] /\ mined[t] =< h
                       \/ mined'[t] = 0 /\ mined[t] > h
    BY <1>0, <1>1
  <2> HIDE DEF Common
  <2>5. BatchTxs'
    <3>1. ASSUME NEW t \in Txs, batch'.mined[t] > 0
          PROVE  /\ batch'.first =< batch'.mined[t] /\ batch'.mined[t] =< batch'.top
                 /\ batch'.mined[t] =< batch'.agree => mined'[t] = batch'.mined[t]
                 /\ mined'[t] = 0 \/ mined'[t] > Common'
      BY <1>0, <2>0, <2>1, <2>3, <2>4, <3>1 DEF BatchTxs
    <3>2. ASSUME NEW t \in Txs, mined'[t] >= batch'.first, mined'[t] =< batch'.agree
          PROVE  batch'.mined[t] = mined'[t]
      <4>1. batch.first >= 1 BY <1>3, WalletTypes
      <4> QED BY <1>0, <2>0, <2>1, <2>3, <2>4, <3>2, <4>1 DEF BatchTxs
    <3>3. ASSUME NEW t \in Txs, NEW u \in Txs, t # u, batch'.mined[t] > 0,
                 batch'.mined[u] > 0 \/ (mined'[u] > 0 /\ mined'[u] =< Common')
          PROVE  Spends[t] \cap Spends[u] = {}
      BY <1>0, <2>0, <2>1, <2>3, <2>4, <3>3 DEF BatchTxs
    <3> QED BY <3>1, <3>2, <3>3 DEF BatchTxs
  <2> QED BY <2>2, <2>5
<1> QED BY <1>1, <1>2, <1>3 DEF BatchFacts

\* A batch takes a snapshot of the server's chain.
LEMMA StartHeights ==
  ASSUME WalletInv, ServerInv, AgreeInv, StartBatch
  PROVE  AgreeInv' /\ BatchFacts'
<1>0. /\ tip \in Nat /\ mined \in [Txs -> Nat] /\ agree \in Nat /\ top \in Nat
  BY WalletTypes
<1>1. /\ UNCHANGED <<tip, mined, agree, top>> /\ tip > top
      /\ batch' = [first |-> Min2(agree, top) + 1, top |-> tip, existing |-> top,
                   agree |-> tip,
                   mined |-> [t \in Txs |-> IF mined[t] > Min2(agree, top)
                                          THEN mined[t] ELSE 0]]
  BY DEF StartBatch, chain
<1>2. Common' = Common /\ Common = Min2(agree, top) /\ Common \in Nat
  BY <1>0, <1>1 DEF Common, Min2
<1>3. /\ batch'.first = Common + 1 /\ batch'.top = tip /\ batch'.existing = top /\ batch'.agree = tip
      /\ batch'.mined = [t \in Txs |-> IF mined[t] > Common THEN mined[t] ELSE 0]
  BY <1>1, <1>2
<1>4. BatchHeights' BY <1>0, <1>1, <1>2, <1>3 DEF BatchHeights, Min2, AgreeInv, ServerInv
<1> HIDE DEF Common
<1>5. BatchTxs'
  <2>1. \A t \in Txs : \/ batch'.mined[t] = mined[t] /\ mined[t] > Common /\ mined[t] =< tip
                       \/ batch'.mined[t] = 0 /\ mined[t] =< Common
    BY <1>0, <1>2, <1>3 DEF ServerInv
  <2>2. \A t \in Txs : mined[t] > 0 => OnServer(t) BY DEF OnServer
  <2>3. ASSUME NEW t \in Txs, NEW u \in Txs, t # u, batch'.mined[t] > 0,
               batch'.mined[u] > 0 \/ (mined'[u] > 0 /\ mined'[u] =< Common')
        PROVE  Spends[t] \cap Spends[u] = {}
    BY <1>0, <1>1, <1>2, <2>1, <2>2, <2>3 DEF ServerInv
  <2>4. \A t \in Txs : batch'.mined[t] > 0 =>
          /\ batch'.first =< batch'.mined[t] /\ batch'.mined[t] =< batch'.top
          /\ batch'.mined[t] =< batch'.agree => mined'[t] = batch'.mined[t]
          /\ mined'[t] = 0 \/ mined'[t] > Common'
    BY <1>0, <1>1, <1>2, <1>3, <2>1
  <2>5. \A t \in Txs : mined'[t] >= batch'.first /\ mined'[t] =< batch'.agree => batch'.mined[t] = mined'[t]
    BY <1>0, <1>1, <1>2, <1>3, <2>1
  <2> QED BY <2>3, <2>4, <2>5 DEF BatchTxs
<1>6. AgreeInv' BY <1>1 DEF AgreeInv
<1> QED BY <1>4, <1>5, <1>6 DEF BatchFacts

\* Every step keeps the heights and the batch in line with the server.
LEMMA HeightsStep ==
  ASSUME WalletInv, ServerInv, AgreeInv, BatchFacts, [Next]_vars
  PROVE  AgreeInv' /\ BatchFacts'
<1>0. tip \in Nat /\ agree \in Nat /\ top \in Nat /\ floor \in Nat /\ batch.existing \in Nat /\ batch.first \in Nat
  BY WalletTypes
<1>1. ASSUME UNCHANGED <<tip, mined, agree, top, sync, batch>> PROVE AgreeInv' /\ BatchFacts'
  <2>1. Common' = Common BY <1>1 DEF Common
  <2> QED BY <1>1, <2>1 DEF AgreeInv, BatchFacts, BatchHeights, BatchTxs
<1>2. ASSUME NEW t \in Txs, Submit(t) \/ Evict(t) PROVE AgreeInv' /\ BatchFacts'
  BY <1>1, <1>2 DEF Submit, Evict, blocks, syncing
<1>3. CASE OneBlockReorg \/ RollBack
  <2>1. UNCHANGED <<tip, agree>> /\ sync' = "idle" /\ InvalidateBlock
    BY <1>3 DEF OneBlockReorg, RollBack, chain, syncing
  <2>2. top' > 0 => top > 0
    BY <1>0, <2>1 DEF InvalidateBlock, blocks
  <2> QED BY <2>1, <2>2 DEF AgreeInv, BatchFacts
<1>4. CASE EndBatch
  <2>1. UNCHANGED tip /\ sync = "work" /\ sync' = "idle" /\ agree' = batch.agree
    BY <1>4 DEF EndBatch
  <2> QED BY <2>1 DEF BatchFacts, BatchHeights, AgreeInv
<1>5. CASE ReorgBlock
  <2>1. /\ UNCHANGED <<tip, mined, agree, top, sync>> /\ sync = "reorg" /\ batch.existing >= batch.first
        /\ batch' = [batch EXCEPT !.existing = @ - 1]
    BY <1>5 DEF ReorgBlock, chain
  <2>2. /\ batch'.first = batch.first /\ batch'.top = batch.top /\ batch'.agree = batch.agree
        /\ batch'.mined = batch.mined /\ batch'.existing = batch.existing - 1
    BY <2>1 DEF WalletInv, TypeOK
  <2>3. Common' = Common BY <2>1 DEF Common
  <2>4. BatchHeights /\ BatchTxs BY <2>1 DEF BatchFacts
  <2>5. BatchHeights' BY <1>0, <2>1, <2>2, <2>4 DEF BatchHeights
  <2>6. BatchTxs' BY <2>1, <2>2, <2>3, <2>4 DEF BatchTxs
  <2> QED BY <2>1, <2>5, <2>6 DEF AgreeInv, BatchFacts
<1>6. CASE PopulateDone
  <2>1. UNCHANGED <<tip, mined, agree, top, batch>> /\ sync = "reorg"
    BY <1>6 DEF PopulateDone, chain, blocks
  <2>2. Common' = Common BY <2>1 DEF Common
  <2> QED BY <2>1, <2>2 DEF AgreeInv, BatchFacts, BatchHeights, BatchTxs
<1>7. CASE Server BY <1>2, <1>7, MineHeights, ReorgHeights DEF Server
<1>8. CASE StartBatch BY <1>8, StartHeights
<1>9. CASE \/ ListNotes \/ UpdateWitnesses \/ Monitor \/ Sender
           \/ \E t \in Txs : DetectNote(t) \/ UpdateNote(t) \/ ScanFullTx(t)
           \/ \E j \in jobs : WorkerFails(j)
  BY <1>1, <1>9, HeightsUntouched
<1>10. CASE UNCHANGED vars BY <1>1, <1>10 DEF vars, chain, blocks, syncing
<1> QED BY <1>3, <1>4, <1>5, <1>6, <1>7, <1>8, <1>9, <1>10 DEF Next, Syncer
-----------------------------------------------------------------------------
(* The jobs of a batch and the scans *)

\* A job is of the batch that runs; one that looks for the spend of a note finds
\* the note.
JobInv ==
  /\ jobs # {} => sync = "work"
  /\ \A t \in Txs : NoteJob(t) \in jobs \/ FullJob(t) \in jobs => batch.mined[t] > 0
  /\ \A s \in Txs : SpendJob(s) \in jobs => s \in Known(records) /\ HasNullifier(records, s)

ListsSpends == \A u \in Txs : records[u].spent \subseteq Spends[u]

\* A scan of a pending transaction carries a pending status and notes it spends.
ScanTrue(p) == ~IsConfirmed(p.status) /\ p.found \subseteq Spends[p.tx]

\* What the monitor and the sender may do to the map: nothing is confirmed by
\* them, no record and no note is removed, and a spend is written only for a
\* transaction that does spend the note.
PendingWrite(m, n) ==
  \A u \in Txs :
    /\ m[u].note = "chained" => n[u].note = "chained"
    /\ u \in Known(m) => u \in Known(n)
    /\ IsConfirmed(n[u].status) => n[u].status = m[u].status
    /\ n[u].spent \subseteq Spends[u]
    /\ \/ n[u].spend = m[u].spend
       \/ /\ ~IsConfirmed(n[u].spend.status) /\ n[u].spend.by \in Txs
          /\ u \in Spends[n[u].spend.by]

KeepsConfirmed(m, n) == \A u \in Txs : IsConfirmed(m[u].status) => n[u].status = m[u].status

\* A map that is not written.
LEMMA NoWrite ==
  ASSUME ListsSpends, UNCHANGED records
  PROVE  PendingWrite(records, records') /\ KeepsConfirmed(records, records')
BY DEF ListsSpends, PendingWrite, KeepsConfirmed

\* The update of the spends that a pending transaction lists.
LEMMA UpdateWrites ==
  ASSUME NEW m \in [Txs -> Records], \A u \in Txs : m[u].spent \subseteq Spends[u],
         NEW t \in Txs, NEW st \in Statuses, ~IsConfirmed(st)
  PROVE  LET n == UpdateSpendStatuses(m, t, st) IN PendingWrite(m, n) /\ KeepsConfirmed(m, n)
<1> DEFINE n == UpdateSpendStatuses(m, t, st)
<1>1. \A u \in Txs :
           /\ n[u].status = m[u].status /\ n[u].note = m[u].note /\ n[u].spent = m[u].spent
           /\ n[u].spend = IF u \in m[t].spent /\ m[u].note = "chained"
                           THEN [by |-> t, status |-> st] ELSE m[u].spend
  BY UpdateSpendsEffect
<1> HIDE DEF n
<1>2. KeepsConfirmed(m, n) BY <1>1 DEF KeepsConfirmed
<1>3. ASSUME NEW u \in Txs
      PROVE  \/ n[u].spend = m[u].spend
             \/ ~IsConfirmed(n[u].spend.status) /\ n[u].spend.by \in Txs /\ u \in Spends[n[u].spend.by]
  BY <1>1
<1>4. PendingWrite(m, n) BY <1>1, <1>3 DEF PendingWrite, Known
<1> QED BY <1>2, <1>4 DEF n

\* A step of a scan.
LEMMA ScanWrites ==
  ASSUME records \in [Txs -> Records], ListsSpends, NEW p \in Scans, ScanReady(p), ScanTrue(p), NEW q,
         Scan(p, q) \/ UpdateSpends(p)
  PROVE  PendingWrite(records, records') /\ KeepsConfirmed(records, records')
<1>0. p.status \in Statuses /\ p.found \subseteq Txs /\ ~IsConfirmed(p.status) /\ p.found \subseteq Spends[p.tx]
  BY DEF Scans, ScanTrue
<1>1. CASE UNCHANGED records BY <1>1, NoWrite
<1>2. CASE Receipts(p)
  <2>1. p.tx \in Txs /\ p.status.kind # "Absent" /\ records' = AddPendingNote(records, p.tx, p.status)
    BY <1>2 DEF Receipts, ScanReady
  <2>2. /\ StatusSet(records, records', p.tx, p.status)
        /\ \A u \in Txs : /\ records'[u].spend = records[u].spend /\ records'[u].spent = records[u].spent
                          /\ records[u].note = "chained" => records'[u].note = "chained"
    BY <1>0, <2>1, AddPendingNoteEffect
  <2> QED BY <1>0, <2>1, <2>2 DEF StatusSet, PendingWrite, KeepsConfirmed, Known, ListsSpends
<1>3. ASSUME NEW s \in p.found, Mark(p, s) PROVE PendingWrite(records, records') /\ KeepsConfirmed(records, records')
  <2>1. /\ p.tx \in Txs /\ p.status.kind # "Absent" /\ s \in Txs /\ s \in Spends[p.tx]
        /\ records' = FoundSpent(records, p.tx, p.status, s)
    BY <1>0, <1>3 DEF Mark, ScanReady
  <2>2. CASE ~HasNullifier(records, s)
    BY <2>1, <2>2, NoWrite DEF FoundSpent
  <2>3. CASE HasNullifier(records, s)
    <3>1. /\ StatusSet(records, records', p.tx, p.status)
          /\ records'[s].spend = [by |-> p.tx, status |-> p.status]
          /\ records'[p.tx].spent = records[p.tx].spent \cup {s}
          /\ \A u \in Txs : /\ records'[u].note = records[u].note
                            /\ u # s => records'[u].spend = records[u].spend
                            /\ u # p.tx => records'[u].spent = records[u].spent
      BY <1>0, <2>1, <2>3, FoundSpentEffect DEF HasNullifier
    <3>2. KeepsConfirmed(records, records')
      BY <1>0, <3>1 DEF KeepsConfirmed, StatusSet
    <3>3. ASSUME NEW u \in Txs
          PROVE  /\ IsConfirmed(records'[u].status) => records'[u].status = records[u].status
                 /\ u \in Known(records) => u \in Known(records')
                 /\ records'[u].spent \subseteq Spends[u]
      BY <1>0, <2>1, <3>1 DEF StatusSet, Known, ListsSpends
    <3>4. ASSUME NEW u \in Txs
          PROVE  \/ records'[u].spend = records[u].spend
                 \/ /\ ~IsConfirmed(records'[u].spend.status) /\ records'[u].spend.by \in Txs
                    /\ u \in Spends[records'[u].spend.by]
      BY <1>0, <2>1, <3>1
    <3> QED BY <3>1, <3>2, <3>3, <3>4 DEF PendingWrite
  <2> QED BY <2>2, <2>3
<1>4. CASE UpdateSpends(p)
  BY <1>0, <1>4, UpdateWrites DEF UpdateSpends, ScanReady, ListsSpends
<1> QED BY <1>1, <1>2, <1>3, <1>4 DEF Scan, Nullifiers

\* A status that is written without a look at the old one, then the spends.
LEMMA StatusWrites ==
  ASSUME NEW m \in [Txs -> Records], \A u \in Txs : m[u].spent \subseteq Spends[u],
         NEW t \in Txs, NEW st \in Statuses, ~IsConfirmed(st), st.kind # "Absent"
  PROVE  LET n == UpdateSpendStatuses([m EXCEPT ![t].status = st], t, st) IN
         PendingWrite(m, n) /\ (~IsConfirmed(m[t].status) => KeepsConfirmed(m, n))
<1> DEFINE a == [m EXCEPT ![t].status = st]
           n == UpdateSpendStatuses(a, t, st)
<1>1. /\ a \in [Txs -> Records] /\ a[t].status = st
      /\ \A u \in Txs : /\ u # t => a[u].status = m[u].status
                        /\ a[u].note = m[u].note /\ a[u].spend = m[u].spend /\ a[u].spent = m[u].spent
  BY SetStatusEffect
<1> HIDE DEF a
<1>2. PendingWrite(a, n) /\ KeepsConfirmed(a, n)
  BY <1>1, UpdateWrites
<1>b. \A u \in Txs : n[u].status = a[u].status
  BY <1>1, UpdateSpendsEffect
<1> HIDE DEF n
<1>3. PendingWrite(m, n) BY <1>1, <1>2, <1>b DEF PendingWrite, Known
<1>4. ASSUME ~IsConfirmed(m[t].status) PROVE KeepsConfirmed(m, n)
  BY <1>1, <1>b, <1>4 DEF KeepsConfirmed
<1> QED BY <1>3, <1>4 DEF n, a

\* The monitor writes pending state only, but it may write it over a confirmation.
LEMMA MonitorWrites ==
  ASSUME WalletInv, ListsSpends, ScanTrue(monitor), Monitor
  PROVE  PendingWrite(records, records')
<1>0. monitor \in Scans /\ ScanReady(monitor) /\ records \in [Txs -> Records]
  BY DEF WalletInv, TypeOK
<1>1. CASE MonitorScans \/ MonitorUpdates
  BY <1>0, <1>1, ScanWrites DEF MonitorScans, MonitorUpdates
<1>2. CASE MonitorUpgrades
  <2>1. /\ monitor.tx \in Txs /\ monitor.status.kind # "Absent"
        /\ monitor.status \in Statuses /\ ~IsConfirmed(monitor.status)
    BY <1>0, <1>2 DEF MonitorUpgrades, ScanReady, Scans, ScanTrue
  <2>2. CASE UNCHANGED records BY <2>2, NoWrite
  <2> QED BY <1>0, <1>2, <2>1, <2>2, StatusWrites DEF MonitorUpgrades, ListsSpends
<1>3. CASE MonitorLooksUp \/ \E t \in Txs : MonitorReceives(t)
  BY <1>3, NoWrite DEF MonitorLooksUp, MonitorReceives
<1> QED BY <1>1, <1>2, <1>3 DEF Monitor

\* The sender leaves what is confirmed as it is.
LEMMA SenderWrites ==
  ASSUME WalletInv, ListsSpends, ScanTrue(sender), Sender
  PROVE  PendingWrite(records, records') /\ KeepsConfirmed(records, records')
<1>0. sender \in Scans /\ ScanReady(sender) /\ records \in [Txs -> Records]
  BY DEF WalletInv, TypeOK
<1>1. CASE SenderScans \/ SenderUpdates
  BY <1>0, <1>1, ScanWrites DEF SenderScans, SenderUpdates
<1>2. ASSUME NEW t \in Txs, SendTransaction(t) PROVE PendingWrite(records, records') /\ KeepsConfirmed(records, records')
  <2>1. /\ sender.status.kind # "Absent" /\ sender.status \in Statuses /\ ~IsConfirmed(sender.status)
        /\ records[t].status.kind = "Calculated"
    BY <1>0, <1>2 DEF SendTransaction, Sends, ScanReady, Scans, ScanTrue
  <2>2. ~IsConfirmed(records[t].status) BY <2>1 DEF IsConfirmed
  <2> QED BY <1>0, <1>2, <2>1, <2>2, StatusWrites DEF SendTransaction, ListsSpends
<1>3. CASE UNCHANGED records BY <1>3, NoWrite
<1> QED
  BY <1>1, <1>2, <1>3 DEF Sender, Propose, CreateTransaction, RecordCreated,
     HeightFails, BeginBroadcast, SkipTransaction, BroadcastDone, SendFails

\* A task without a scan.
LEMMA IdleTrue == ScanTrue(Idle)
BY DEF Idle, ScanTrue, NoStatus, IsConfirmed

\* A scan looks for the notes its transaction spends, and keeps its status.
LEMMA ScanTrueKept ==
  ASSUME NEW p \in Scans, ScanTrue(p), NEW q, Scan(p, q)
  PROVE  ScanTrue(q)
<1>1. /\ q.found \subseteq p.found \/ q.found \subseteq Spends[p.tx]
      /\ q = [p EXCEPT !.pc = q.pc, !.found = q.found]
  BY DEF Scan, Receipts, Nullifiers, Mark, Scans
<1>2. q.tx = p.tx /\ q.status = p.status
  BY <1>1 DEF Scans
<1> QED BY <1>1, <1>2 DEF ScanTrue

\* The next scan has found nothing yet.
LEMMA NextScanTrue ==
  ASSUME NEW todo, NEW st, ~IsConfirmed(st)
  PROVE  ScanTrue(NextScan(todo, st))
BY DEF NextScan, Idle, NoStatus, ScanTrue, IsConfirmed

\* The monitor's and the sender's scans.
LEMMA ScansStep ==
  ASSUME WalletInv, ScanTrue(monitor), ScanTrue(sender), [Next]_vars
  PROVE  ScanTrue(monitor') /\ ScanTrue(sender')
<1>0. monitor \in Scans /\ sender \in Scans
  BY DEF WalletInv, TypeOK
<1>1. CASE Server \/ Syncer \/ UNCHANGED vars
  <2>1. UNCHANGED <<monitor, sender>>
    BY <1>1 DEF Server, Submit, Evict, Mine, Reorg, Syncer, OneBlockReorg, StartBatch, ReorgBlock,
       PopulateDone, ListNotes, UpdateWitnesses, EndBatch, RollBack, DetectNote, UpdateNote, ScanFullTx,
       WorkerFails, vars, sending
  <2> QED BY <2>1
<1>2. CASE Monitor
  <2>1. UNCHANGED sender
    BY <1>2 DEF Monitor, MonitorReceives, MonitorLooksUp, MonitorUpgrades, MonitorScans,
                MonitorUpdates, sending
  <2>2. ASSUME NEW t \in Txs, MonitorReceives(t) PROVE ScanTrue(monitor')
    <3>1. monitor' = [pc |-> "received", tx |-> t, status |-> Mempool(tip + 1), found |-> {}, todo |-> << >>]
      BY <2>2 DEF MonitorReceives, Idle
    <3> QED BY <3>1 DEF ScanTrue, Mempool, IsConfirmed
  <2>3. ASSUME NEW pc, monitor' = [monitor EXCEPT !.pc = pc] PROVE ScanTrue(monitor')
    BY <1>0, <2>3 DEF ScanTrue, Scans
  <2>4. CASE MonitorLooksUp \/ MonitorUpgrades \/ MonitorUpdates
    <3>1. monitor' = Idle \/ \E pc \in Pcs : monitor' = [monitor EXCEPT !.pc = pc]
      BY <2>4 DEF MonitorLooksUp, MonitorUpgrades, MonitorUpdates, FirstStep, Pcs
    <3> QED BY <2>1, <2>3, <3>1, IdleTrue
  <2>5. CASE MonitorScans BY <1>0, <2>1, <2>5, ScanTrueKept DEF MonitorScans
  <2> QED BY <1>2, <2>1, <2>2, <2>4, <2>5 DEF Monitor
<1>3. CASE Sender
  <2>1. UNCHANGED monitor BY <1>3, SenderGives
  <2>2. ASSUME NEW p, CreateTransaction(p) PROVE ScanTrue(sender')
    BY <2>2 DEF CreateTransaction, Idle, NoStatus, ScanTrue, IsConfirmed
  <2>3. CASE RecordCreated
    BY <2>3, NextScanTrue DEF RecordCreated, Calculated, IsConfirmed
  <2>4. CASE SenderUpdates
    BY <2>4, NextScanTrue DEF SenderUpdates, ScanTrue
  <2>5. CASE SenderScans BY <1>0, <2>5, ScanTrueKept DEF SenderScans
  <2>6. CASE BeginBroadcast
    BY <2>6 DEF BeginBroadcast, Idle, ScanTrue, Transmitted, IsConfirmed
  <2>7. CASE HeightFails \/ BroadcastDone \/ \E t \in Txs : SendFails(t)
    BY <2>7, IdleTrue DEF HeightFails, BroadcastDone, SendFails
  <2>8. ASSUME sender' = [sender EXCEPT !.todo = Tail(@)] PROVE ScanTrue(sender')
    BY <1>0, <2>8 DEF ScanTrue, Scans
  <2>9. CASE SkipTransaction \/ \E t \in Txs : SendTransaction(t)
    BY <2>8, <2>9 DEF SkipTransaction, SendTransaction
  <2>10. CASE UNCHANGED sender BY <2>1, <2>10
  <2> QED BY <1>3, <2>1, <2>2, <2>3, <2>4, <2>5, <2>6, <2>7, <2>9, <2>10 DEF Sender, Propose
<1> QED BY <1>1, <1>2, <1>3 DEF Next

\* Removing records takes lists with it.
LEMMA InvalidateLists ==
  ASSUME records \in [Txs -> Records], ListsSpends, NEW gone, records' = Invalidate(records, gone)
  PROVE  ListsSpends'
<1>1. \A u \in Txs : records'[u] = NoRecord \/ records'[u].spent = records[u].spent
  BY InvalidateEffect
<1> QED BY <1>1 DEF ListsSpends, NoRecord

\* The status that a worker of a batch writes.
LEMMA BatchStatus ==
  ASSUME WalletInv, NEW t \in Txs
  PROVE  /\ Confirmed(batch.mined[t]) \in Statuses /\ IsConfirmed(Confirmed(batch.mined[t]))
         /\ Confirmed(batch.mined[t]).kind = "Confirmed" /\ Confirmed(batch.mined[t]).height = batch.mined[t]
BY WalletTypes DEF Confirmed, Statuses, Kinds, IsConfirmed

\* The effect of a worker that finds a note.
LEMMA DetectNoteEffect ==
  ASSUME WalletInv, NEW t \in Txs, DetectNote(t)
  PROVE  /\ records'[t].status = Confirmed(batch.mined[t])
         /\ records'[t].note = "chained" /\ records'[t].spend = Unspent
         /\ \A v \in Txs : records'[v].spent = records[v].spent
         /\ \A v \in Txs : v # t => /\ records'[v].status = records[v].status
                                    /\ records'[v].note = records[v].note
                                    /\ records'[v].spend = records[v].spend
<1> DEFINE st == Confirmed(batch.mined[t])
<1>0. records \in [Txs -> Records] /\ st \in Statuses /\ IsConfirmed(st)
  BY WalletTypes, BatchStatus
<1>1. records' = AddNewNote(records, t, st) BY DEF DetectNote
<1> HIDE DEF st
<1>2. /\ StatusSet(records, records', t, st)
      /\ records'[t].note = "chained" /\ records'[t].spend = Unspent
      /\ \A u \in Txs : /\ records'[u].spent = records[u].spent
                        /\ u # t => records'[u].note = records[u].note /\ records'[u].spend = records[u].spend
  BY <1>0, <1>1, AddNewNoteEffect
<1>3. records'[t].status = st /\ \A v \in Txs : v # t => records'[v].status = records[v].status
  BY <1>0, <1>2 DEF StatusSet
<1> QED BY <1>2, <1>3 DEF st

\* The effect of a worker that finds the spend of a note.
LEMMA UpdateNoteEffect ==
  ASSUME WalletInv, NEW s \in Txs, NEW u \in Spender(s),
         records' = FoundSpent(records, u, Confirmed(batch.mined[u]), s), records[s].note = "chained"
  PROVE  /\ u \in Txs /\ s \in Spends[u] /\ batch.mined[u] > 0
         /\ records'[u].status = Confirmed(batch.mined[u])
         /\ records'[s].spend = [by |-> u, status |-> Confirmed(batch.mined[u])]
         /\ records'[u].spent = records[u].spent \cup {s}
         /\ \A v \in Txs : /\ records'[v].note = records[v].note
                           /\ v # u => records'[v].status = records[v].status
                           /\ v # s => records'[v].spend = records[v].spend
                           /\ v # u => records'[v].spent = records[v].spent
<1> DEFINE st == Confirmed(batch.mined[u])
<1>0. u \in Txs /\ s \in Spends[u] /\ batch.mined[u] > 0
  BY DEF Spender
<1>1. records \in [Txs -> Records] /\ st \in Statuses /\ IsConfirmed(st)
  BY <1>0, WalletTypes, BatchStatus
<1>2. records' = FoundSpent(records, u, st, s) OBVIOUS
<1> HIDE DEF st
<1>3. /\ StatusSet(records, records', u, st)
      /\ records'[s].spend = [by |-> u, status |-> st]
      /\ records'[u].spent = records[u].spent \cup {s}
      /\ \A v \in Txs : /\ records'[v].note = records[v].note
                        /\ v # s => records'[v].spend = records[v].spend
                        /\ v # u => records'[v].spent = records[v].spent
  BY <1>0, <1>1, <1>2, FoundSpentEffect
<1>4. records'[u].status = st /\ \A v \in Txs : v # u => records'[v].status = records[v].status
  BY <1>0, <1>1, <1>3 DEF StatusSet
<1> QED BY <1>0, <1>3, <1>4 DEF st

\* The effect of a worker that scans a full transaction.
LEMMA ScanFullTxEffect ==
  ASSUME WalletInv, NEW t \in Txs, ScanFullTx(t)
  PROVE  /\ records'[t].status \in {records[t].status, Confirmed(batch.mined[t])}
         /\ \A v \in Txs : /\ v # t => records'[v].status = records[v].status
                           /\ records'[v].note = records[v].note
                           /\ records'[v].spend = records[v].spend
                           /\ records'[v].spent = records[v].spent
<1> DEFINE st == Confirmed(batch.mined[t])
<1>0. records \in [Txs -> Records] /\ st \in Statuses /\ IsConfirmed(st)
  BY WalletTypes, BatchStatus
<1>1. UNCHANGED records \/ records' = CreateModify(records, t, st) BY DEF ScanFullTx
<1> HIDE DEF st
<1>2. CASE UNCHANGED records BY <1>2
<1>3. CASE records' = CreateModify(records, t, st)
  <2>1. /\ StatusSet(records, records', t, st)
        /\ \A u \in Txs : /\ records'[u].note = records[u].note /\ records'[u].spend = records[u].spend
                          /\ records'[u].spent = records[u].spent
    BY <1>0, <1>3, CreateModifyEffect
  <2> QED BY <1>0, <2>1 DEF StatusSet, st
<1> QED BY <1>1, <1>2, <1>3

\* The records list what their transactions spend, whoever writes them.
LEMMA ListsStep ==
  ASSUME WalletInv, ListsSpends, ScanTrue(monitor), ScanTrue(sender), [Next]_vars
  PROVE  ListsSpends'
<1>0. /\ records \in [Txs -> Records] /\ batch.mined \in [Txs -> Nat]
      /\ \A t \in Txs : Confirmed(batch.mined[t]) \in Statuses
  BY WalletTypes DEF Confirmed, Statuses, Kinds
<1>1. CASE UNCHANGED records BY <1>1 DEF ListsSpends
<1>2. CASE Monitor \/ Sender
  BY <1>2, MonitorWrites, SenderWrites DEF PendingWrite, ListsSpends
<1>3. CASE OneBlockReorg \/ RollBack \/ ReorgBlock \/ EndBatch
  <2>1. UNCHANGED records \/ \E gone : records' = Invalidate(records, gone)
    BY <1>3 DEF OneBlockReorg, RollBack, ReorgBlock, EndBatch, InvalidateBlock, InvalidateFrom, ClearExpired
  <2> QED BY <1>0, <1>1, <2>1, InvalidateLists
<1>4. ASSUME NEW t \in Txs, DetectNote(t) PROVE ListsSpends'
  <2>1. \A u \in Txs : records'[u].spent = records[u].spent
    BY <1>0, <1>4, AddNewNoteEffect DEF DetectNote
  <2> QED BY <2>1 DEF ListsSpends
<1>5. ASSUME NEW s \in Txs, UpdateNote(s) PROVE ListsSpends'
  <2>1. ASSUME NEW u \in Spender(s), records' = FoundSpent(records, u, Confirmed(batch.mined[u]), s),
               records[s].note = "chained"
        PROVE  ListsSpends'
    <3>1. u \in Txs /\ s \in Spends[u] BY <2>1 DEF Spender
    <3>2. /\ records'[u].spent = records[u].spent \cup {s}
          /\ \A v \in Txs : v # u => records'[v].spent = records[v].spent
      BY <2>1, UpdateNoteEffect
    <3> QED BY <3>1, <3>2 DEF ListsSpends
  <2>2. ASSUME NEW u \in Spender(s), records' = FoundSpent(records, u, Confirmed(batch.mined[u]), s),
               records[s].note # "chained"
        PROVE  UNCHANGED records
    BY <2>2 DEF FoundSpent, HasNullifier
  <2> QED BY <1>1, <1>5, <2>1, <2>2 DEF UpdateNote
<1>6. ASSUME NEW t \in Txs, ScanFullTx(t) PROVE ListsSpends'
  <2>1. \A u \in Txs : records'[u].spent = records[u].spent
    BY <1>0, <1>6, CreateModifyEffect DEF ScanFullTx
  <2> QED BY <2>1 DEF ListsSpends
<1>7. CASE Server \/ StartBatch \/ PopulateDone \/ ListNotes \/ UpdateWitnesses \/ UNCHANGED vars
           \/ \E j \in jobs : WorkerFails(j)
  BY <1>1, <1>7 DEF Server, Submit, Evict, Mine, Reorg, StartBatch, PopulateDone, ListNotes, UpdateWitnesses,
     WorkerFails, vars
<1> QED BY <1>2, <1>3, <1>4, <1>5, <1>6, <1>7 DEF Next, Syncer

\* Jobs of different kinds, or for different transactions, are different.
LEMMA JobsDiffer ==
  /\ \A t, u \in Txs : /\ NoteJob(t) = NoteJob(u) => t = u
                       /\ SpendJob(t) = SpendJob(u) => t = u
                       /\ FullJob(t) = FullJob(u) => t = u
                       /\ NoteJob(t) # SpendJob(u) /\ NoteJob(t) # FullJob(u) /\ SpendJob(t) # FullJob(u)
  /\ \A t \in Txs : /\ NoteJob(t) \notin {ListJob, WitnessJob}
                    /\ SpendJob(t) \notin {ListJob, WitnessJob}
                    /\ FullJob(t) \notin {ListJob, WitnessJob}
  /\ ListJob # WitnessJob
<1>1. ASSUME NEW t, NEW u
      PROVE  /\ NoteJob(t) = NoteJob(u) => t = u
             /\ SpendJob(t) = SpendJob(u) => t = u
             /\ FullJob(t) = FullJob(u) => t = u
             /\ NoteJob(t) # SpendJob(u) /\ NoteJob(t) # FullJob(u) /\ SpendJob(t) # FullJob(u)
             /\ NoteJob(t) # ListJob /\ NoteJob(t) # WitnessJob
             /\ SpendJob(t) # ListJob /\ SpendJob(t) # WitnessJob
             /\ FullJob(t) # ListJob /\ FullJob(t) # WitnessJob
  <2>1. /\ NoteJob(t).kind = "note" /\ SpendJob(t).kind = "spend" /\ FullJob(t).kind = "full"
        /\ NoteJob(u).kind = "note" /\ SpendJob(u).kind = "spend" /\ FullJob(u).kind = "full"
        /\ NoteJob(t).tx = t /\ SpendJob(t).tx = t /\ FullJob(t).tx = t
        /\ NoteJob(u).tx = u /\ SpendJob(u).tx = u /\ FullJob(u).tx = u
        /\ ListJob.kind = "list" /\ WitnessJob.kind = "witness"
    BY DEF NoteJob, SpendJob, FullJob, ListJob, WitnessJob
  <2> QED BY <2>1
<1>2. ListJob # WitnessJob
  BY DEF ListJob, WitnessJob
<1> QED BY <1>1, <1>2

\* Steps that leave the jobs alone, and keep the notes and their records.
LEMMA JobsKept ==
  ASSUME JobInv, UNCHANGED <<jobs, sync>>, batch'.mined = batch.mined,
         \A u \in Txs : /\ u \in Known(records) => u \in Known(records')
                        /\ records[u].note = "chained" => records'[u].note = "chained"
  PROVE  JobInv'
BY DEF JobInv, HasNullifier, Known

\* No step gives a worker a note that is not there.
LEMMA JobsStep ==
  ASSUME WalletInv, ListsSpends, ScanTrue(monitor), ScanTrue(sender), JobInv, [Next]_vars
  PROVE  JobInv'
<1>0. /\ records \in [Txs -> Records] /\ batch.mined \in [Txs -> Nat] /\ Pays \subseteq Txs
  BY WalletTypes
<1>1. ASSUME jobs' = {} PROVE JobInv'
  BY <1>1 DEF JobInv
<1>2. CASE OneBlockReorg \/ StartBatch \/ ReorgBlock \/ EndBatch \/ RollBack
  <2>1. jobs = {} /\ UNCHANGED jobs
    BY <1>2 DEF OneBlockReorg, StartBatch, ReorgBlock, EndBatch, RollBack, syncing, JobInv
  <2> QED BY <1>1, <2>1
<1>3. CASE PopulateDone
  <2>1. /\ sync' = "work" /\ UNCHANGED <<batch, records>>
        /\ jobs' = {ListJob, WitnessJob} \cup {NoteJob(t) : t \in {u \in Pays : batch.mined[u] > 0}}
    BY <1>3 DEF PopulateDone
  <2>2. ASSUME NEW t \in Txs, NoteJob(t) \in jobs' \/ FullJob(t) \in jobs' PROVE batch.mined[t] > 0
    <3>1. \E u \in Pays : batch.mined[u] > 0 /\ (NoteJob(t) = NoteJob(u) \/ FullJob(t) = NoteJob(u))
      BY <2>1, <2>2, JobsDiffer
    <3> QED BY <1>0, <3>1, JobsDiffer
  <2>3. ASSUME NEW s \in Txs, SpendJob(s) \in jobs' PROVE FALSE
    BY <1>0, <2>1, <2>3, JobsDiffer
  <2> QED BY <2>1, <2>2, <2>3 DEF JobInv
<1>4. CASE ListNotes
  <2>1. /\ UNCHANGED <<sync, batch, records>> /\ ListJob \in jobs
        /\ jobs' = (jobs \ {ListJob}) \cup {SpendJob(s) : s \in NotesForUpdating(records, batch.first - 1)}
    BY <1>4 DEF ListNotes
  <2>2. \A s \in NotesForUpdating(records, batch.first - 1) :
          s \in Txs /\ s \in Known(records) /\ HasNullifier(records, s)
    BY DEF NotesForUpdating, Known, IsConfirmed
  <2>3. \A t \in Txs : /\ NoteJob(t) \in jobs' => NoteJob(t) \in jobs
                       /\ FullJob(t) \in jobs' => FullJob(t) \in jobs
                       /\ SpendJob(t) \in jobs' => SpendJob(t) \in jobs \/ t \in NotesForUpdating(records, batch.first - 1)
    BY <2>1, <2>2, JobsDiffer
  <2>4. sync' = "work" BY <2>1 DEF JobInv
  <2> QED BY <2>1, <2>2, <2>3, <2>4 DEF JobInv
<1>5. ASSUME NEW t \in Txs, DetectNote(t) PROVE JobInv'
  <2>1. /\ UNCHANGED <<sync, batch>> /\ NoteJob(t) \in jobs
        /\ jobs' = (jobs \ {NoteJob(t)}) \cup {SpendJob(t), FullJob(t)}
    BY <1>5 DEF DetectNote
  <2>2. /\ records'[t].status.kind = "Confirmed" /\ records'[t].note = "chained"
        /\ \A v \in Txs : v # t => records'[v].status = records[v].status /\ records'[v].note = records[v].note
    BY <1>5, DetectNoteEffect, BatchStatus
  <2>3. \A u \in Txs : /\ NoteJob(u) \in jobs' => NoteJob(u) \in jobs
                       /\ FullJob(u) \in jobs' => FullJob(u) \in jobs \/ u = t
                       /\ SpendJob(u) \in jobs' => SpendJob(u) \in jobs \/ u = t
    BY <2>1, JobsDiffer
  <2>4. sync' = "work" /\ batch'.mined[t] > 0 BY <2>1 DEF JobInv
  <2>5. ASSUME NEW s \in Txs, SpendJob(s) \in jobs' PROVE s \in Known(records') /\ HasNullifier(records', s)
    BY <2>2, <2>3, <2>5 DEF JobInv, Known, HasNullifier
  <2> QED BY <2>1, <2>3, <2>4, <2>5 DEF JobInv, Known, HasNullifier
<1>6. ASSUME NEW s \in Txs, UpdateNote(s) PROVE JobInv'
  <2>1. UNCHANGED <<sync, batch>> /\ SpendJob(s) \in jobs /\ sync = "work" /\ records[s].note = "chained"
    BY <1>6 DEF UpdateNote, JobInv, HasNullifier
  <2>2. CASE jobs' = jobs \ {SpendJob(s)} /\ UNCHANGED records
    BY <2>1, <2>2 DEF JobInv, Known, HasNullifier
  <2>3. ASSUME NEW u \in Spender(s), records' = FoundSpent(records, u, Confirmed(batch.mined[u]), s),
               jobs' = (jobs \ {SpendJob(s)}) \cup {FullJob(u)}
        PROVE  JobInv'
    <3>1. /\ u \in Txs /\ batch.mined[u] > 0 /\ records'[u].status = Confirmed(batch.mined[u])
          /\ \A v \in Txs : records'[v].note = records[v].note /\ (v # u => records'[v].status = records[v].status)
      BY <2>1, <2>3, UpdateNoteEffect
    <3>2. \A v \in Txs : v \in Known(records) => v \in Known(records')
      BY <3>1, BatchStatus DEF Known
    <3>3. \A v \in Txs : /\ NoteJob(v) \in jobs' => NoteJob(v) \in jobs
                         /\ FullJob(v) \in jobs' => FullJob(v) \in jobs \/ v = u
                         /\ SpendJob(v) \in jobs' => SpendJob(v) \in jobs
      BY <2>3, <3>1, JobsDiffer
    <3>4. ASSUME NEW v \in Txs, SpendJob(v) \in jobs' PROVE v \in Known(records') /\ HasNullifier(records', v)
      BY <3>1, <3>2, <3>3, <3>4 DEF JobInv, HasNullifier
    <3>5. ASSUME NEW v \in Txs, NoteJob(v) \in jobs' \/ FullJob(v) \in jobs' PROVE batch'.mined[v] > 0
      BY <2>1, <3>1, <3>3, <3>5 DEF JobInv
    <3> QED BY <2>1, <3>4, <3>5 DEF JobInv, Known, HasNullifier
  <2> QED BY <1>6, <2>2, <2>3 DEF UpdateNote
<1>7. ASSUME NEW t \in Txs, ScanFullTx(t) PROVE JobInv'
  <2>1. UNCHANGED <<sync, batch>> /\ FullJob(t) \in jobs /\ jobs' = jobs \ {FullJob(t)} /\ sync = "work"
    BY <1>7 DEF ScanFullTx, JobInv
  <2>2. /\ records'[t].status \in {records[t].status, Confirmed(batch.mined[t])}
        /\ \A v \in Txs : records'[v].note = records[v].note /\ (v # t => records'[v].status = records[v].status)
    BY <1>7, ScanFullTxEffect
  <2>3. \A v \in Txs : v \in Known(records) => v \in Known(records')
    BY <2>2, BatchStatus DEF Known
  <2>4. ASSUME NEW v \in Txs, SpendJob(v) \in jobs' PROVE v \in Known(records') /\ HasNullifier(records', v)
    BY <2>1, <2>2, <2>3, <2>4 DEF JobInv, HasNullifier
  <2> QED BY <2>1, <2>4 DEF JobInv, Known, HasNullifier
<1>8. CASE UpdateWitnesses \/ \E j \in jobs : WorkerFails(j)
  <2>1. UNCHANGED <<sync, batch, records>> /\ jobs # {} /\ jobs' \subseteq jobs
    BY <1>8 DEF UpdateWitnesses, WorkerFails
  <2> QED BY <2>1 DEF JobInv, Known, HasNullifier
<1>9. CASE Monitor \/ Sender
  <2>1. UNCHANGED <<jobs, sync, batch>>
    BY <1>9, SenderGives DEF Monitor, MonitorReceives, MonitorLooksUp, MonitorUpgrades, MonitorScans,
       MonitorUpdates, syncing
  <2>2. PendingWrite(records, records') BY <1>9, MonitorWrites, SenderWrites
  <2> QED BY <2>1, <2>2, JobsKept DEF PendingWrite
<1>10. CASE Server
  <2>1. UNCHANGED <<jobs, sync, records>> BY <1>10 DEF Server, Submit, Evict, Mine, Reorg, syncing
  <2>2. batch'.mined = batch.mined
    BY <1>10 DEF Server, Submit, Evict, Mine, Reorg, syncing, WalletInv, TypeOK
  <2> QED BY <2>1, <2>2, JobsKept
<1>11. CASE UNCHANGED vars BY <1>11, JobsKept DEF vars, syncing
<1> QED BY <1>2, <1>3, <1>4, <1>5, <1>6, <1>7, <1>8, <1>9, <1>10, <1>11 DEF Next, Syncer
-----------------------------------------------------------------------------
(* Theorems that need no condition, or only one writer of pending state *)

TraceInv ==
  /\ WalletInv /\ ServerInv /\ AgreeInv /\ BatchFacts /\ JobInv /\ ListsSpends
  /\ ScanTrue(monitor) /\ ScanTrue(sender)

\* The snapshot a batch works on stays in line with the server's chain through every
\* reorganisation, and every job has the note it is about.
THEOREM TraceInvariant == Spec => []TraceInv
<1>1. Init /\ WalletInv => TraceInv
  <2> SUFFICES ASSUME Init, WalletInv PROVE TraceInv OBVIOUS
  <2>1. ServerInv /\ AgreeInv BY DEF Init, ServerInv, OnServer, AgreeInv
  <2>2. BatchFacts /\ JobInv BY DEF Init, BatchFacts, JobInv
  <2>3. ListsSpends BY DEF Init, ListsSpends, NoRecord
  <2>4. ScanTrue(monitor) /\ ScanTrue(sender) BY IdleTrue DEF Init
  <2> QED BY <2>1, <2>2, <2>3, <2>4 DEF TraceInv
<1>2. TraceInv /\ WalletInv' /\ [Next]_vars => TraceInv'
  <2> SUFFICES ASSUME TraceInv, WalletInv', [Next]_vars PROVE TraceInv' OBVIOUS
  <2>1. ServerInv' BY ServerInvStep DEF TraceInv
  <2>2. AgreeInv' /\ BatchFacts' BY HeightsStep DEF TraceInv
  <2>3. JobInv' BY JobsStep DEF TraceInv
  <2>4. ListsSpends' BY ListsStep DEF TraceInv
  <2>5. ScanTrue(monitor') /\ ScanTrue(sender') BY ScansStep DEF TraceInv
  <2> QED BY <2>1, <2>2, <2>3, <2>4, <2>5 DEF TraceInv, ScanTrue
<1> QED BY <1>1, <1>2, WalletInvariant, PTL DEF Spec

\* A worker that looks for the spend of a note always finds the note: nobody removes
\* it between the listing and the marking, whatever the monitor, the sender and the
\* other workers do and however the server reorganises.
THEOREM SpendFindsItsNote == Spec => []SourceKnown
<1>1. TraceInv => SourceKnown BY DEF TraceInv, JobInv, SourceKnown
<1> QED BY <1>1, TraceInvariant, PTL

\* A wallet that does not watch the mempool has no scan of it; one that does not send
\* has nothing that was transmitted, so the monitor has nothing to upgrade.
WritersInv ==
  /\ ~MonitorOn => monitor.pc = "idle"
  /\ Proposals = {} =>
       /\ sender.pc = "idle" /\ monitor.pc # "upgrade" /\ monitor.status.kind # "Transmitted"
       /\ \A t \in Txs : records[t].status.kind # "Transmitted"

\* A scan writes no status but its own.
LEMMA ScanStatus ==
  ASSUME records \in [Txs -> Records], NEW p \in Scans, ScanReady(p), NEW q, Scan(p, q) \/ UpdateSpends(p)
  PROVE  \A u \in Txs : records'[u].status \in {records[u].status, p.status}
<1>0. p.status \in Statuses /\ p.found \subseteq Txs BY DEF Scans
<1>1. CASE UNCHANGED records BY <1>1
<1>2. CASE Receipts(p)
  <2>1. p.tx \in Txs /\ records' = AddPendingNote(records, p.tx, p.status) BY <1>2 DEF Receipts, ScanReady
  <2>2. StatusSet(records, records', p.tx, p.status) BY <1>0, <2>1, AddPendingNoteEffect
  <2> QED BY <2>2 DEF StatusSet
<1>3. ASSUME NEW s \in p.found, Mark(p, s) PROVE \A u \in Txs : records'[u].status \in {records[u].status, p.status}
  <2>1. p.tx \in Txs /\ s \in Txs /\ records' = FoundSpent(records, p.tx, p.status, s)
    BY <1>0, <1>3 DEF Mark, ScanReady
  <2>2. CASE ~HasNullifier(records, s) BY <2>1, <2>2 DEF FoundSpent
  <2>3. CASE HasNullifier(records, s)
    <3>1. StatusSet(records, records', p.tx, p.status) BY <1>0, <2>1, <2>3, FoundSpentEffect DEF HasNullifier
    <3> QED BY <3>1 DEF StatusSet
  <2> QED BY <2>2, <2>3
<1>4. CASE UpdateSpends(p)
  <2>1. p.tx \in Txs /\ records' = UpdateSpendStatuses(records, p.tx, p.status) BY <1>4 DEF UpdateSpends, ScanReady
  <2>2. \A u \in Txs : records'[u].status = records[u].status BY <1>0, <2>1, UpdateSpendsEffect
  <2> QED BY <2>2
<1> QED BY <1>1, <1>2, <1>3, <1>4 DEF Scan, Nullifiers

\* A sender that has nothing to send does nothing, and neither does a monitor that is off.
LEMMA WritersRest ==
  ASSUME WritersInv
  PROVE  /\ ~MonitorOn => ~Monitor
         /\ Proposals = {} => ~Sender /\ ~MonitorUpgrades
<1>1. ASSUME ~MonitorOn PROVE ~Monitor
  BY <1>1 DEF WritersInv, Monitor, MonitorReceives, MonitorLooksUp, MonitorUpgrades, MonitorScans, MonitorUpdates,
     Scan, Receipts, Nullifiers, Mark, UpdateSpends
<1>2. ASSUME Proposals = {} PROVE ~Sender /\ ~MonitorUpgrades
  BY <1>2 DEF WritersInv, Sender, RecordCreated, HeightFails, SenderScans, SenderUpdates, BeginBroadcast,
     SkipTransaction, BroadcastDone, SendTransaction, SendFails, Sends, Scan, Receipts, Nullifiers, Mark,
     UpdateSpends, MonitorUpgrades
<1> QED BY <1>1, <1>2

\* WritersInv is kept.
LEMMA WritersStep ==
  ASSUME TraceInv, WritersInv, [Next]_vars
  PROVE  WritersInv'
<1>0. /\ WalletInv /\ JobInv /\ records \in [Txs -> Records] /\ monitor \in Scans /\ ScanReady(monitor)
      /\ batch.mined \in [Txs -> Nat] /\ NoRecord.status.kind # "Transmitted"
      /\ Idle.pc = "idle" /\ Idle.status.kind # "Transmitted"
  BY WalletTypes DEF TraceInv, WalletInv, TypeOK, NoRecord, NoStatus, Idle
<1>1. ASSUME UNCHANGED <<monitor, sender>>, \A u \in Txs : records'[u].status.kind \in {records[u].status.kind, "Absent", "Confirmed"}
      PROVE  WritersInv'
  BY <1>1 DEF WritersInv
<1>2. CASE Sender
  BY <1>2, SenderGives, WritersRest DEF WritersInv
<1>3. CASE Monitor
  <2>1. MonitorOn BY <1>3, WritersRest
  <2>2. ASSUME Proposals = {}
        PROVE  /\ sender'.pc = "idle" /\ monitor'.pc # "upgrade" /\ monitor'.status.kind # "Transmitted"
               /\ \A t \in Txs : records'[t].status.kind # "Transmitted"
    <3>0. /\ sender.pc = "idle" /\ monitor.pc # "upgrade" /\ monitor.status.kind # "Transmitted"
          /\ \A t \in Txs : records[t].status.kind # "Transmitted"
      BY <2>2 DEF WritersInv
    <3>1. UNCHANGED sender
      BY <1>3 DEF Monitor, MonitorReceives, MonitorLooksUp, MonitorUpgrades, MonitorScans, MonitorUpdates, sending
    <3>2. ASSUME NEW t \in Txs, MonitorReceives(t)
          PROVE  UNCHANGED records /\ monitor'.pc # "upgrade" /\ monitor'.status.kind # "Transmitted"
      BY <3>2 DEF MonitorReceives, Idle, Mempool
    <3>3. CASE MonitorLooksUp
      <4>1. /\ UNCHANGED records
            /\ monitor' = CASE monitor.tx \notin Known(records) -> [monitor EXCEPT !.pc = FirstStep(monitor.tx)]
                            [] records[monitor.tx].status.kind = "Transmitted" -> [monitor EXCEPT !.pc = "upgrade"]
                            [] OTHER -> Idle
        BY <3>3 DEF MonitorLooksUp
      <4>2. \/ monitor' = [monitor EXCEPT !.pc = FirstStep(monitor.tx)]
            \/ monitor' = Idle
        <5>1. records[monitor.tx].status.kind # "Transmitted"
          BY <1>0, <3>0, <3>3 DEF MonitorLooksUp, ScanReady
        <5> QED BY <4>1, <5>1
      <4>3. CASE monitor' = [monitor EXCEPT !.pc = FirstStep(monitor.tx)]
        <5>1. monitor'.pc = FirstStep(monitor.tx) /\ monitor'.status = monitor.status
          BY <1>0, <4>3 DEF Scans
        <5> QED BY <3>0, <3>1, <4>1, <5>1 DEF FirstStep
      <4> QED BY <1>0, <3>0, <3>1, <4>1, <4>2, <4>3
    <3>4. CASE MonitorScans
      <4>1. Scan(monitor, monitor') BY <3>4 DEF MonitorScans
      <4>2. \A u \in Txs : records'[u].status \in {records[u].status, monitor.status}
        BY <1>0, <4>1, ScanStatus
      <4>3. monitor'.pc # "upgrade" /\ monitor'.status = monitor.status
        <5>1. \/ monitor' = [monitor EXCEPT !.pc = "nullifiers"]
              \/ monitor' = [monitor EXCEPT !.pc = "update"]
              \/ \E f : monitor' = [monitor EXCEPT !.pc = "mark", !.found = f]
              \/ \E f : monitor' = [monitor EXCEPT !.found = f]
          BY <4>1, Zenon DEF Scan, Nullifiers, Mark, Receipts
        <5> QED BY <1>0, <3>0, <5>1 DEF Scans
      <4> QED BY <3>0, <3>1, <4>2, <4>3
    <3>5. CASE MonitorUpdates
      <4>1. UpdateSpends(monitor) /\ monitor' = Idle BY <3>5 DEF MonitorUpdates
      <4>2. \A u \in Txs : records'[u].status \in {records[u].status, monitor.status}
        BY <1>0, <4>1, ScanStatus
      <4> QED BY <1>0, <3>0, <3>1, <4>1, <4>2
    <3>6. ~MonitorUpgrades BY <2>2, WritersRest
    <3> QED BY <1>3, <3>0, <3>1, <3>2, <3>3, <3>4, <3>5, <3>6 DEF Monitor
  <2> QED BY <2>1, <2>2 DEF WritersInv
<1>4. CASE Server \/ Syncer \/ UNCHANGED vars
  <2>1. UNCHANGED <<monitor, sender>>
    BY <1>4 DEF Server, Submit, Evict, Mine, Reorg, Syncer, OneBlockReorg, StartBatch, ReorgBlock,
       PopulateDone, ListNotes, UpdateWitnesses, EndBatch, RollBack, DetectNote, UpdateNote, ScanFullTx,
       WorkerFails, vars, sending
  <2>2. CASE UNCHANGED records BY <1>1, <2>1, <2>2
  <2>3. CASE OneBlockReorg \/ RollBack \/ ReorgBlock \/ EndBatch
    <3>1. UNCHANGED records \/ \E gone : records' = Invalidate(records, gone)
      BY <2>3 DEF OneBlockReorg, RollBack, ReorgBlock, EndBatch, InvalidateBlock, InvalidateFrom, ClearExpired
    <3>2. ASSUME NEW gone, records' = Invalidate(records, gone) PROVE WritersInv'
      <4>1. \A u \in Txs : records'[u] = NoRecord \/ records'[u].status = records[u].status
        BY <1>0, <3>2, InvalidateEffect
      <4>2. NoRecord.status.kind = "Absent" BY DEF NoRecord, NoStatus
      <4> QED BY <1>1, <2>1, <4>1, <4>2
    <3> QED BY <2>2, <3>1, <3>2
  <2>4. ASSUME NEW t \in Txs, DetectNote(t) \/ ScanFullTx(t) PROVE WritersInv'
    <3>1. \A v \in Txs : records'[v].status = records[v].status \/ records'[v].status = Confirmed(batch.mined[t])
      BY <1>0, <2>4, DetectNoteEffect, ScanFullTxEffect
    <3> QED BY <1>0, <1>1, <2>1, <3>1, BatchStatus
  <2>5. ASSUME NEW s \in Txs, UpdateNote(s) PROVE WritersInv'
    <3>1. records[s].note = "chained" BY <1>0, <2>5 DEF UpdateNote, JobInv, HasNullifier
    <3>2. ASSUME NEW u \in Spender(s), records' = FoundSpent(records, u, Confirmed(batch.mined[u]), s)
          PROVE  WritersInv'
      <4>1. /\ u \in Txs /\ records'[u].status = Confirmed(batch.mined[u])
            /\ \A v \in Txs : v # u => records'[v].status = records[v].status
        BY <1>0, <3>1, <3>2, UpdateNoteEffect
      <4> QED BY <1>0, <1>1, <2>1, <4>1, BatchStatus
    <3> QED BY <2>2, <2>5, <3>2 DEF UpdateNote
  <2>6. CASE \/ Server \/ StartBatch \/ PopulateDone \/ ListNotes \/ UpdateWitnesses \/ UNCHANGED vars
             \/ \E j \in jobs : WorkerFails(j)
    BY <2>2, <2>6 DEF Server, Submit, Evict, Mine, Reorg, StartBatch, PopulateDone, ListNotes, UpdateWitnesses,
       WorkerFails, vars
  <2> QED BY <1>4, <2>3, <2>4, <2>5, <2>6 DEF Syncer
<1> QED BY <1>2, <1>3, <1>4 DEF Next

\* The two writers of pending state do not meet.
OnePendingWriter == ~MonitorOn \/ Proposals = {}

\* One pending writer at a time leaves every confirmation as it is.
LEMMA PendingKeepsConfirmed ==
  ASSUME OnePendingWriter, TraceInv, WritersInv, Monitor \/ Sender
  PROVE  PendingWrite(records, records') /\ KeepsConfirmed(records, records')
<1>0. /\ WalletInv /\ ListsSpends /\ ScanTrue(monitor) /\ ScanTrue(sender)
      /\ monitor \in Scans /\ ScanReady(monitor) /\ records \in [Txs -> Records]
  BY DEF TraceInv, WalletInv, TypeOK
<1>1. CASE Sender BY <1>0, <1>1, SenderWrites
<1>2. CASE Monitor
  <2>1. ~MonitorUpgrades BY <1>2, WritersRest DEF OnePendingWriter
  <2>2. CASE MonitorScans \/ MonitorUpdates BY <1>0, <2>2, ScanWrites DEF MonitorScans, MonitorUpdates
  <2>3. CASE MonitorLooksUp \/ \E t \in Txs : MonitorReceives(t)
    BY <1>0, <2>3, NoWrite DEF MonitorLooksUp, MonitorReceives
  <2> QED BY <1>2, <2>1, <2>2, <2>3 DEF Monitor
<1> QED BY <1>1, <1>2

\* The pending writers, in every behaviour.
THEOREM WritersInvariant == Spec => []WritersInv
<1>1. Init => WritersInv BY DEF Init, WritersInv, Idle, NoRecord, NoStatus
<1>2. TraceInv /\ WritersInv /\ [Next]_vars => WritersInv' BY WritersStep
<1> QED BY <1>1, <1>2, TraceInvariant, PTL DEF Spec

\* Without the mempool monitor, or without sends, a confirmed transaction never becomes
\* pending again: the scans and the broadcast leave confirmed records as they are.  With
\* both, the monitor's upgrade of a transmitted record may come after its confirmation.
THEOREM ConfirmationsStay == OnePendingWriter => (Spec => ConfirmedStays)
<1> SUFFICES ASSUME OnePendingWriter PROVE Spec => ConfirmedStays OBVIOUS
<1> DEFINE Stays == \A t \in Txs : IsConfirmed(records[t].status) => ~IsPending(records'[t].status)
<1>3. TraceInv /\ WritersInv /\ [Next]_vars => Stays
  <2> SUFFICES ASSUME TraceInv, WritersInv, [Next]_vars PROVE Stays OBVIOUS
  <2>0. /\ WalletInv /\ records \in [Txs -> Records] /\ ListsSpends /\ ScanTrue(sender) /\ JobInv
        /\ \A st : IsConfirmed(st) => ~IsPending(st)
    BY WalletTypes DEF TraceInv, IsConfirmed, IsPending
  <2>1. CASE UNCHANGED records BY <2>0, <2>1
  <2>3. CASE Monitor \/ Sender
    <3>1. KeepsConfirmed(records, records') BY <2>3, PendingKeepsConfirmed
    <3> QED BY <2>0, <3>1 DEF KeepsConfirmed
  <2>4. CASE OneBlockReorg \/ RollBack \/ ReorgBlock \/ EndBatch
    <3>1. UNCHANGED records \/ \E gone : records' = Invalidate(records, gone)
      BY <2>4 DEF OneBlockReorg, RollBack, ReorgBlock, EndBatch, InvalidateBlock, InvalidateFrom, ClearExpired
    <3>2. ASSUME NEW gone, records' = Invalidate(records, gone) PROVE Stays
      <4>1. \A u \in Txs : records'[u] = NoRecord \/ records'[u].status = records[u].status
        BY <2>0, <3>2, InvalidateEffect
      <4>2. ~IsPending(NoRecord.status) BY DEF NoRecord, NoStatus, IsPending
      <4> QED BY <2>0, <4>1, <4>2
    <3> QED BY <2>1, <3>1, <3>2
  <2>5. ASSUME NEW t \in Txs, DetectNote(t) \/ ScanFullTx(t) PROVE Stays
    <3>1. \A v \in Txs : records'[v].status = records[v].status \/ records'[v].status = Confirmed(batch.mined[t])
      BY <2>0, <2>5, DetectNoteEffect, ScanFullTxEffect
    <3> QED BY <2>0, <3>1, BatchStatus
  <2>6. ASSUME NEW s \in Txs, UpdateNote(s) PROVE Stays
    <3>1. records[s].note = "chained" BY <2>0, <2>6 DEF UpdateNote, JobInv, HasNullifier
    <3>2. ASSUME NEW u \in Spender(s), records' = FoundSpent(records, u, Confirmed(batch.mined[u]), s)
          PROVE  Stays
      <4>1. /\ u \in Txs /\ records'[u].status = Confirmed(batch.mined[u])
            /\ \A v \in Txs : v # u => records'[v].status = records[v].status
        BY <2>0, <3>1, <3>2, UpdateNoteEffect
      <4> QED BY <2>0, <4>1, BatchStatus
    <3> QED BY <2>1, <2>6, <3>2 DEF UpdateNote
  <2>7. CASE \/ Server \/ StartBatch \/ PopulateDone \/ ListNotes \/ UpdateWitnesses \/ UNCHANGED vars
             \/ \E j \in jobs : WorkerFails(j)
    BY <2>1, <2>7 DEF Server, Submit, Evict, Mine, Reorg, StartBatch, PopulateDone, ListNotes, UpdateWitnesses,
       WorkerFails, vars
  <2> QED BY <2>3, <2>4, <2>5, <2>6, <2>7 DEF Next, Syncer
<1>5. TraceInv /\ WritersInv /\ [Next]_vars => [Stays]_vars
  BY <1>3
<1>6. ConfirmedStays <=> [][Stays]_vars BY DEF ConfirmedStays
<1> HIDE DEF Stays
<1> QED BY <1>5, <1>6, TraceInvariant, WritersInvariant, PTL DEF Spec
-----------------------------------------------------------------------------
(* What is confirmed is on the chain.  This needs the blocks the wallet keeps: *)
(* a wallet that has lost all of them, by reorganisations or failed batches,    *)
(* scans again from its birthday and never looks at the records it has.  With   *)
(* fewer reorganisations than blocks and no failing batch it keeps some.        *)

\* Either the server never reorganises, or batches do not fail and there are
\* fewer reorganisations than the wallet has blocks to compare.
KeepsBlocks == MaxForks = 0 \/ (~Faults /\ MaxForks < MaxReorg)

OnChain(t, k) == k =< agree => mined[t] = k

\* Where a confirmed record comes from at each stage of a sync: a block of the
\* wallet, a block that is not popped yet, or the batch.
Explained(t, k) ==
  /\ k > 0
  /\ sync = "idle" => k =< top /\ OnChain(t, k)
  /\ sync = "reorg" => k =< batch.existing /\ OnChain(t, k)
  /\ sync = "work" => (k < batch.first /\ OnChain(t, k)) \/ batch.mined[t] = k

Sound == \A t \in Txs : IsConfirmed(records[t].status) => Explained(t, records[t].status.height)

\* Every block that is popped between batches has its reorganisation.
WindowInv ==
  /\ ~failed /\ forks =< MaxForks
  /\ floor > 0 =>
       /\ top + forks >= floor + MaxReorg
       /\ sync = "idle" /\ tip =< top /\ agree < top => top + forks > floor + MaxReorg
  /\ sync # "idle" /\ batch.agree < batch.top => forks > 0

\* A record is confirmed by the batch that runs, or it was confirmed before.
LEMMA ConfirmSource ==
  ASSUME TraceInv, [Next]_vars, NEW t \in Txs, IsConfirmed(records'[t].status)
  PROVE  \/ records'[t].status = records[t].status
         \/ /\ sync = "work" /\ batch.mined[t] > 0 /\ UNCHANGED <<sync, batch, tip, mined, agree, top>>
            /\ records'[t].status = Confirmed(batch.mined[t])
<1>0. /\ WalletInv /\ records \in [Txs -> Records] /\ ListsSpends /\ ScanTrue(sender) /\ ScanTrue(monitor)
      /\ JobInv /\ batch.mined \in [Txs -> Nat]
  BY WalletTypes DEF TraceInv
<1>1. CASE UNCHANGED records BY <1>1
<1>2. CASE Monitor \/ Sender
  <2>1. PendingWrite(records, records') BY <1>0, <1>2, MonitorWrites, SenderWrites
  <2> QED BY <2>1 DEF PendingWrite
<1>3. CASE OneBlockReorg \/ RollBack \/ ReorgBlock \/ EndBatch
  <2>1. UNCHANGED records \/ \E gone : records' = Invalidate(records, gone)
    BY <1>3 DEF OneBlockReorg, RollBack, ReorgBlock, EndBatch, InvalidateBlock, InvalidateFrom, ClearExpired
  <2>2. ASSUME NEW gone, records' = Invalidate(records, gone) PROVE records'[t].status = records[t].status
    <3>1. records'[t] = NoRecord \/ records'[t].status = records[t].status
      BY <1>0, <2>2, InvalidateEffect
    <3>2. ~IsConfirmed(NoRecord.status) BY DEF NoRecord, NoStatus, IsConfirmed
    <3> QED BY <3>1, <3>2
  <2> QED BY <1>1, <2>1, <2>2
<1>4. ASSUME NEW u \in Txs, DetectNote(u) \/ ScanFullTx(u)
      PROVE  \/ records'[t].status = records[t].status
             \/ /\ sync = "work" /\ batch.mined[t] > 0 /\ UNCHANGED <<sync, batch, tip, mined, agree, top>>
                /\ records'[t].status = Confirmed(batch.mined[t])
  <2>1. sync = "work" /\ batch.mined[u] > 0 /\ UNCHANGED <<sync, batch, tip, mined, agree, top>>
    BY <1>0, <1>4, HeightsUntouched DEF JobInv, DetectNote, ScanFullTx
  <2>2. /\ t # u => records'[t].status = records[t].status
        /\ records'[u].status \in {records[u].status, Confirmed(batch.mined[u])}
    BY <1>0, <1>4, DetectNoteEffect, ScanFullTxEffect
  <2> QED BY <2>1, <2>2
<1>5. ASSUME NEW s \in Txs, UpdateNote(s)
      PROVE  \/ records'[t].status = records[t].status
             \/ /\ sync = "work" /\ batch.mined[t] > 0 /\ UNCHANGED <<sync, batch, tip, mined, agree, top>>
                /\ records'[t].status = Confirmed(batch.mined[t])
  <2>1. sync = "work" /\ records[s].note = "chained" /\ UNCHANGED <<sync, batch, tip, mined, agree, top>>
    BY <1>0, <1>5, HeightsUntouched DEF JobInv, UpdateNote, HasNullifier
  <2>2. ASSUME NEW u \in Spender(s), records' = FoundSpent(records, u, Confirmed(batch.mined[u]), s)
        PROVE  \/ records'[t].status = records[t].status
               \/ batch.mined[t] > 0 /\ records'[t].status = Confirmed(batch.mined[t])
    <3>1. /\ u \in Txs /\ batch.mined[u] > 0 /\ records'[u].status = Confirmed(batch.mined[u])
          /\ \A v \in Txs : v # u => records'[v].status = records[v].status
      BY <1>0, <2>1, <2>2, UpdateNoteEffect
    <3> QED BY <3>1
  <2> QED BY <1>5, <2>1, <2>2 DEF UpdateNote
<1>6. CASE \/ Server \/ StartBatch \/ PopulateDone \/ ListNotes \/ UpdateWitnesses \/ UNCHANGED vars
           \/ \E j \in jobs : WorkerFails(j)
  BY <1>1, <1>6 DEF Server, Submit, Evict, Mine, Reorg, StartBatch, PopulateDone, ListNotes, UpdateWitnesses,
     WorkerFails, vars
<1> QED BY <1>2, <1>3, <1>4, <1>5, <1>6 DEF Next, Syncer

\* After invalidation from a height no record is at or above it.
LEMMA CutBelow ==
  ASSUME records \in [Txs -> Records], NEW cut \in Nat, records' = InvalidateFrom(records, cut),
         NEW t \in Txs, IsConfirmed(records'[t].status)
  PROVE  records'[t].status = records[t].status /\ records[t].status.height < cut
<1> DEFINE gone == {u \in Known(records) : records[u].status.height >= cut}
<1>1. records' = Invalidate(records, gone) BY DEF InvalidateFrom
<1>2. ~IsConfirmed(NoRecord.status) BY DEF NoRecord, NoStatus, IsConfirmed
<1>3. /\ t \in gone => records'[t] = NoRecord
      /\ t \notin gone => records'[t].status = records[t].status
  <2> HIDE DEF gone
  <2> QED BY <1>1, InvalidateEffect
<1>4. t \notin gone /\ records'[t].status = records[t].status BY <1>2, <1>3
<1>5. t \in Known(records) BY <1>4 DEF Known, IsConfirmed
<1>6. records[t].status.height \in Nat BY DEF Records, Statuses
<1> QED BY <1>4, <1>5, <1>6

\* A server that never reorganises: every confirmation is final.
FinalInv ==
  /\ \A t \in Txs : IsConfirmed(records[t].status) => mined[t] = records[t].status.height
  /\ \A t \in Txs : IsConfirmed(records[t].status) => records[t].status.height > 0
  /\ sync # "idle" => \A t \in Txs : batch.mined[t] > 0 => mined[t] = batch.mined[t]

\* FinalInv is kept when there is no reorganisation.
LEMMA FinalStep ==
  ASSUME MaxForks = 0, TraceInv, FinalInv, [Next]_vars
  PROVE  FinalInv'
<1>0. /\ WalletInv /\ ServerInv /\ records \in [Txs -> Records] /\ batch.mined \in [Txs -> Nat]
      /\ mined \in [Txs -> Nat] /\ forks \in Nat
  BY WalletTypes DEF TraceInv
<1>1. \A h : ~Reorg(h) BY <1>0 DEF Reorg
<1>2. \A t \in Txs : mined[t] > 0 => mined'[t] = mined[t]
  <2>1. CASE UNCHANGED mined BY <2>1
  <2>2. ASSUME NEW B \in SUBSET mempool, Mine(B) PROVE \A t \in Txs : mined[t] > 0 => mined'[t] = mined[t]
    BY <2>2, <1>0 DEF Mine, ServerInv
  <2>3. CASE Syncer \/ Monitor BY <2>1, <2>3, ChainUntouched
  <2>4. CASE Sender BY <2>1, <2>4, SenderGives
  <2>5. CASE Server BY <1>1, <2>1, <2>2, <2>5 DEF Server, Submit, Evict
  <2>6. CASE UNCHANGED vars BY <2>1, <2>6 DEF vars, chain
  <2> QED BY <2>3, <2>4, <2>5, <2>6 DEF Next
<1>3. ASSUME NEW t \in Txs, IsConfirmed(records'[t].status)
      PROVE  mined'[t] = records'[t].status.height /\ records'[t].status.height > 0
  <2>1. CASE records'[t].status = records[t].status BY <1>2, <1>3, <2>1 DEF FinalInv
  <2>2. CASE sync = "work" /\ batch.mined[t] > 0 /\ records'[t].status = Confirmed(batch.mined[t])
    BY <1>0, <1>2, <2>2, BatchStatus DEF FinalInv
  <2> QED BY <1>3, <2>1, <2>2, ConfirmSource
<1>4. ASSUME sync' # "idle", NEW t \in Txs, batch'.mined[t] > 0 PROVE mined'[t] = batch'.mined[t]
  <2>1. CASE sync # "idle" /\ batch'.mined = batch.mined BY <1>2, <1>4, <2>1 DEF FinalInv
  <2>2. CASE StartBatch
    BY <1>0, <1>4, <2>2 DEF StartBatch, chain
  <2>3. CASE OneBlockReorg \/ EndBatch \/ RollBack
    BY <1>4, <2>3 DEF OneBlockReorg, EndBatch, RollBack, syncing
  <2>4. CASE ReorgBlock \/ PopulateDone
    <3>1. sync # "idle" /\ batch'.mined = batch.mined
      BY <1>0, <2>4 DEF ReorgBlock, PopulateDone, WalletInv, TypeOK
    <3> QED BY <2>1, <3>1
  <2>5. CASE \/ ListNotes \/ UpdateWitnesses \/ Monitor \/ Sender
             \/ \E u \in Txs : DetectNote(u) \/ UpdateNote(u) \/ ScanFullTx(u)
             \/ \E j \in jobs : WorkerFails(j)
    BY <1>4, <2>1, <2>5, HeightsUntouched
  <2>6. CASE Server BY <1>1, <1>4, <2>1, <2>6 DEF Server, Submit, Evict, Mine, syncing
  <2>7. CASE UNCHANGED vars BY <1>4, <2>1, <2>7 DEF vars, syncing
  <2> QED BY <2>2, <2>3, <2>4, <2>5, <2>6, <2>7 DEF Next, Syncer
<1> QED BY <1>3, <1>4 DEF FinalInv

\* The wallet's window of blocks shrinks only by reorganisations.
LEMMA WindowStep ==
  ASSUME ~Faults, TraceInv, WindowInv, [Next]_vars
  PROVE  WindowInv'
<1>0. /\ tip \in Nat /\ agree \in Nat /\ forks \in Nat /\ top \in Nat /\ floor \in Nat
      /\ batch.top \in Nat /\ batch.agree \in Nat /\ MaxForks \in Nat /\ MaxReorg \in Nat
      /\ ~failed /\ AgreeInv /\ WalletInv /\ JobInv
  BY WalletTypes, WalletAssumption, RecordsAssumption DEF TraceInv, WindowInv
<1>1. CASE UNCHANGED <<tip, agree, forks, top, floor, sync, batch, failed>> BY <1>1 DEF WindowInv
<1>2. ASSUME NEW B \in SUBSET mempool, Mine(B) PROVE WindowInv'
  <2>1. tip' = tip + 1 /\ UNCHANGED <<agree, forks, top, floor, sync, batch, failed>>
    BY <1>2 DEF Mine, blocks, syncing
  <2> QED BY <1>0, <2>1 DEF WindowInv
<1>3. ASSUME NEW h \in 1..(tip - 1), Reorg(h) PROVE WindowInv'
  <2>1. /\ forks < MaxForks /\ forks' = forks + 1 /\ UNCHANGED <<top, floor, sync, failed>>
    BY <1>3 DEF Reorg, blocks
  <2> QED BY <1>0, <2>1 DEF WindowInv
<1>4. CASE OneBlockReorg
  <2>1. /\ UNCHANGED <<tip, forks, sync, batch, failed>> /\ sync = "idle" /\ tip = top /\ agree < top
        /\ \/ top' = top - 1 /\ floor' = floor
           \/ floor' = 0
    BY <1>4 DEF OneBlockReorg, InvalidateBlock, chain, syncing
  <2> QED BY <1>0, <2>1 DEF WindowInv
<1>5. CASE StartBatch
  <2>1. /\ UNCHANGED <<tip, forks, failed, top, floor>> /\ sync = "idle" /\ sync' = "reorg"
        /\ batch'.top = tip /\ batch'.agree = tip
    BY <1>5 DEF StartBatch, chain
  <2> QED BY <1>0, <2>1 DEF WindowInv
<1>6. CASE ReorgBlock \/ PopulateDone
  <2>1. /\ UNCHANGED <<forks, failed, top, floor>> /\ sync # "idle" /\ sync' # "idle"
        /\ batch'.top = batch.top /\ batch'.agree = batch.agree
    BY <1>0, <1>6 DEF ReorgBlock, PopulateDone, chain, blocks, WalletInv, TypeOK
  <2> QED BY <2>1 DEF WindowInv
<1>7. CASE EndBatch
  <2>1. /\ UNCHANGED <<forks, failed>> /\ top' = batch.top /\ agree' = batch.agree
        /\ sync = "work" /\ sync' = "idle"
        /\ floor' = IF floor >= SaturatingSub(batch.top, MaxReorg) THEN floor
                    ELSE SaturatingSub(batch.top, MaxReorg)
    BY <1>7 DEF EndBatch
  <2>2. top < batch.top BY <2>1 DEF TraceInv, BatchFacts, BatchHeights
  <2>3. /\ SaturatingSub(batch.top, MaxReorg) \in Nat
        /\ SaturatingSub(batch.top, MaxReorg) > 0 => batch.top = SaturatingSub(batch.top, MaxReorg) + MaxReorg
    BY <1>0 DEF SaturatingSub
  <2>4. CASE floor' = floor BY <1>0, <2>1, <2>2, <2>4 DEF WindowInv
  <2>5. CASE floor' = SaturatingSub(batch.top, MaxReorg) BY <1>0, <2>1, <2>3, <2>5 DEF WindowInv
  <2> QED BY <2>1, <2>4, <2>5
<1>8. ~RollBack /\ \A j \in jobs : ~WorkerFails(j)
  BY <1>0 DEF RollBack, WorkerFails
<1>9. ASSUME NEW s \in Txs, UpdateNote(s) PROVE WindowInv'
  <2>1. UNCHANGED <<tip, agree, forks, top, floor, sync, batch>> BY <1>9, HeightsUntouched
  <2>2. HasNullifier(records, s) BY <1>0, <1>9 DEF UpdateNote, JobInv
  <2>3. ~failed'
    <3>1. failed' = failed \/ failed' = (failed \/ ~HasNullifier(records, s))
      BY <1>9 DEF UpdateNote
    <3> QED BY <1>0, <2>2, <3>1
  <2> QED BY <1>0, <2>1, <2>3 DEF WindowInv
<1>10. CASE ListNotes \/ UpdateWitnesses \/ \E t \in Txs : DetectNote(t) \/ ScanFullTx(t)
  <2>1. UNCHANGED failed BY <1>10 DEF ListNotes, UpdateWitnesses, DetectNote, ScanFullTx
  <2> QED BY <1>1, <1>10, <2>1, HeightsUntouched
<1>11. CASE Monitor \/ Sender
  <2>1. UNCHANGED failed
    BY <1>11, SenderGives DEF syncing, Monitor, MonitorReceives, MonitorLooksUp, MonitorUpgrades, MonitorScans,
       MonitorUpdates
  <2> QED BY <1>1, <1>11, <2>1, HeightsUntouched
<1>12. ASSUME NEW t \in Txs, Submit(t) \/ Evict(t) PROVE WindowInv'
  BY <1>1, <1>12 DEF Submit, Evict, blocks, syncing
<1>13. CASE UNCHANGED vars BY <1>1, <1>13 DEF vars, chain, blocks, syncing
<1> QED BY <1>2, <1>3, <1>4, <1>5, <1>6, <1>7, <1>8, <1>9, <1>10, <1>11, <1>12, <1>13 DEF Next, Server, Syncer

\* With fewer reorganisations than blocks the wallet never runs out of them.
LEMMA WindowHolds ==
  ASSUME MaxForks < MaxReorg, TraceInv, WindowInv, OneBlockReorg
  PROVE  records' = InvalidateFrom(records, top) /\ top' = top - 1 /\ top > 0
<1>0. /\ tip \in Nat /\ agree \in Nat /\ forks \in Nat /\ top \in Nat /\ floor \in Nat
      /\ MaxForks \in Nat /\ MaxReorg \in Nat /\ AgreeInv
  BY WalletTypes, WalletAssumption, RecordsAssumption DEF TraceInv
<1>1. sync = "idle" /\ tip = top /\ agree < top /\ top > 0
  BY DEF OneBlockReorg
<1>2. top - 1 # floor
  <2>1. CASE floor = 0 BY <1>0, <1>1, <2>1 DEF AgreeInv
  <2>2. CASE floor > 0 BY <1>0, <1>1, <2>2 DEF WindowInv
  <2> QED BY <1>0, <2>1, <2>2
<1> QED BY <1>1, <1>2 DEF OneBlockReorg, InvalidateBlock

\* Through reorganisations and batches, a confirmed record stays explained.
LEMMA SoundStep ==
  ASSUME ~Faults, MaxForks < MaxReorg, TraceInv, WindowInv, Sound, [Next]_vars
  PROVE  Sound'
<1>0. /\ tip \in Nat /\ agree \in Nat /\ top \in Nat /\ mined \in [Txs -> Nat]
      /\ batch.first \in Nat /\ batch.existing \in Nat /\ batch.top \in Nat /\ batch.agree \in Nat
      /\ batch.mined \in [Txs -> Nat] /\ sync \in {"idle", "reorg", "work"}
      /\ records \in [Txs -> Records] /\ WalletInv /\ ServerInv /\ ~failed
  BY WalletTypes DEF TraceInv, WindowInv
<1> SUFFICES ASSUME NEW t \in Txs, IsConfirmed(records'[t].status), NEW k, k = records'[t].status.height
             PROVE  Explained(t, k)'
  BY DEF Sound, Explained, OnChain
<1>1. CASE /\ sync = "work" /\ batch.mined[t] > 0 /\ UNCHANGED <<sync, batch, tip, mined, agree, top>>
           /\ records'[t].status = Confirmed(batch.mined[t])
  <2>1. k = batch.mined[t] BY <1>0, <1>1, BatchStatus
  <2> QED BY <1>1, <2>1 DEF Explained
<1>2. ASSUME records'[t].status = records[t].status PROVE Explained(t, k)'
  <2>1. IsConfirmed(records[t].status) /\ k = records[t].status.height BY <1>2
  <2>2. k \in Nat BY <1>0, <2>1 DEF Records, Statuses
  <2>3. Explained(t, k) BY <2>1 DEF Sound
  <2>4. ASSUME NEW c \in Nat, records' = InvalidateFrom(records, c) PROVE k < c
    BY <1>0, <2>1, <2>4, CutBelow
  <2>5. CASE UNCHANGED <<mined, agree, top, sync, batch>> BY <2>3, <2>5 DEF Explained, OnChain
  <2>6. ASSUME NEW B \in SUBSET mempool, Mine(B) PROVE Explained(t, k)'
    <3>1. UNCHANGED <<agree, top, sync, batch>> BY <2>6 DEF Mine, blocks, syncing
    <3>2. mined[t] > 0 => mined'[t] = mined[t] BY <1>0, <2>6 DEF Mine, ServerInv
    <3> QED BY <2>2, <2>3, <3>1, <3>2 DEF Explained, OnChain
  <2>7. ASSUME NEW h \in 1..(tip - 1), Reorg(h) PROVE Explained(t, k)'
    <3>1. /\ UNCHANGED <<top, sync>> /\ agree' = Min2(agree, h)
          /\ mined'[t] = (IF mined[t] > h THEN 0 ELSE mined[t])
          /\ batch'.first = batch.first /\ batch'.existing = batch.existing /\ batch'.mined = batch.mined
      BY <1>0, <2>7 DEF Reorg, blocks, WalletInv, TypeOK
    <3>2. OnChain(t, k) => OnChain(t, k)' BY <1>0, <2>2, <3>1 DEF OnChain, Min2
    <3> QED BY <2>3, <3>1, <3>2 DEF Explained
  <2>8. CASE OneBlockReorg
    <3>1. records' = InvalidateFrom(records, top) /\ top' = top - 1 BY <2>8, WindowHolds
    <3>2. UNCHANGED <<mined, agree>> /\ sync = "idle" /\ sync' = "idle" BY <2>8 DEF OneBlockReorg, chain, syncing
    <3>3. k < top BY <1>0, <2>4, <3>1
    <3> QED BY <1>0, <2>2, <2>3, <3>1, <3>2, <3>3 DEF Explained, OnChain
  <2>9. CASE StartBatch
    <3>1. UNCHANGED <<mined, agree>> /\ sync = "idle" /\ sync' = "reorg" /\ batch'.existing = top
      BY <2>9 DEF StartBatch, chain
    <3> QED BY <2>3, <3>1 DEF Explained, OnChain
  <2>10. CASE ReorgBlock
    <3>1. /\ UNCHANGED <<mined, agree, sync>> /\ sync = "reorg" /\ batch'.existing = batch.existing - 1
          /\ records' = InvalidateFrom(records, batch.existing)
      BY <1>0, <2>10 DEF ReorgBlock, chain, WalletInv, TypeOK
    <3>2. k < batch.existing BY <1>0, <2>4, <3>1
    <3> QED BY <1>0, <2>2, <2>3, <3>1, <3>2 DEF Explained, OnChain
  <2>11. CASE PopulateDone
    <3>1. /\ UNCHANGED <<mined, agree, batch>> /\ sync = "reorg" /\ sync' = "work"
          /\ batch.existing < batch.first
      BY <2>11 DEF PopulateDone, chain
    <3> QED BY <1>0, <2>2, <2>3, <3>1 DEF Explained, OnChain
  <2>12. CASE EndBatch
    <3>1. UNCHANGED mined /\ sync = "work" /\ sync' = "idle" /\ top' = batch.top /\ agree' = batch.agree
      BY <2>12 DEF EndBatch
    <3>2. BatchHeights /\ BatchTxs BY <3>1 DEF TraceInv, BatchFacts
    <3>3. CASE k < batch.first /\ OnChain(t, k)
      BY <1>0, <2>2, <2>3, <3>1, <3>2, <3>3 DEF Explained, OnChain, BatchHeights
    <3>4. CASE batch.mined[t] = k
      <4>1. k > 0 BY <2>3 DEF Explained
      <4> QED BY <1>0, <2>2, <3>1, <3>2, <3>4, <4>1 DEF Explained, OnChain, BatchTxs
    <3> QED BY <2>3, <3>1, <3>3, <3>4 DEF Explained
  <2>13. ~RollBack BY <1>0 DEF RollBack
  <2>14. CASE \/ ListNotes \/ UpdateWitnesses \/ Monitor \/ Sender
              \/ \E v \in Txs : DetectNote(v) \/ UpdateNote(v) \/ ScanFullTx(v)
              \/ \E j \in jobs : WorkerFails(j)
    BY <2>5, <2>14, HeightsUntouched
  <2>15. ASSUME NEW v \in Txs, Submit(v) \/ Evict(v) PROVE Explained(t, k)'
    BY <2>5, <2>15 DEF Submit, Evict, blocks, syncing
  <2>16. CASE UNCHANGED vars BY <2>5, <2>16 DEF vars, chain, blocks, syncing
  <2> QED BY <2>6, <2>7, <2>8, <2>9, <2>10, <2>11, <2>12, <2>13, <2>14, <2>15, <2>16 DEF Next, Server, Syncer
<1> QED BY <1>1, <1>2, ConfirmSource

\* A wallet that keeps blocks to compare takes nothing for confirmed, once it has caught
\* up, that is not on the chain at that height, whichever way the workers, the monitor,
\* the sender and the reorganisations interleave.
THEOREM ConfirmedIsOnChain == KeepsBlocks => (Spec => []OnlyChainIsConfirmed)
<1> SUFFICES ASSUME KeepsBlocks PROVE Spec => []OnlyChainIsConfirmed OBVIOUS
<1>1. CASE MaxForks = 0
  <2>1. Init => FinalInv BY DEF Init, FinalInv, NoRecord, NoStatus, IsConfirmed
  <2>2. TraceInv /\ FinalInv /\ [Next]_vars => FinalInv' BY <1>1, FinalStep
  <2>3. FinalInv => OnlyChainIsConfirmed BY DEF FinalInv, OnlyChainIsConfirmed
  <2> QED BY <2>1, <2>2, <2>3, TraceInvariant, PTL DEF Spec
<1>2. CASE ~Faults /\ MaxForks < MaxReorg
  <2>1. Init => Sound /\ WindowInv
    BY WalletAssumption DEF Init, Sound, WindowInv, NoRecord, NoStatus, IsConfirmed
  <2>2. TraceInv /\ Sound /\ WindowInv /\ [Next]_vars => (Sound /\ WindowInv)'
    BY <1>2, SoundStep, WindowStep
  <2>3. TraceInv /\ Sound => OnlyChainIsConfirmed
    <3> SUFFICES ASSUME TraceInv, Sound, Settled, NEW t \in Txs, IsConfirmed(records[t].status)
                 PROVE  mined[t] = records[t].status.height
      BY DEF OnlyChainIsConfirmed
    <3> QED BY DEF Sound, Explained, OnChain, Settled
  <2> QED BY <2>1, <2>2, <2>3, TraceInvariant, PTL DEF Spec
<1> QED BY <1>1, <1>2 DEF KeepsBlocks
-----------------------------------------------------------------------------
(* Everything on the chain is recorded.  Recorded says it for the blocks that   *)
(* the wallet and the server share.  It is not inductive: a batch passes over   *)
(* notes whose spend is confirmed, so that spend must be the chain's or lie in  *)
(* a block that is popped before (MarksRight), and while the workers run a      *)
(* spend of the batch is marked or some job still has to find it (InBatch).     *)

Current(t) == mined[t] > 0 /\ mined[t] =< Common

RecordedTx(t) ==
  /\ records[t].status = Confirmed(mined[t])
  /\ t \in Pays => records[t].note = "chained"
  /\ \A s \in Spends[t] : records[s].spend.by = t

Recorded == \A t \in Txs : Current(t) /\ (t \in Pays \/ Spends[t] # {}) => RecordedTx(t)

\* The height of a spender that is recorded as confirmed, at each stage of a sync.
Bounded(u, k) ==
  /\ sync = "idle" => k =< top
  /\ sync = "reorg" => k =< batch.existing /\ (k < batch.first => batch.mined[u] = 0)
  /\ sync = "work" => IF k < batch.first THEN batch.mined[u] = 0 ELSE batch.mined[u] = k

MarkRight(s, u, k) ==
  /\ u \in Txs /\ records[u].status = records[s].spend.status
  /\ k > 0 /\ (k =< Common => mined[u] = k)
  /\ Bounded(u, k)

MarksRight ==
  \A s \in Pays : Current(s) /\ IsConfirmed(records[s].spend.status) =>
    MarkRight(s, records[s].spend.by, records[s].spend.status.height)

NotesFound ==
  \A t \in Pays : batch.mined[t] > 0 /\ NoteJob(t) \notin jobs =>
    records[t].status = Confirmed(batch.mined[t]) /\ records[t].note = "chained"

SpendFound(u, s) ==
  \/ records[s].spend.by = u /\ records[u].status = Confirmed(batch.mined[u])
  \/ SpendJob(s) \in jobs
  \/ batch.mined[s] > 0 /\ NoteJob(s) \in jobs
  \/ batch.mined[s] = 0 /\ ListJob \in jobs

SpendsFound ==
  \A u \in Txs : batch.mined[u] > 0 /\ batch.mined[u] =< batch.agree =>
    \A s \in Spends[u] : SpendFound(u, s)

BatchMark(s, u) ==
  /\ u \in Txs /\ batch.mined[u] > 0
  /\ records[s].spend.status = Confirmed(batch.mined[u]) /\ records[u].status = Confirmed(batch.mined[u])

BatchMarks ==
  \A s \in Pays : batch.mined[s] > 0 /\ NoteJob(s) \notin jobs /\ IsConfirmed(records[s].spend.status) =>
    BatchMark(s, records[s].spend.by)

InBatch == sync = "work" /\ ~failed => NotesFound /\ SpendsFound /\ BatchMarks

\* A confirmed status is given by its height.
LEMMA StatusForm ==
  /\ \A st \in Statuses : IsConfirmed(st) => st = Confirmed(st.height) /\ st.height \in Nat
  /\ \A h \in Nat : Confirmed(h).height = h /\ IsConfirmed(Confirmed(h)) /\ Confirmed(h) \in Statuses
  /\ ~IsConfirmed(Unspent.status) /\ ~IsConfirmed(NoRecord.status) /\ ~IsConfirmed(NoRecord.spend.status)
BY DEF Statuses, Kinds, IsConfirmed, Confirmed, Unspent, NoRecord, NoStatus

\* The types of a record's parts.
LEMMA RecordParts ==
  ASSUME records \in [Txs -> Records], NEW t \in Txs
  PROVE  /\ records[t].status \in Statuses /\ records[t].spend.status \in Statuses
         /\ records[t].spend.by \in Txs \cup {NoTx}
BY DEF Records, SpendMarks

\* What the wallet and the server share ends below the batch, and reaches it as far
\* as the batch is still the server's.
LEMMA BatchCommon ==
  ASSUME TraceInv, sync # "idle"
  PROVE  /\ Common \in Nat /\ Common < batch.first
         /\ \A x \in Nat : x < batch.first /\ x =< batch.agree => x =< Common
         /\ batch.agree >= batch.first => \A x \in Nat : x < batch.first => x =< Common
<1>0. /\ agree \in Nat /\ top \in Nat /\ batch.first \in Nat /\ batch.agree \in Nat
      /\ batch.first >= 1 /\ BatchHeights
  BY WalletTypes DEF TraceInv, BatchFacts
<1> QED BY <1>0 DEF BatchHeights, Common, Min2

\* A transaction of the batch is not one of the shared blocks, and spends nothing that
\* another transaction of either spends.
LEMMA BatchApart ==
  ASSUME TraceInv, sync # "idle", NEW u \in Txs, batch.mined[u] > 0
  PROVE  /\ ~Current(u)
         /\ \A v \in Txs, s \in Txs :
              (batch.mined[v] > 0 \/ Current(v)) /\ s \in Spends[u] /\ s \in Spends[v] => u = v
         /\ batch.first =< batch.mined[u] /\ batch.mined[u] =< batch.top
         /\ batch.mined[u] =< batch.agree => mined[u] = batch.mined[u]
<1>0. BatchTxs /\ mined \in [Txs -> Nat] /\ Common \in Nat
  BY WalletTypes, BatchCommon DEF TraceInv, BatchFacts
<1> HIDE DEF Common
<1>1. ~Current(u) BY <1>0 DEF BatchTxs, Current
<1>2. ASSUME NEW v \in Txs, NEW s \in Txs, batch.mined[v] > 0 \/ Current(v), s \in Spends[u], s \in Spends[v], u # v
      PROVE  FALSE
  <2>1. Spends[u] \cap Spends[v] = {} BY <1>0, <1>2 DEF BatchTxs, Current
  <2> QED BY <1>2, <2>1
<1> QED BY <1>0, <1>1, <1>2 DEF BatchTxs

\* The notes that a shared transaction spends are shared.
LEMMA SourceCurrent ==
  ASSUME TraceInv, NEW t \in Txs, Current(t), NEW s \in Spends[t]
  PROVE  s \in Pays /\ s \in Txs /\ Current(s)
<1>0. /\ mined \in [Txs -> Nat] /\ Spends[t] \subseteq Pays /\ Pays \subseteq Txs /\ agree \in Nat /\ top \in Nat
      /\ ServerInv /\ Common \in Nat
  BY WalletTypes DEF TraceInv, Common, Min2
<1> HIDE DEF Common
<1>1. mined[s] > 0 /\ mined[s] =< mined[t] BY <1>0 DEF ServerInv, Current
<1> QED BY <1>0, <1>1 DEF Current

\* Steps that leave the map alone, and look at no more of the chain than before.
LEMMA MapLeftAlone ==
  ASSUME TraceInv, Recorded, MarksRight, UNCHANGED records,
         \A t \in Txs : Current(t)' => Current(t) /\ mined'[t] = mined[t],
         \A u \in Txs, k \in Nat : k > 0 /\ (k =< Common => mined[u] = k) /\ Bounded(u, k)
           => (k =< Common' => mined'[u] = k) /\ Bounded(u, k)'
  PROVE  Recorded' /\ MarksRight'
<1>0. records \in [Txs -> Records] /\ Pays \subseteq Txs BY WalletTypes DEF TraceInv
<1>1. Recorded' BY DEF Recorded, RecordedTx
<1>2. ASSUME NEW s \in Pays, Current(s)', IsConfirmed(records[s].spend.status),
             NEW u, u = records[s].spend.by, NEW k, k = records[s].spend.status.height
      PROVE  MarkRight(s, u, k)'
  <2>1. s \in Txs /\ Current(s) BY <1>0, <1>2
  <2>2. MarkRight(s, u, k) BY <1>2, <2>1 DEF MarksRight
  <2>3. k \in Nat BY <1>0, <1>2, <2>1, RecordParts, StatusForm
  <2> QED BY <2>2, <2>3 DEF MarkRight
<1>3. MarksRight' BY <1>2 DEF MarksRight
<1> QED BY <1>1, <1>3

\* Records are removed from a height above everything the wallet and the server share.
LEMMA MapCut ==
  ASSUME TraceInv, Recorded, MarksRight, UNCHANGED mined,
         NEW cut \in Nat, records' = InvalidateFrom(records, cut),
         Common' \in Nat, Common \in Nat, Common' =< Common, Common' < cut,
         Common' > 0 => \A u \in Txs, k \in Nat : k < cut /\ Bounded(u, k) => Bounded(u, k)'
  PROVE  Recorded' /\ MarksRight'
<1> DEFINE gone == {u \in Known(records) : records[u].status.height >= cut}
<1>0. /\ records \in [Txs -> Records] /\ Pays \subseteq Txs /\ mined \in [Txs -> Nat]
      /\ \A t \in Txs : Spends[t] \subseteq Txs
  BY WalletTypes DEF TraceInv
<1>1. records' = Invalidate(records, gone) BY DEF InvalidateFrom
<1>2. \A u \in gone : ~(records[u].status.height < cut)
  <2>1. \A u \in Txs : records[u].status.height \in Nat BY <1>0 DEF Records, Statuses
  <2> QED BY <2>1 DEF Known
<1>3. \A u \in Txs : u \notin gone => records[u].status.height < cut \/ ~IsConfirmed(records[u].status)
  <2>1. \A u \in Txs : records[u].status.height \in Nat BY <1>0 DEF Records, Statuses
  <2> QED BY <2>1 DEF Known, IsConfirmed
<1> HIDE DEF gone
<1>4. \A u \in Txs :
        /\ u \in gone => records'[u] = NoRecord
        /\ u \notin gone =>
             /\ records'[u].status = records[u].status /\ records'[u].note = records[u].note
             /\ records'[u].spent = records[u].spent
             /\ records'[u].spend = IF records[u].spend.by \in gone THEN Unspent ELSE records[u].spend
  BY <1>0, <1>1, InvalidateEffect
<1> HIDE DEF Common
<1>5. \A t \in Txs : Current(t)' => Current(t) /\ mined[t] < cut BY <1>0 DEF Current
<1>6. ASSUME NEW t \in Txs, Current(t)', t \in Pays \/ Spends[t] # {} PROVE RecordedTx(t)' /\ t \notin gone
  <2>1. RecordedTx(t) /\ mined[t] < cut /\ Current(t) BY <1>5, <1>6 DEF Recorded
  <2>2. t \notin gone BY <1>0, <1>2, <2>1, StatusForm DEF RecordedTx
  <2>3. ASSUME NEW s \in Spends[t] PROVE records'[s].spend.by = t
    <3>1. s \in Pays /\ s \in Txs /\ Current(s) BY <2>1, SourceCurrent
    <3>2. mined[s] < cut
      <4>1. mined[s] =< mined[t] BY <2>1 DEF TraceInv, ServerInv, Current
      <4> QED BY <1>0, <2>1, <3>1, <4>1
    <3>3. records[s].status = Confirmed(mined[s]) BY <3>1 DEF Recorded, RecordedTx
    <3>4. s \notin gone BY <1>0, <1>2, <3>1, <3>2, <3>3, StatusForm
    <3> QED BY <1>4, <2>1, <2>2, <3>1, <3>4 DEF RecordedTx
  <2> QED BY <1>4, <2>1, <2>2, <2>3 DEF RecordedTx
<1>7. ASSUME NEW s \in Pays, Current(s)', IsConfirmed(records'[s].spend.status),
             NEW u, u = records'[s].spend.by, NEW k, k = records'[s].spend.status.height
      PROVE  MarkRight(s, u, k)'
  <2>1. s \in Txs /\ s \notin gone /\ Current(s) BY <1>0, <1>5, <1>6, <1>7
  <2>2. u \notin gone /\ records'[s].spend = records[s].spend BY <1>4, <1>7, <2>1, StatusForm
  <2>3. MarkRight(s, u, k) BY <1>7, <2>1, <2>2 DEF MarksRight
  <2>4. k \in Nat /\ k < cut
    <3>1. k \in Nat BY <1>0, <1>7, <2>1, <2>2, RecordParts, StatusForm
    <3>2. IsConfirmed(records[u].status) /\ records[u].status.height = k BY <1>7, <2>2, <2>3 DEF MarkRight
    <3> QED BY <1>3, <2>2, <2>3, <3>1, <3>2 DEF MarkRight
  <2>5. Common' > 0 BY <1>0, <1>7, <2>1 DEF Current
  <2> QED BY <1>4, <2>2, <2>3, <2>4, <2>5 DEF MarkRight
<1>8. MarksRight' BY <1>7 DEF MarksRight
<1>9. Recorded' BY <1>6 DEF Recorded
<1> QED BY <1>8, <1>9

\* What a worker of the batch may do to the map.
WorkWrite(m, n) ==
  \A v \in Txs :
    /\ n[v].status = m[v].status \/ (batch.mined[v] > 0 /\ n[v].status = Confirmed(batch.mined[v]))
    /\ m[v].note = "chained" => n[v].note = "chained"
    /\ \/ n[v].spend = m[v].spend
       \/ batch.mined[v] > 0 /\ n[v].spend = Unspent
       \/ \E u \in Txs : /\ batch.mined[u] > 0 /\ v \in Spends[u]
                         /\ n[v].spend = [by |-> u, status |-> Confirmed(batch.mined[u])]
                         /\ n[u].status = Confirmed(batch.mined[u])

\* A worker leaves the shared blocks alone.
LEMMA MapWorked ==
  ASSUME TraceInv, Recorded, MarksRight, sync = "work",
         UNCHANGED <<mined, agree, top, sync, batch>>, WorkWrite(records, records')
  PROVE  Recorded' /\ MarksRight'
<1>0. /\ records \in [Txs -> Records] /\ Pays \subseteq Txs /\ mined \in [Txs -> Nat]
      /\ \A t \in Txs : Spends[t] \subseteq Pays
      /\ batch.mined \in [Txs -> Nat] /\ batch.first \in Nat /\ batch.first >= 1
  BY WalletTypes DEF TraceInv
<1>1. Common' = Common /\ \A t \in Txs : Current(t)' = Current(t) BY DEF Common, Current
<1>2. Common \in Nat /\ Common < batch.first BY BatchCommon
<1> HIDE DEF Common
<1>3. \A t \in Txs : Current(t) => batch.mined[t] = 0
  <2>1. ASSUME NEW t \in Txs, Current(t), batch.mined[t] # 0 PROVE FALSE
    <3>1. batch.mined[t] > 0 BY <1>0, <2>1
    <3> QED BY <2>1, <3>1, BatchApart
  <2> QED BY <2>1
<1>4. ASSUME NEW t \in Txs, Current(t), t \in Pays \/ Spends[t] # {} PROVE RecordedTx(t)'
  <2>1. RecordedTx(t) /\ batch.mined[t] = 0 BY <1>3, <1>4 DEF Recorded
  <2>2. records'[t].status = records[t].status /\ (records[t].note = "chained" => records'[t].note = "chained")
    BY <2>1 DEF WorkWrite
  <2>3. ASSUME NEW s \in Spends[t] PROVE records'[s].spend.by = t
    <3>1. s \in Txs /\ batch.mined[s] = 0 /\ records[s].spend.by = t
      BY <1>3, <1>4, <2>1, SourceCurrent DEF RecordedTx
    <3>2. ASSUME NEW u \in Txs, batch.mined[u] > 0, s \in Spends[u] PROVE FALSE
      BY <1>4, <2>1, <2>3, <3>1, <3>2, BatchApart
    <3>3. \/ records'[s].spend = records[s].spend
          \/ batch.mined[s] > 0 /\ records'[s].spend = Unspent
          \/ \E u \in Txs : /\ batch.mined[u] > 0 /\ s \in Spends[u]
                            /\ records'[s].spend = [by |-> u, status |-> Confirmed(batch.mined[u])]
                            /\ records'[u].status = Confirmed(batch.mined[u])
      BY <3>1 DEF WorkWrite
    <3>4. ~(batch.mined[s] > 0) BY <3>1
    <3>5. records'[s].spend = records[s].spend BY <3>2, <3>3, <3>4
    <3> QED BY <3>1, <3>5
  <2> QED BY <2>1, <2>2, <2>3 DEF RecordedTx
<1>5. ASSUME NEW s \in Pays, Current(s), IsConfirmed(records'[s].spend.status),
             NEW u, u = records'[s].spend.by, NEW k, k = records'[s].spend.status.height
      PROVE  MarkRight(s, u, k)'
  <2>1. s \in Txs /\ batch.mined[s] = 0 BY <1>0, <1>3, <1>5
  <2>2. CASE records'[s].spend = records[s].spend
    <3>1. MarkRight(s, u, k) /\ IsConfirmed(records[s].spend.status) BY <1>5, <2>2 DEF MarksRight
    <3>2. k \in Nat /\ records[s].spend.status = Confirmed(k)
      BY <1>0, <1>5, <2>1, <2>2, RecordParts, StatusForm
    <3>3. records'[u].status = records[s].spend.status
      <4>1. u \in Txs /\ records[u].status = records[s].spend.status BY <3>1 DEF MarkRight
      <4>2. batch.mined[u] > 0 => batch.mined[u] = k
        BY <3>1 DEF MarkRight, Bounded
      <4> QED BY <3>2, <4>1, <4>2 DEF WorkWrite
    <3>4. Bounded(u, k)' BY <3>1 DEF MarkRight, Bounded
    <3> QED BY <1>1, <2>2, <3>1, <3>3, <3>4 DEF MarkRight
  <2>3. ASSUME NEW w \in Txs, batch.mined[w] > 0, s \in Spends[w],
               records'[s].spend = [by |-> w, status |-> Confirmed(batch.mined[w])],
               records'[w].status = Confirmed(batch.mined[w])
        PROVE  MarkRight(s, u, k)'
    <3>1. u = w /\ k = batch.mined[w] /\ k \in Nat BY <1>0, <1>5, <2>3, StatusForm
    <3>2. batch.first =< k BY <2>3, <3>1, BatchApart
    <3>3. ~(k =< Common) /\ ~(k < batch.first) BY <1>0, <1>2, <3>1, <3>2
    <3>4. Bounded(u, k)' BY <3>1, <3>3 DEF Bounded
    <3> QED BY <1>1, <2>3, <3>1, <3>3, <3>4 DEF MarkRight
  <2>4. \/ records'[s].spend = records[s].spend
        \/ batch.mined[s] > 0 /\ records'[s].spend = Unspent
        \/ \E w \in Txs : /\ batch.mined[w] > 0 /\ s \in Spends[w]
                          /\ records'[s].spend = [by |-> w, status |-> Confirmed(batch.mined[w])]
                          /\ records'[w].status = Confirmed(batch.mined[w])
    BY <2>1 DEF WorkWrite
  <2> QED BY <1>5, <2>1, <2>2, <2>3, <2>4, StatusForm
<1>6. Recorded' BY <1>1, <1>4 DEF Recorded
<1>7. MarksRight' BY <1>0, <1>1, <1>5 DEF MarksRight
<1> QED BY <1>6, <1>7

\* The notes of the batch, through a step of a worker.
LEMMA BatchWorked ==
  ASSUME TraceInv, NotesFound, BatchMarks, UNCHANGED batch, WorkWrite(records, records'),
         \A v \in Pays : batch.mined[v] > 0 /\ NoteJob(v) \notin jobs' =>
           \/ NoteJob(v) \notin jobs
           \/ /\ records'[v].status = Confirmed(batch.mined[v]) /\ records'[v].note = "chained"
              /\ records'[v].spend = Unspent
  PROVE  NotesFound' /\ BatchMarks'
<1>0. Pays \subseteq Txs /\ batch.mined \in [Txs -> Nat] /\ \A t \in Txs : Spends[t] \subseteq Pays
  BY WalletTypes DEF TraceInv
<1>1. ASSUME NEW t \in Pays, batch.mined[t] > 0, NoteJob(t) \notin jobs'
      PROVE  records'[t].status = Confirmed(batch.mined[t]) /\ records'[t].note = "chained"
  <2>1. t \in Txs BY <1>0
  <2>2. CASE NoteJob(t) \notin jobs BY <1>1, <2>1, <2>2 DEF NotesFound, WorkWrite
  <2> QED BY <1>1, <2>2
<1>2. ASSUME NEW s \in Pays, batch.mined[s] > 0, NoteJob(s) \notin jobs', IsConfirmed(records'[s].spend.status),
             NEW u, u = records'[s].spend.by
      PROVE  BatchMark(s, u)'
  <2>1. s \in Txs /\ NoteJob(s) \notin jobs BY <1>0, <1>2, StatusForm
  <2>2. CASE records'[s].spend = records[s].spend
    <3>1. BatchMark(s, u) BY <1>2, <2>1, <2>2 DEF BatchMarks
    <3>2. u \in Txs /\ records'[u].status = Confirmed(batch.mined[u]) BY <3>1 DEF BatchMark, WorkWrite
    <3> QED BY <2>2, <3>1, <3>2 DEF BatchMark
  <2>3. ASSUME NEW w \in Txs, batch.mined[w] > 0,
               records'[s].spend = [by |-> w, status |-> Confirmed(batch.mined[w])],
               records'[w].status = Confirmed(batch.mined[w])
        PROVE  BatchMark(s, u)'
    BY <1>2, <2>3 DEF BatchMark
  <2>4. \/ records'[s].spend = records[s].spend
        \/ records'[s].spend = Unspent
        \/ \E w \in Txs : /\ batch.mined[w] > 0 /\ s \in Spends[w]
                          /\ records'[s].spend = [by |-> w, status |-> Confirmed(batch.mined[w])]
                          /\ records'[w].status = Confirmed(batch.mined[w])
    BY <2>1 DEF WorkWrite
  <2> QED BY <1>2, <2>2, <2>3, <2>4, StatusForm
<1>3. NotesFound' BY <1>1 DEF NotesFound
<1>4. BatchMarks' BY <1>2 DEF BatchMarks
<1> QED BY <1>3, <1>4

\* A spend of the batch is found, or the job that finds it is still there.
LEMMA SpendsWorked ==
  ASSUME TraceInv, sync = "work", SpendsFound, UNCHANGED batch, WorkWrite(records, records'),
         \A s \in Txs :
           \/ SpendJob(s) \in jobs'
           \/ /\ records'[s].spend = records[s].spend /\ SpendJob(s) \notin jobs
              /\ NoteJob(s) \in jobs => NoteJob(s) \in jobs'
              /\ ListJob \in jobs => ListJob \in jobs'
           \/ \E w \in Spender(s) : records'[s].spend.by = w /\ records'[w].status = Confirmed(batch.mined[w])
           \/ Spender(s) = {}
  PROVE  SpendsFound'
<1>0. Pays \subseteq Txs /\ batch.mined \in [Txs -> Nat] /\ \A t \in Txs : Spends[t] \subseteq Pays
  BY WalletTypes DEF TraceInv
<1>1. ASSUME NEW u \in Txs, batch.mined[u] > 0, batch.mined[u] =< batch.agree, NEW s \in Spends[u]
      PROVE  SpendFound(u, s)'
  <2>0. s \in Txs /\ u \in Spender(s) /\ SpendFound(u, s) BY <1>0, <1>1 DEF Spender, SpendsFound
  <2>1. CASE SpendJob(s) \in jobs' BY <2>1 DEF SpendFound
  <2>2. CASE /\ records'[s].spend = records[s].spend /\ SpendJob(s) \notin jobs
             /\ NoteJob(s) \in jobs => NoteJob(s) \in jobs'
             /\ ListJob \in jobs => ListJob \in jobs'
    <3>1. records[u].status = Confirmed(batch.mined[u]) => records'[u].status = Confirmed(batch.mined[u])
      BY DEF WorkWrite
    <3> QED BY <2>0, <2>2, <3>1 DEF SpendFound
  <2>3. ASSUME NEW w \in Spender(s), records'[s].spend.by = w, records'[w].status = Confirmed(batch.mined[w])
        PROVE  SpendFound(u, s)'
    <3>1. w \in Txs /\ batch.mined[w] > 0 /\ s \in Spends[w] BY <2>3 DEF Spender
    <3>2. w = u BY <1>1, <2>0, <3>1, BatchApart
    <3> QED BY <2>3, <3>2 DEF SpendFound
  <2> QED BY <2>0, <2>1, <2>2, <2>3
<1> QED BY <1>1 DEF SpendsFound

\* The notes that are listed have the spends of the batch among them: a note whose spend
\* is taken for confirmed already is spent by the batch, or not by it at all.
LEMMA ListingFinds ==
  ASSUME TraceInv, sync = "work", Recorded, MarksRight, SpendsFound, ListNotes
  PROVE  SpendsFound'
<1>0. /\ Pays \subseteq Txs /\ batch.mined \in [Txs -> Nat] /\ \A t \in Txs : Spends[t] \subseteq Pays
      /\ mined \in [Txs -> Nat] /\ batch.first \in Nat /\ batch.agree \in Nat /\ batch.first >= 1
      /\ records \in [Txs -> Records] /\ WalletInv /\ ServerInv /\ ListsSpends /\ BatchTxs
  BY WalletTypes DEF TraceInv, BatchFacts
<1>1. /\ UNCHANGED <<records, batch>>
      /\ jobs' = (jobs \ {ListJob}) \cup {SpendJob(s) : s \in NotesForUpdating(records, batch.first - 1)}
  BY DEF ListNotes
<1>2. ASSUME NEW u \in Txs, batch.mined[u] > 0, batch.mined[u] =< batch.agree, NEW s \in Spends[u],
             batch.mined[s] = 0
      PROVE  \/ records[s].spend.by = u /\ records[u].status = Confirmed(batch.mined[u])
             \/ s \in NotesForUpdating(records, batch.first - 1)
  <2>1. s \in Pays /\ s \in Txs BY <1>0
  <2>2. mined[u] = batch.mined[u] /\ batch.first =< batch.mined[u] BY <1>2, BatchApart
  <2>3. mined[s] > 0 /\ mined[s] =< mined[u] BY <1>0, <1>2, <2>2 DEF ServerInv
  <2>4. mined[s] < batch.first
    <3>1. ASSUME mined[s] >= batch.first PROVE FALSE
      <4>1. mined[s] =< batch.agree BY <1>0, <1>2, <2>1, <2>2, <2>3
      <4>2. batch.mined[s] = mined[s] BY <1>0, <2>1, <3>1, <4>1 DEF BatchTxs
      <4> QED BY <1>0, <1>2, <2>1, <2>3, <4>2
    <3> QED BY <1>0, <2>1, <3>1
  <2>5. Common \in Nat /\ \A x \in Nat : x < batch.first => x =< Common
    BY <1>0, <1>2, <2>2, BatchCommon
  <2>6. Current(s) BY <1>0, <2>1, <2>3, <2>4, <2>5 DEF Current
  <2>7. /\ IsConfirmed(records[s].status) /\ records[s].status.height =< batch.first - 1
        /\ HasNullifier(records, s)
    BY <1>0, <2>1, <2>4, <2>6, StatusForm DEF Recorded, RecordedTx, HasNullifier
  <2>8. CASE ~IsConfirmed(records[s].spend.status) BY <2>1, <2>7, <2>8 DEF NotesForUpdating
  <2>9. CASE IsConfirmed(records[s].spend.status)
    <3> DEFINE v == records[s].spend.by
               k == records[s].spend.status.height
    <3>1. MarkRight(s, v, k) BY <2>1, <2>6, <2>9 DEF MarksRight
    <3>2. k \in Nat /\ records[s].spend.status = Confirmed(k) BY <1>0, <2>1, <2>9, RecordParts, StatusForm
    <3>3. v \in Txs /\ s \in Spends[v]
      <4>1. v \in Txs /\ v # NoTx BY <3>1, RecordsAssumption DEF MarkRight
      <4>2. s \in records[v].spent BY <1>0, <2>1, <4>1 DEF WalletInv, MapOK, Listed
      <4> QED BY <1>0, <4>1, <4>2 DEF ListsSpends
    <3> HIDE DEF v, k
    <3>4. batch.mined[v] > 0 \/ Current(v)
      <4>1. CASE k < batch.first
        <5>1. k =< Common /\ mined[v] = k /\ k > 0 BY <2>5, <3>1, <3>2, <4>1 DEF MarkRight
        <5> QED BY <5>1 DEF Current
      <4>2. CASE ~(k < batch.first) BY <3>1, <4>2 DEF MarkRight, Bounded
      <4> QED BY <4>1, <4>2
    <3>5. v = u BY <1>2, <2>1, <3>3, <3>4, BatchApart
    <3>6. ~(k < batch.first) BY <1>2, <3>1, <3>5 DEF MarkRight, Bounded
    <3>7. batch.mined[u] = k BY <3>1, <3>5, <3>6 DEF MarkRight, Bounded
    <3> QED BY <3>1, <3>2, <3>5, <3>7 DEF MarkRight, v
  <2> QED BY <2>8, <2>9
<1>3. ASSUME NEW u \in Txs, batch.mined[u] > 0, batch.mined[u] =< batch.agree, NEW s \in Spends[u]
      PROVE  SpendFound(u, s)'
  <2>1. SpendFound(u, s) /\ s \in Txs BY <1>0, <1>3 DEF SpendsFound
  <2>2. /\ SpendJob(s) \in jobs => SpendJob(s) \in jobs'
        /\ NoteJob(s) \in jobs => NoteJob(s) \in jobs'
        /\ s \in NotesForUpdating(records, batch.first - 1) => SpendJob(s) \in jobs'
    BY <1>1, <2>1, JobsDiffer
  <2> QED BY <1>1, <1>2, <1>3, <2>1, <2>2 DEF SpendFound
<1> QED BY <1>1, <1>3 DEF SpendsFound

\* The workers of a batch keep the three facts.
LEMMA WorkersQuiet ==
  ASSUME TraceInv, Recorded, MarksRight, InBatch,
         \/ ListNotes \/ UpdateWitnesses
         \/ \E t \in Txs : DetectNote(t) \/ UpdateNote(t) \/ ScanFullTx(t)
         \/ \E j \in jobs : WorkerFails(j)
  PROVE  Recorded' /\ MarksRight' /\ InBatch'
<1>0. /\ WalletInv /\ JobInv /\ records \in [Txs -> Records] /\ Pays \subseteq Txs
      /\ \A t \in Txs : Spends[t] \subseteq Pays
  BY WalletTypes DEF TraceInv
<1>1. UNCHANGED <<tip, mined, agree, forks, top, floor, sync, batch>> BY HeightsUntouched
<1>2. sync = "work" BY <1>0 DEF JobInv, ListNotes, UpdateWitnesses, DetectNote, UpdateNote, ScanFullTx
<1>3. ASSUME UNCHANGED records PROVE Recorded' /\ MarksRight' /\ WorkWrite(records, records')
  <2>1. WorkWrite(records, records') BY <1>3 DEF WorkWrite
  <2> QED BY <1>1, <1>2, <2>1, MapWorked
<1>4. CASE \E j \in jobs : WorkerFails(j)
  <2>1. UNCHANGED records /\ failed' = TRUE BY <1>4 DEF WorkerFails
  <2> QED BY <1>3, <2>1 DEF InBatch
<1>5. CASE ListNotes
  <2>1. /\ UNCHANGED <<records, failed>>
        /\ jobs' = (jobs \ {ListJob}) \cup {SpendJob(s) : s \in NotesForUpdating(records, batch.first - 1)}
    BY <1>5 DEF ListNotes
  <2>2. ASSUME ~failed PROVE NotesFound' /\ SpendsFound' /\ BatchMarks'
    <3>0. NotesFound /\ SpendsFound /\ BatchMarks BY <1>2, <2>2 DEF InBatch
    <3>1. SpendsFound' BY <1>2, <1>5, <3>0, ListingFinds
    <3>2. \A v \in Pays : NoteJob(v) \notin jobs' => NoteJob(v) \notin jobs BY <1>0, <2>1, JobsDiffer
    <3>3. NotesFound' /\ BatchMarks' BY <1>1, <1>3, <2>1, <3>0, <3>2, BatchWorked
    <3> QED BY <3>1, <3>3
  <2> QED BY <1>3, <2>1, <2>2 DEF InBatch
<1>6. ASSUME WorkWrite(records, records'), UNCHANGED failed,
             \A v \in Pays : batch.mined[v] > 0 /\ NoteJob(v) \notin jobs' =>
               \/ NoteJob(v) \notin jobs
               \/ /\ records'[v].status = Confirmed(batch.mined[v]) /\ records'[v].note = "chained"
                  /\ records'[v].spend = Unspent,
             \A s \in Txs :
               \/ SpendJob(s) \in jobs'
               \/ /\ records'[s].spend = records[s].spend /\ SpendJob(s) \notin jobs
                  /\ NoteJob(s) \in jobs => NoteJob(s) \in jobs'
                  /\ ListJob \in jobs => ListJob \in jobs'
               \/ \E w \in Spender(s) : records'[s].spend.by = w /\ records'[w].status = Confirmed(batch.mined[w])
               \/ Spender(s) = {}
      PROVE  Recorded' /\ MarksRight' /\ InBatch'
  <2>1. Recorded' /\ MarksRight' BY <1>1, <1>2, <1>6, MapWorked
  <2>2. ASSUME ~failed PROVE NotesFound' /\ SpendsFound' /\ BatchMarks'
    <3>0. NotesFound /\ SpendsFound /\ BatchMarks BY <1>2, <2>2 DEF InBatch
    <3>1. SpendsFound' BY <1>1, <1>2, <1>6, <3>0, SpendsWorked
    <3>2. NotesFound' /\ BatchMarks' BY <1>1, <1>6, <3>0, BatchWorked
    <3> QED BY <3>1, <3>2
  <2> QED BY <1>6, <2>1, <2>2 DEF InBatch
<1>7. CASE UpdateWitnesses
  <2>1. UNCHANGED <<records, failed>> /\ jobs' = jobs \ {WitnessJob} BY <1>7 DEF UpdateWitnesses
  <2> QED BY <1>0, <1>3, <1>6, <2>1, JobsDiffer
<1>8. ASSUME NEW t \in Txs, ScanFullTx(t) PROVE Recorded' /\ MarksRight' /\ InBatch'
  <2>1. UNCHANGED failed /\ jobs' = jobs \ {FullJob(t)} /\ batch.mined[t] > 0
    BY <1>0, <1>8 DEF ScanFullTx, JobInv
  <2>2. /\ records'[t].status \in {records[t].status, Confirmed(batch.mined[t])}
        /\ \A v \in Txs : /\ v # t => records'[v].status = records[v].status
                          /\ records'[v].note = records[v].note
                          /\ records'[v].spend = records[v].spend
                          /\ records'[v].spent = records[v].spent
    BY <1>0, <1>8, ScanFullTxEffect
  <2>3. WorkWrite(records, records') BY <2>1, <2>2 DEF WorkWrite
  <2>4. \A v \in Txs : /\ NoteJob(v) \in jobs => NoteJob(v) \in jobs'
                       /\ SpendJob(v) \in jobs => SpendJob(v) \in jobs'
    BY <2>1, JobsDiffer
  <2>5. ListJob \in jobs => ListJob \in jobs' BY <2>1, JobsDiffer
  <2> QED BY <1>0, <1>6, <2>1, <2>2, <2>3, <2>4, <2>5
<1>9. ASSUME NEW t \in Txs, DetectNote(t) PROVE Recorded' /\ MarksRight' /\ InBatch'
  <2>1. /\ UNCHANGED failed /\ jobs' = (jobs \ {NoteJob(t)}) \cup {SpendJob(t), FullJob(t)}
        /\ batch.mined[t] > 0
    BY <1>0, <1>9 DEF DetectNote, JobInv
  <2>2. /\ records'[t].status = Confirmed(batch.mined[t])
        /\ records'[t].note = "chained" /\ records'[t].spend = Unspent
        /\ \A v \in Txs : records'[v].spent = records[v].spent
        /\ \A v \in Txs : v # t => /\ records'[v].status = records[v].status
                                   /\ records'[v].note = records[v].note
                                   /\ records'[v].spend = records[v].spend
    BY <1>0, <1>9, DetectNoteEffect
  <2>3. WorkWrite(records, records') BY <2>1, <2>2 DEF WorkWrite
  <2>4. /\ SpendJob(t) \in jobs'
        /\ \A v \in Txs : /\ v # t /\ NoteJob(v) \in jobs => NoteJob(v) \in jobs'
                          /\ SpendJob(v) \in jobs => SpendJob(v) \in jobs'
    BY <2>1, JobsDiffer
  <2>5. ListJob \in jobs => ListJob \in jobs' BY <2>1, JobsDiffer
  <2> QED BY <1>0, <1>6, <2>1, <2>2, <2>3, <2>4, <2>5
<1>10. ASSUME NEW s \in Txs, UpdateNote(s) PROVE Recorded' /\ MarksRight' /\ InBatch'
  <2>0. records[s].note = "chained" /\ HasNullifier(records, s)
    BY <1>0, <1>10 DEF UpdateNote, JobInv, HasNullifier
  <2>1. ASSUME Spender(s) = {}, jobs' = jobs \ {SpendJob(s)}, UNCHANGED <<records, failed>>
        PROVE  Recorded' /\ MarksRight' /\ InBatch'
    <3>1. \A v \in Txs : /\ NoteJob(v) \in jobs => NoteJob(v) \in jobs'
                         /\ v # s /\ SpendJob(v) \in jobs => SpendJob(v) \in jobs'
      BY <2>1, JobsDiffer
    <3>2. ListJob \in jobs => ListJob \in jobs' BY <2>1, JobsDiffer
    <3> QED BY <1>0, <1>3, <1>6, <2>1, <3>1, <3>2
  <2>2. ASSUME NEW u \in Spender(s), records' = FoundSpent(records, u, Confirmed(batch.mined[u]), s),
               jobs' = (jobs \ {SpendJob(s)}) \cup {FullJob(u)},
               failed' = (failed \/ ~HasNullifier(records, s))
        PROVE  Recorded' /\ MarksRight' /\ InBatch'
    <3>1. /\ u \in Txs /\ s \in Spends[u] /\ batch.mined[u] > 0
          /\ records'[u].status = Confirmed(batch.mined[u])
          /\ records'[s].spend = [by |-> u, status |-> Confirmed(batch.mined[u])]
          /\ records'[u].spent = records[u].spent \cup {s}
          /\ \A v \in Txs : /\ records'[v].note = records[v].note
                            /\ v # u => records'[v].status = records[v].status
                            /\ v # s => records'[v].spend = records[v].spend
                            /\ v # u => records'[v].spent = records[v].spent
      BY <1>0, <2>0, <2>2, UpdateNoteEffect
    <3>2. WorkWrite(records, records') BY <3>1 DEF WorkWrite
    <3>3. \A v \in Txs : /\ NoteJob(v) \in jobs => NoteJob(v) \in jobs'
                         /\ v # s /\ SpendJob(v) \in jobs => SpendJob(v) \in jobs'
      BY <2>2, JobsDiffer
    <3>4. ListJob \in jobs => ListJob \in jobs' BY <2>2, JobsDiffer
    <3>5. UNCHANGED failed BY <1>0, <2>0, <2>2 DEF WalletInv, TypeOK
    <3>6. \A x \in Txs :
            \/ SpendJob(x) \in jobs'
            \/ /\ records'[x].spend = records[x].spend /\ SpendJob(x) \notin jobs
               /\ NoteJob(x) \in jobs => NoteJob(x) \in jobs'
               /\ ListJob \in jobs => ListJob \in jobs'
            \/ \E w \in Spender(x) : records'[x].spend.by = w /\ records'[w].status = Confirmed(batch.mined[w])
            \/ Spender(x) = {}
      <4>1. ASSUME NEW x \in Txs, x # s
            PROVE  \/ SpendJob(x) \in jobs'
                   \/ /\ records'[x].spend = records[x].spend /\ SpendJob(x) \notin jobs
                      /\ NoteJob(x) \in jobs => NoteJob(x) \in jobs'
                      /\ ListJob \in jobs => ListJob \in jobs'
        BY <3>1, <3>3, <3>4, <4>1
      <4>2. records'[s].spend.by = u BY <3>1
      <4> QED BY <2>2, <3>1, <4>1, <4>2
    <3> QED BY <1>0, <1>6, <3>2, <3>3, <3>5, <3>6
  <2> QED BY <1>10, <2>1, <2>2 DEF UpdateNote
<1> QED BY <1>4, <1>5, <1>7, <1>8, <1>9, <1>10

\* The server: what it mines is above the shared blocks, what it takes back is no longer
\* shared.
LEMMA ServerQuiet ==
  ASSUME TraceInv, Recorded, MarksRight, InBatch, Server
  PROVE  Recorded' /\ MarksRight' /\ InBatch'
<1>0. /\ mined \in [Txs -> Nat] /\ agree \in Nat /\ top \in Nat /\ tip \in Nat /\ WalletInv /\ ServerInv /\ AgreeInv
      /\ batch.agree \in Nat /\ batch.mined \in [Txs -> Nat]
  BY WalletTypes DEF TraceInv
<1>1. ASSUME NEW t \in Txs, Submit(t) \/ Evict(t) PROVE Recorded' /\ MarksRight' /\ InBatch'
  <2>1. UNCHANGED <<mined, agree, top, records, sync, batch, jobs, failed>> BY <1>1 DEF Submit, Evict, blocks, syncing
  <2> QED BY <2>1 DEF Recorded, RecordedTx, Current, Common, MarksRight, MarkRight, Bounded, InBatch, NotesFound,
     SpendsFound, SpendFound, BatchMarks, BatchMark
<1>2. ASSUME NEW B \in SUBSET mempool, Mine(B) PROVE Recorded' /\ MarksRight' /\ InBatch'
  <2>1. UNCHANGED <<agree, top, records, sync, batch, jobs, failed>> BY <1>2 DEF Mine, blocks, syncing
  <2>2. Common' = Common /\ Common \in Nat /\ Common =< tip BY <1>0, <2>1 DEF Common, Min2, AgreeInv
  <2> HIDE DEF Common
  <2>3. \A t \in Txs : mined'[t] = mined[t] \/ (mined[t] = 0 /\ mined'[t] > Common /\ mined'[t] \in Nat)
    BY <1>0, <1>2, <2>2 DEF Mine, ServerInv
  <2>4. \A t \in Txs : Current(t)' => Current(t) /\ mined'[t] = mined[t] BY <1>0, <2>2, <2>3 DEF Current
  <2>5. \A u \in Txs, k \in Nat : k > 0 /\ (k =< Common => mined[u] = k) /\ Bounded(u, k)
          => (k =< Common' => mined'[u] = k) /\ Bounded(u, k)'
    <3>1. ASSUME NEW u \in Txs, NEW k \in Nat, k > 0, k =< Common => mined[u] = k PROVE k =< Common' => mined'[u] = k
      BY <1>0, <2>2, <2>3, <3>1
    <3> QED BY <2>1, <3>1 DEF Bounded
  <2>6. Recorded' /\ MarksRight' BY <2>1, <2>4, <2>5, MapLeftAlone
  <2>7. InBatch' BY <2>1 DEF InBatch, NotesFound, SpendsFound, SpendFound, BatchMarks, BatchMark
  <2> QED BY <2>6, <2>7
<1>3. ASSUME NEW h \in 1..(tip - 1), Reorg(h) PROVE Recorded' /\ MarksRight' /\ InBatch'
  <2>1. /\ UNCHANGED <<top, records, sync, jobs, failed>> /\ agree' = Min2(agree, h)
        /\ mined' = [t \in Txs |-> IF mined[t] > h THEN 0 ELSE mined[t]]
    BY <1>3 DEF Reorg, blocks
  <2>2. /\ batch'.first = batch.first /\ batch'.existing = batch.existing /\ batch'.mined = batch.mined
        /\ batch'.agree = Min2(batch.agree, h)
    BY <1>0, <1>3 DEF Reorg, WalletInv, TypeOK
  <2>3. Common' =< Common /\ Common' =< h /\ Common' \in Nat /\ Common \in Nat /\ h \in Nat
    BY <1>0, <2>1 DEF Common, Min2
  <2> HIDE DEF Common
  <2>4. \A t \in Txs : mined'[t] = IF mined[t] > h THEN 0 ELSE mined[t] BY <2>1
  <2>5. \A t \in Txs : Current(t)' => Current(t) /\ mined'[t] = mined[t] BY <1>0, <2>3, <2>4 DEF Current
  <2>6. \A u \in Txs, k \in Nat : k > 0 /\ (k =< Common => mined[u] = k) /\ Bounded(u, k)
          => (k =< Common' => mined'[u] = k) /\ Bounded(u, k)'
    <3>1. ASSUME NEW u \in Txs, NEW k \in Nat, k > 0, k =< Common => mined[u] = k PROVE k =< Common' => mined'[u] = k
      BY <1>0, <2>3, <2>4, <3>1
    <3> QED BY <2>1, <2>2, <3>1 DEF Bounded
  <2>7. Recorded' /\ MarksRight' BY <2>1, <2>5, <2>6, MapLeftAlone
  <2>8. \A x \in Nat : x =< batch'.agree => x =< batch.agree BY <1>0, <2>2 DEF Min2
  <2>9. InBatch'
    <3> SUFFICES ASSUME sync = "work", ~failed PROVE NotesFound' /\ SpendsFound' /\ BatchMarks'
      BY <2>1 DEF InBatch
    <3>1. NotesFound /\ SpendsFound /\ BatchMarks BY DEF InBatch
    <3>2. NotesFound' /\ BatchMarks' BY <2>1, <2>2, <3>1 DEF NotesFound, BatchMarks, BatchMark
    <3>3. \A u \in Txs : batch'.mined[u] > 0 /\ batch'.mined[u] =< batch'.agree =>
            batch.mined[u] > 0 /\ batch.mined[u] =< batch.agree
      BY <1>0, <2>2, <2>8
    <3>4. \A u, s \in Txs : SpendFound(u, s) => SpendFound(u, s)' BY <2>1, <2>2 DEF SpendFound
    <3>5. Spends \in [Txs -> SUBSET Txs] BY <1>0, WalletTypes
    <3>6. SpendsFound' BY <3>1, <3>3, <3>4, <3>5 DEF SpendsFound
    <3> QED BY <3>2, <3>6
  <2> QED BY <2>7, <2>9
<1> QED BY <1>1, <1>2, <1>3 DEF Server

\* The main task of a sync pops blocks and starts batches.
LEMMA PoppingQuiet ==
  ASSUME TraceInv, Recorded, MarksRight,
         OneBlockReorg \/ RollBack \/ StartBatch \/ ReorgBlock \/ PopulateDone
  PROVE  Recorded' /\ MarksRight' /\ InBatch'
<1>0. /\ mined \in [Txs -> Nat] /\ agree \in Nat /\ top \in Nat /\ tip \in Nat /\ floor \in Nat /\ WalletInv
      /\ batch.first \in Nat /\ batch.existing \in Nat /\ batch.mined \in [Txs -> Nat] /\ Pays \subseteq Txs
      /\ \A t \in Txs : Spends[t] \subseteq Pays
  BY WalletTypes DEF TraceInv
<1>1. CASE OneBlockReorg \/ RollBack
  <2>1. UNCHANGED <<mined, agree>> /\ InvalidateBlock /\ sync' = "idle"
    BY <1>1 DEF OneBlockReorg, RollBack, chain, syncing
  <2>2. InBatch' BY <2>1 DEF InBatch
  <2>3. CASE top = 0
    <3>1. UNCHANGED <<records, top>> BY <2>1, <2>3 DEF InvalidateBlock, blocks
    <3>2. Common' = 0 BY <1>0, <2>1, <2>3, <3>1 DEF Common, Min2
    <3>3. \A t \in Txs : ~Current(t)'
      <4> HIDE DEF Common
      <4> QED BY <1>0, <2>1, <3>2 DEF Current
    <3>4. Recorded' /\ MarksRight' BY <1>0, <3>3 DEF Recorded, MarksRight
    <3> QED BY <2>2, <3>4
  <2>4. CASE top # 0
    <3>1. /\ records' = InvalidateFrom(records, top)
          /\ top' = IF top - 1 = floor THEN 0 ELSE top - 1
      BY <2>1, <2>4 DEF InvalidateBlock
    <3>2. /\ Common' \in Nat /\ Common \in Nat /\ Common' =< Common /\ Common' < top
          /\ Common' > 0 => top' = top - 1
      BY <1>0, <2>1, <2>4, <3>1 DEF Common, Min2
    <3> HIDE DEF Common
    <3>3. Common' > 0 => \A u \in Txs, k \in Nat : k < top /\ Bounded(u, k) => Bounded(u, k)'
      BY <1>0, <2>1, <3>2 DEF Bounded
    <3>4. Recorded' /\ MarksRight' BY <1>0, <2>1, <3>1, <3>2, <3>3, MapCut
    <3> QED BY <2>2, <3>4
  <2> QED BY <2>3, <2>4
<1>2. CASE StartBatch
  <2>1. /\ UNCHANGED <<mined, agree, records, top>> /\ sync = "idle" /\ sync' = "reorg"
        /\ batch'.first = Common + 1 /\ batch'.existing = top
        /\ batch'.mined = [t \in Txs |-> IF mined[t] > Common THEN mined[t] ELSE 0]
    BY <1>2 DEF StartBatch, chain, Common
  <2>2. Common' = Common /\ Common \in Nat BY <1>0, <2>1 DEF Common, Min2
  <2> HIDE DEF Common
  <2>3. \A t \in Txs : Current(t)' => Current(t) /\ mined'[t] = mined[t] BY <2>1, <2>2 DEF Current
  <2>4. \A u \in Txs, k \in Nat : k > 0 /\ (k =< Common => mined[u] = k) /\ Bounded(u, k)
          => (k =< Common' => mined'[u] = k) /\ Bounded(u, k)'
    <3>1. ASSUME NEW u \in Txs, NEW k \in Nat, k > 0, k =< Common => mined[u] = k, Bounded(u, k)
          PROVE  Bounded(u, k)'
      <4>1. k =< batch'.existing BY <2>1, <3>1 DEF Bounded
      <4>2. ASSUME k < batch'.first PROVE batch'.mined[u] = 0
        <5>1. k =< Common BY <2>1, <2>2, <4>2
        <5> QED BY <1>0, <2>1, <2>2, <3>1, <5>1
      <4> QED BY <2>1, <4>1, <4>2 DEF Bounded
    <3> QED BY <2>1, <2>2, <3>1
  <2>5. Recorded' /\ MarksRight' BY <2>1, <2>3, <2>4, MapLeftAlone
  <2> QED BY <2>1, <2>5 DEF InBatch
<1>3. CASE ReorgBlock
  <2>1. /\ UNCHANGED <<mined, agree, top, sync>> /\ sync = "reorg" /\ batch.existing >= batch.first
        /\ records' = InvalidateFrom(records, batch.existing)
        /\ batch'.first = batch.first /\ batch'.existing = batch.existing - 1 /\ batch'.mined = batch.mined
    BY <1>0, <1>3 DEF ReorgBlock, chain, WalletInv, TypeOK
  <2>2. Common' = Common /\ Common \in Nat /\ Common < batch.first
    BY <2>1, BatchCommon DEF Common
  <2> HIDE DEF Common
  <2>3. \A u \in Txs, k \in Nat : k < batch.existing /\ Bounded(u, k) => Bounded(u, k)'
    BY <1>0, <2>1 DEF Bounded
  <2>4. Common < batch.existing BY <1>0, <2>1, <2>2
  <2>5. Recorded' /\ MarksRight' BY <1>0, <2>1, <2>2, <2>3, <2>4, MapCut
  <2> QED BY <2>1, <2>5 DEF InBatch
<1>4. CASE PopulateDone
  <2>1. /\ UNCHANGED <<mined, agree, top, records, batch>> /\ sync = "reorg" /\ sync' = "work"
        /\ batch.existing < batch.first
        /\ jobs' = {ListJob, WitnessJob} \cup {NoteJob(t) : t \in {u \in Pays : batch.mined[u] > 0}}
    BY <1>4 DEF PopulateDone, chain, blocks
  <2>2. Common' = Common BY <2>1 DEF Common
  <2> HIDE DEF Common
  <2>3. \A t \in Txs : Current(t)' => Current(t) /\ mined'[t] = mined[t] BY <2>1, <2>2 DEF Current
  <2>4. \A u \in Txs, k \in Nat : Bounded(u, k) => Bounded(u, k)' BY <1>0, <2>1 DEF Bounded
  <2>5. Recorded' /\ MarksRight' BY <2>1, <2>2, <2>3, <2>4, MapLeftAlone
  <2>6. ListJob \in jobs' /\ \A t \in Pays : batch.mined[t] > 0 => NoteJob(t) \in jobs' BY <2>1
  <2>7. NotesFound' /\ BatchMarks' BY <2>1, <2>6 DEF NotesFound, BatchMarks
  <2>8. SpendsFound'
    <3>1. ASSUME NEW u \in Txs, NEW s \in Spends[u] PROVE SpendFound(u, s)'
      <4>1. s \in Pays /\ s \in Txs BY <1>0
      <4>2. batch.mined[s] = 0 \/ batch.mined[s] > 0 BY <1>0, <4>1
      <4> QED BY <2>1, <2>6, <4>1, <4>2 DEF SpendFound
    <3> QED BY <3>1 DEF SpendsFound
  <2> QED BY <2>5, <2>7, <2>8 DEF InBatch
<1> QED BY <1>1, <1>2, <1>3, <1>4

\* The wallet takes over a batch whose workers have all run: what the batch has of the
\* server's chain is recorded.
LEMMA EndQuiet ==
  ASSUME TraceInv, Recorded, MarksRight, InBatch, EndBatch
  PROVE  Recorded' /\ MarksRight' /\ InBatch'
<1>0. /\ records \in [Txs -> Records] /\ mined \in [Txs -> Nat] /\ top \in Nat
      /\ batch.first \in Nat /\ batch.agree \in Nat /\ batch.top \in Nat /\ batch.mined \in [Txs -> Nat]
      /\ batch.first >= 1 /\ Pays \subseteq Txs /\ \A t \in Txs : Spends[t] \subseteq Txs
  BY WalletTypes DEF TraceInv, EndBatch
<1>1. /\ sync = "work" /\ jobs = {} /\ ~failed /\ UNCHANGED mined
      /\ records' = ClearExpired(records, batch.top)
      /\ top' = batch.top /\ agree' = batch.agree /\ sync' = "idle"
  BY DEF EndBatch
<1>2. NotesFound /\ SpendsFound /\ BatchMarks BY <1>1 DEF InBatch
<1>3. BatchHeights /\ BatchTxs BY <1>1 DEF TraceInv, BatchFacts
<1>4. Common' = batch.agree BY <1>0, <1>1, <1>3 DEF Common, Min2, BatchHeights
<1>5. /\ Common \in Nat /\ Common < batch.first
      /\ \A x \in Nat : x < batch.first /\ x =< batch.agree => x =< Common
  BY <1>1, BatchCommon
<1> HIDE DEF Common
<1>6. PICK gone : /\ records' = Invalidate(records, gone)
                  /\ \A u \in gone : ~IsConfirmed(records[u].status)
  <2> DEFINE gone == {t \in Txs : /\ IsPending(records[t].status)
                                  /\ records[t].status.height < SaturatingSub(batch.top, MaxReorg)}
  <2>1. records' = Invalidate(records, gone) BY <1>1 DEF ClearExpired
  <2>2. \A u \in gone : ~IsConfirmed(records[u].status) BY DEF IsPending, IsConfirmed
  <2> HIDE DEF gone
  <2> QED BY <2>1, <2>2
<1>7. \A u \in Txs :
        /\ u \in gone => records'[u] = NoRecord
        /\ u \notin gone =>
             /\ records'[u].status = records[u].status /\ records'[u].note = records[u].note
             /\ records'[u].spent = records[u].spent
             /\ records'[u].spend = IF records[u].spend.by \in gone THEN Unspent ELSE records[u].spend
  BY <1>0, <1>6, InvalidateEffect
<1>8. \A t \in Txs : Current(t)' => \/ Current(t)
                                    \/ /\ batch.mined[t] = mined[t] /\ batch.mined[t] > 0
                                       /\ batch.mined[t] =< batch.agree
  <2>1. ASSUME NEW t \in Txs, Current(t)'
        PROVE  \/ Current(t)
               \/ /\ batch.mined[t] = mined[t] /\ batch.mined[t] > 0 /\ batch.mined[t] =< batch.agree
    <3>1. mined[t] \in Nat /\ mined[t] > 0 /\ mined[t] =< batch.agree BY <1>0, <1>1, <1>4, <2>1 DEF Current
    <3>2. CASE mined[t] < batch.first BY <1>5, <3>1, <3>2 DEF Current
    <3>3. CASE mined[t] >= batch.first
      <4>1. batch.mined[t] = mined[t] BY <1>3, <3>1, <3>3 DEF BatchTxs
      <4> QED BY <3>1, <4>1
    <3> QED BY <1>0, <3>1, <3>2, <3>3
  <2> QED BY <2>1
<1>9. ASSUME NEW t \in Txs, Current(t)', t \in Pays \/ Spends[t] # {} PROVE RecordedTx(t)
  <2>1. CASE Current(t) BY <1>9, <2>1 DEF Recorded
  <2>2. CASE batch.mined[t] = mined[t] /\ batch.mined[t] > 0 /\ batch.mined[t] =< batch.agree
    <3>1. \A s \in Spends[t] : records[s].spend.by = t /\ records[t].status = Confirmed(batch.mined[t])
      BY <1>1, <1>2, <2>2 DEF SpendsFound, SpendFound
    <3>2. t \in Pays => records[t].status = Confirmed(batch.mined[t]) /\ records[t].note = "chained"
      BY <1>1, <1>2, <2>2 DEF NotesFound
    <3> QED BY <1>9, <2>2, <3>1, <3>2 DEF RecordedTx
  <2> QED BY <1>8, <1>9, <2>1, <2>2
<1>10. ASSUME NEW t \in Txs, Current(t)', t \in Pays \/ Spends[t] # {} PROVE t \notin gone
  BY <1>0, <1>6, <1>9, <1>10, StatusForm DEF RecordedTx
<1>11. ASSUME NEW t \in Txs, Current(t)', t \in Pays \/ Spends[t] # {} PROVE RecordedTx(t)'
  <2>1. RecordedTx(t) /\ t \notin gone BY <1>9, <1>10, <1>11
  <2>2. ASSUME NEW s \in Spends[t] PROVE records'[s].spend.by = t
    <3>1. s \in Txs /\ s \in Pays /\ Current(s)'
      <4>1. s \in Pays /\ s \in Txs /\ mined[s] > 0 /\ mined[s] =< mined[t]
        BY <1>0, <1>1, <1>11, WalletTypes DEF TraceInv, ServerInv, Current
      <4> QED BY <1>0, <1>1, <1>4, <1>11, <4>1 DEF Current
    <3>2. s \notin gone BY <1>10, <3>1
    <3> QED BY <1>7, <2>1, <3>1, <3>2 DEF RecordedTx
  <2> QED BY <1>1, <1>7, <2>1, <2>2 DEF RecordedTx
<1>12. ASSUME NEW s \in Pays, Current(s)', IsConfirmed(records'[s].spend.status),
              NEW u, u = records'[s].spend.by, NEW k, k = records'[s].spend.status.height
       PROVE  MarkRight(s, u, k)'
  <2>1. s \in Txs /\ s \notin gone BY <1>0, <1>10, <1>12
  <2>2. u \notin gone /\ records'[s].spend = records[s].spend BY <1>7, <1>12, <2>1, StatusForm
  <2>3. k \in Nat /\ records[s].spend.status = Confirmed(k)
    BY <1>0, <1>12, <2>1, <2>2, RecordParts, StatusForm
  <2>4. /\ u \in Txs /\ records[u].status = records[s].spend.status /\ k > 0
        /\ k =< batch.top /\ (k =< batch.agree => mined[u] = k)
    <3>1. ASSUME u \in Txs, batch.mined[u] = k, k > 0
          PROVE  k =< batch.top /\ (k =< batch.agree => mined[u] = k)
      BY <1>1, <3>1, BatchApart
    <3>2. CASE Current(s)
      <4>1. MarkRight(s, u, k) BY <1>12, <2>2, <3>2 DEF MarksRight
      <4>2. CASE k < batch.first
        <5>1. k =< batch.agree => mined[u] = k BY <1>5, <2>3, <4>1, <4>2 DEF MarkRight
        <5>2. k =< batch.top BY <1>0, <1>3, <2>3, <4>2 DEF BatchHeights
        <5> QED BY <4>1, <5>1, <5>2 DEF MarkRight
      <4>3. CASE ~(k < batch.first)
        <5>1. batch.mined[u] = k BY <1>1, <4>1, <4>3 DEF MarkRight, Bounded
        <5> QED BY <3>1, <4>1, <5>1 DEF MarkRight
      <4> QED BY <4>2, <4>3
    <3>3. CASE batch.mined[s] > 0
      <4>1. BatchMark(s, u) BY <1>1, <1>2, <1>12, <2>2, <3>3 DEF BatchMarks
      <4>2. batch.mined[u] = k BY <1>0, <1>12, <2>2, <4>1, StatusForm DEF BatchMark
      <4> QED BY <3>1, <4>1, <4>2 DEF BatchMark
    <3> QED BY <1>8, <1>12, <2>1, <3>2, <3>3
  <2>5. records'[u].status = records'[s].spend.status BY <1>7, <2>2, <2>4
  <2> QED BY <1>1, <1>4, <2>4, <2>5 DEF MarkRight, Bounded
<1>13. Recorded' /\ MarksRight' BY <1>11, <1>12 DEF Recorded, MarksRight
<1> QED BY <1>1, <1>13 DEF InBatch

\* No two transactions spend the same note.
OneSpender == \A t, u \in Txs : t # u => Spends[t] \cap Spends[u] = {}

\* A writer of pending state writes a spend only over one by the same transaction.
LEMMA PendingQuiet ==
  ASSUME OnePendingWriter, OneSpender, TraceInv, WritersInv, Recorded, MarksRight, InBatch, Monitor \/ Sender
  PROVE  Recorded' /\ MarksRight' /\ InBatch'
<1>0. /\ records \in [Txs -> Records] /\ Pays \subseteq Txs /\ \A t \in Txs : Spends[t] \subseteq Txs
      /\ mined \in [Txs -> Nat] /\ batch.mined \in [Txs -> Nat]
  BY WalletTypes DEF TraceInv
<1>1. UNCHANGED <<mined, agree, top, sync, batch, jobs, failed>>
  <2>1. CASE Sender BY <2>1, SenderGives DEF blocks, syncing
  <2>2. CASE Monitor
    BY <2>2 DEF Monitor, MonitorReceives, MonitorLooksUp, MonitorUpgrades, MonitorScans, MonitorUpdates,
       chain, blocks, syncing
  <2> QED BY <2>1, <2>2
<1>2. PendingWrite(records, records') /\ KeepsConfirmed(records, records') BY PendingKeepsConfirmed
<1>3. \A t \in Txs : \A s \in Spends[t] : records[s].spend.by = t => records'[s].spend.by = t
  <2>1. ASSUME NEW t \in Txs, NEW s \in Spends[t], records[s].spend.by = t, records'[s].spend # records[s].spend
        PROVE  records'[s].spend.by = t
    <3>1. s \in Txs BY <1>0
    <3>2. records'[s].spend.by \in Txs /\ s \in Spends[records'[s].spend.by]
      BY <1>2, <2>1, <3>1 DEF PendingWrite
    <3> QED BY <2>1, <3>1, <3>2 DEF OneSpender
  <2> QED BY <2>1
<1>4. \A t \in Txs : /\ IsConfirmed(records[t].status) => records'[t].status = records[t].status
                     /\ records[t].note = "chained" => records'[t].note = "chained"
                     /\ IsConfirmed(records'[t].spend.status) => records'[t].spend = records[t].spend
  BY <1>2 DEF PendingWrite, KeepsConfirmed
<1>5. \A t \in Txs : Current(t)' = Current(t) BY <1>1 DEF Current, Common
<1>6. ASSUME NEW t \in Txs, RecordedTx(t) PROVE RecordedTx(t)'
  BY <1>0, <1>1, <1>3, <1>4, <1>6, StatusForm DEF RecordedTx
<1>7. Recorded' BY <1>5, <1>6 DEF Recorded
<1>8. ASSUME NEW s \in Pays, Current(s), IsConfirmed(records'[s].spend.status),
             NEW u, u = records'[s].spend.by, NEW k, k = records'[s].spend.status.height
      PROVE  MarkRight(s, u, k)'
  <2>1. s \in Txs /\ records'[s].spend = records[s].spend BY <1>0, <1>4, <1>8
  <2>2. MarkRight(s, u, k) BY <1>8, <2>1 DEF MarksRight
  <2>3. records'[u].status = records[u].status BY <1>4, <1>8, <2>1, <2>2 DEF MarkRight
  <2> QED BY <1>1, <2>1, <2>2, <2>3 DEF MarkRight, Bounded, Common
<1>9. MarksRight' BY <1>0, <1>5, <1>8 DEF MarksRight
<1>10. ASSUME sync = "work", ~failed PROVE NotesFound' /\ SpendsFound' /\ BatchMarks'
  <2>0. NotesFound /\ SpendsFound /\ BatchMarks BY <1>10 DEF InBatch
  <2>1. NotesFound' BY <1>0, <1>1, <1>4, <2>0, StatusForm DEF NotesFound
  <2>2. ASSUME NEW u \in Txs, NEW s \in Spends[u], SpendFound(u, s) PROVE SpendFound(u, s)'
    BY <1>0, <1>1, <1>3, <1>4, <2>2, StatusForm DEF SpendFound
  <2>3. SpendsFound' BY <1>1, <2>0, <2>2 DEF SpendsFound
  <2>4. ASSUME NEW s \in Pays, batch.mined[s] > 0, NoteJob(s) \notin jobs, IsConfirmed(records'[s].spend.status),
               NEW u, u = records'[s].spend.by
        PROVE  BatchMark(s, u)'
    <3>1. records'[s].spend = records[s].spend BY <1>0, <1>4, <2>4
    <3>2. BatchMark(s, u) BY <2>0, <2>4, <3>1 DEF BatchMarks
    <3>3. records'[u].status = records[u].status BY <1>0, <1>4, <3>2, StatusForm DEF BatchMark
    <3> QED BY <1>1, <3>1, <3>2, <3>3 DEF BatchMark
  <2>5. BatchMarks' BY <1>1, <2>4 DEF BatchMarks
  <2> QED BY <2>1, <2>3, <2>5
<1>11. InBatch' BY <1>1, <1>10 DEF InBatch
<1> QED BY <1>7, <1>9, <1>11

\* Nobody but the synchroniser writes.
Alone == ~MonitorOn /\ Proposals = {}

\* Besides the synchroniser at most one of the monitor and the sender writes, and what
\* they write does not compete with what others spend.
Quiet == Alone \/ (OnePendingWriter /\ OneSpender)

QuietInv == Recorded /\ MarksRight /\ InBatch

\* The inductive invariant behind the two theorems on what is recorded.
LEMMA QuietStep ==
  ASSUME Quiet, TraceInv, WritersInv, QuietInv, [Next]_vars
  PROVE  QuietInv'
<1>0. Recorded /\ MarksRight /\ InBatch BY DEF QuietInv
<1>1. CASE Monitor \/ Sender
  <2>1. OnePendingWriter /\ OneSpender BY <1>1, WritersRest DEF Quiet, Alone
  <2> QED BY <1>0, <1>1, <2>1, PendingQuiet DEF QuietInv
<1>2. CASE Syncer BY <1>0, <1>2, WorkersQuiet, PoppingQuiet, EndQuiet DEF Syncer, QuietInv
<1>3. CASE Server BY <1>0, <1>3, ServerQuiet DEF QuietInv
<1>4. CASE UNCHANGED vars
  <2>1. UNCHANGED <<mined, agree, top, records, sync, batch, jobs, failed>> BY <1>4 DEF vars, chain, blocks, syncing
  <2>2. Recorded' /\ MarksRight' BY <1>0, <2>1 DEF Recorded, RecordedTx, Current, Common, MarksRight, MarkRight, Bounded
  <2>3. InBatch' BY <1>0, <2>1 DEF InBatch, NotesFound, SpendsFound, SpendFound, BatchMarks, BatchMark
  <2> QED BY <2>2, <2>3 DEF QuietInv
<1> QED BY <1>1, <1>2, <1>3, <1>4 DEF Next

\* While the pending writers do not compete, the shared blocks stay recorded through every
\* reorganisation, failed batch and interleaving of the workers.
THEOREM RecordingInvariant == Quiet => (Spec => []QuietInv)
<1> SUFFICES ASSUME Quiet PROVE Spec => []QuietInv OBVIOUS
<1>1. Init => QuietInv
  <2> SUFFICES ASSUME Init PROVE QuietInv OBVIOUS
  <2>1. \A t \in Txs : ~Current(t) BY DEF Init, Current
  <2>2. Pays \subseteq Txs BY WalletAssumption
  <2>3. Recorded /\ MarksRight BY <2>1, <2>2 DEF Recorded, MarksRight
  <2>4. InBatch BY DEF Init, InBatch
  <2> QED BY <2>3, <2>4 DEF QuietInv
<1>2. TraceInv /\ WritersInv /\ QuietInv /\ [Next]_vars => QuietInv' BY QuietStep
<1> QED BY <1>1, <1>2, TraceInvariant, WritersInvariant, PTL DEF Spec

\* A caught-up wallet shares all its blocks with the server.
LEMMA SettledCurrent ==
  ASSUME TraceInv, Settled, NEW t \in Txs, mined[t] \in 1..top
  PROVE  Current(t)
<1>1. agree \in Nat /\ top \in Nat /\ mined[t] \in Nat BY WalletTypes DEF TraceInv
<1> QED BY <1>1 DEF Settled, Current, Common, Min2

\* A note that the chain has spent is not offered for spending again by a wallet that has
\* caught up, even while it builds, records and broadcasts transactions of its own, or
\* while it watches the mempool.
THEOREM SpentNotesStaySpent == Quiet => (Spec => []NoSpentNoteOffered)
<1> SUFFICES ASSUME Quiet PROVE Spec => []NoSpentNoteOffered OBVIOUS
<1>1. TraceInv /\ QuietInv => NoSpentNoteOffered
  <2> SUFFICES ASSUME TraceInv, QuietInv, Settled, NEW t \in Txs, mined[t] \in 1..top, NEW s \in Spends[t]
               PROVE  ~Spendable(s)
    BY DEF NoSpentNoteOffered
  <2>1. records[s].spend.by = t BY SettledCurrent DEF QuietInv, Recorded, RecordedTx
  <2>2. records[s].spend # Unspent BY <2>1, RecordsAssumption DEF Unspent
  <2> QED BY <2>2 DEF Spendable, UnspentNullifiers
<1> QED BY <1>1, RecordingInvariant, TraceInvariant, PTL

\* Nothing but the chain marks notes as spent.
OnlyConfirmedSpends == \A s \in Txs : records[s].spend.by # NoTx => IsConfirmed(records[s].spend.status)

\* The synchroniser marks with confirmed statuses only.
LEMMA OnlyConfirmedStep ==
  ASSUME Alone, TraceInv, WritersInv, OnlyConfirmedSpends, [Next]_vars
  PROVE  OnlyConfirmedSpends'
<1>0. /\ WalletInv /\ JobInv /\ records \in [Txs -> Records] /\ NoRecord.spend.by = NoTx /\ Unspent.by = NoTx
      /\ batch.mined \in [Txs -> Nat]
  BY WalletTypes DEF TraceInv, NoRecord, Unspent
<1>1. CASE UNCHANGED records BY <1>1 DEF OnlyConfirmedSpends
<1>2. ~Monitor /\ ~Sender BY WritersRest DEF Alone
<1>4. CASE OneBlockReorg \/ RollBack \/ ReorgBlock \/ EndBatch
  <2>1. UNCHANGED records \/ \E gone : records' = Invalidate(records, gone)
    BY <1>4 DEF OneBlockReorg, RollBack, ReorgBlock, EndBatch, InvalidateBlock, InvalidateFrom, ClearExpired
  <2>2. ASSUME NEW gone, records' = Invalidate(records, gone) PROVE OnlyConfirmedSpends'
    <3>1. \A s \in Txs : records'[s] = NoRecord \/ records'[s].spend \in {Unspent, records[s].spend}
      BY <1>0, <2>2, InvalidateEffect
    <3> QED BY <1>0, <3>1 DEF OnlyConfirmedSpends
  <2> QED BY <1>1, <2>1, <2>2
<1>5. ASSUME NEW t \in Txs, DetectNote(t) \/ ScanFullTx(t) PROVE OnlyConfirmedSpends'
  <2>1. \A s \in Txs : records'[s].spend \in {Unspent, records[s].spend}
    BY <1>0, <1>5, DetectNoteEffect, ScanFullTxEffect
  <2> QED BY <1>0, <2>1 DEF OnlyConfirmedSpends
<1>6. ASSUME NEW s \in Txs, UpdateNote(s) PROVE OnlyConfirmedSpends'
  <2>1. records[s].note = "chained" BY <1>0, <1>6 DEF UpdateNote, JobInv, HasNullifier
  <2>2. ASSUME NEW u \in Spender(s), records' = FoundSpent(records, u, Confirmed(batch.mined[u]), s)
        PROVE  OnlyConfirmedSpends'
    <3>1. /\ u \in Txs /\ records'[s].spend = [by |-> u, status |-> Confirmed(batch.mined[u])]
          /\ \A v \in Txs : v # s => records'[v].spend = records[v].spend
      BY <1>0, <2>1, <2>2, UpdateNoteEffect
    <3>2. IsConfirmed(records'[s].spend.status) BY <1>0, <3>1, StatusForm
    <3> QED BY <3>1, <3>2 DEF OnlyConfirmedSpends
  <2> QED BY <1>1, <1>6, <2>2 DEF UpdateNote
<1>7. CASE \/ Server \/ StartBatch \/ PopulateDone \/ ListNotes \/ UpdateWitnesses \/ UNCHANGED vars
           \/ \E j \in jobs : WorkerFails(j)
  BY <1>1, <1>7 DEF Server, Submit, Evict, Mine, Reorg, StartBatch, PopulateDone, ListNotes, UpdateWitnesses,
     WorkerFails, vars
<1> QED BY <1>2, <1>4, <1>5, <1>6, <1>7 DEF Next, Syncer

\* A wallet that only synchronises has, whenever it has caught up, recorded every
\* transaction of the chain that concerns it, with its note and with the notes it
\* spends, whichever order the workers ran in and whatever was reorganised or failed.
THEOREM SyncRecordsChain == Alone => (Spec => []ChainIsRecorded)
<1> SUFFICES ASSUME Alone PROVE Spec => []ChainIsRecorded OBVIOUS
<1>0. Quiet BY DEF Alone, Quiet
<1>1. Init => OnlyConfirmedSpends BY DEF Init, OnlyConfirmedSpends, NoRecord, Unspent
<1>2. TraceInv /\ WritersInv /\ OnlyConfirmedSpends /\ [Next]_vars => OnlyConfirmedSpends' BY OnlyConfirmedStep
<1>3. TraceInv /\ QuietInv /\ OnlyConfirmedSpends => ChainIsRecorded
  <2> SUFFICES ASSUME TraceInv, QuietInv, OnlyConfirmedSpends, Settled,
                      NEW t \in Txs, mined[t] \in 1..top, t \in Pays \/ Spends[t] # {}
               PROVE  /\ records[t].status = Confirmed(mined[t])
                      /\ t \in Pays => HasNullifier(records, t)
                      /\ \A s \in Spends[t] : records[s].spend = [by |-> t, status |-> Confirmed(mined[t])]
    BY DEF ChainIsRecorded
  <2>1. RecordedTx(t) /\ Current(t) BY SettledCurrent DEF QuietInv, Recorded
  <2>2. ASSUME NEW s \in Spends[t] PROVE records[s].spend = [by |-> t, status |-> Confirmed(mined[t])]
    <3>1. s \in Pays /\ s \in Txs /\ Current(s) BY <2>1, SourceCurrent
    <3>2. records[s].spend.by = t BY <2>1 DEF RecordedTx
    <3>3. IsConfirmed(records[s].spend.status) BY <3>1, <3>2, RecordsAssumption DEF OnlyConfirmedSpends
    <3>4. records[t].status = records[s].spend.status BY <3>1, <3>2, <3>3 DEF QuietInv, MarksRight, MarkRight
    <3>5. records[s].spend \in SpendMarks BY <3>1, WalletTypes DEF TraceInv, Records
    <3> QED BY <2>1, <3>2, <3>4, <3>5 DEF RecordedTx, SpendMarks
  <2> QED BY <2>1, <2>2 DEF RecordedTx, HasNullifier
<1> QED BY <1>0, <1>1, <1>2, <1>3, RecordingInvariant, TraceInvariant, WritersInvariant, PTL DEF Spec
=============================================================================
