-------------------------------- MODULE Ledger ---------------------------------
(***************************************************************************)
(* The contents of the wallet's records while a batch of the synchroniser  *)
(* writes them, and what the wallet tells its user of them.                *)
(*                                                                         *)
(* WalletRecords has the statuses of the records against reorganisations,  *)
(* the monitor and the sender step by step; here the chain only grows, a   *)
(* pending transaction is scanned in one step, and the workers of a batch  *)
(* (trial decryption, update_notes, full transactions, the transparent     *)
(* addresses and the targetted rescan) interleave over values, coins,      *)
(* memos and outgoing data.  The wallet has one transparent address, whose *)
(* transactions the server streams in the order of the chain.              *)
(***************************************************************************)
EXTENDS LedgerFile, LedgerViews, SequencesExt

CONSTANTS
  Order,        \* the transactions, each after the ones whose outputs it spends
  MaxSize,      \* sets of transactions that are made, each with its bound on the
                \* transactions, the height, the faults and the restarts together
  MaxFaults,    \* bound on failed workers and streams
  MaxRestarts,  \* bound on restarts
  OldFile       \* transactions of a wallet file without output indices

ASSUME LedgerAssumption ==
  /\ Self # Donation /\ MarginalFee \in Nat /\ NoTx \notin Txs
  /\ Order \in Seq(Txs) /\ Range(Order) = Txs /\ Len(Order) = Cardinality(Txs)
  /\ \A T \in DOMAIN MaxSize : T \subseteq Txs /\ MaxSize[T] \in Nat \ {0}
  /\ \A t \in Txs : IsFiniteSet(DOMAIN Outs[t])
  /\ \A o \in OutIds : Value(o) \in Nat /\ Out(o).pool \in Pools
  /\ \A t \in Txs : Ins[t] \subseteq {o \in OutIds : Out(o).to = Self}
  /\ \A t \in OldFile : Ins[t] = {}

\* What the wallet's own transactions are like: no two of those that are made
\* spend the same output, and each pays somebody or leaves the wallet something.
ASSUME SpendingAssumption ==
  /\ \A T \in DOMAIN MaxSize : \A s, t \in T : s # t => Ins[s] \cap Ins[t] = {}
  /\ \A t \in Txs : Ins[t] # {} /\ ToOthers(t) = {} => Total({t} \X (NotesTo(t) \cup CoinsTo(t))) # 0

VARIABLES
  made,         \* the transactions that are made
  tip, mined,   \* the chain: its height, and that of each transaction (0: none)
  m,            \* TransactionRecordsById
  synced,       \* the height of the wallet's highest block
  batch,        \* the workers of a batch and what they have to do
  file,         \* the wallet file
  cut,          \* transactions lost with a stream of the address
  faults, restarts

vars == <<made, tip, mined, m, synced, batch, file, cut, faults, restarts>>

\* target: the height the batch ends at.  notes: outputs to decrypt; updates:
\* notes whose spend is looked for; scans: full transactions to scan, each for
\* the output that named it; writes: outgoing data on the way into a record;
\* queue: transactions of the address.
NoBatch == [target |-> 0, tasks |-> {}, notes |-> {}, updates |-> {}, scans |-> {},
            writes |-> {}, queue |-> << >>, failed |-> FALSE]

chain == <<made, tip, mined>>
bounds == <<faults, restarts>>

Mined == {t \in Txs : mined[t] > 0}
InBatch == {t \in Mined : synced < mined[t] /\ mined[t] <= batch.target}

\* The transaction of the batch that spends o.
Spenders(o) == {t \in InBatch : o \in Ins[t]}
\* What MaxSize bounds.
Size == tip + Cardinality(made) + faults + restarts
Place(t) == CHOOSE i \in DOMAIN Order : Order[i] = t
\* The order of the chain.
Earlier(a, b) == mined[a] < mined[b] \/ (mined[a] = mined[b] /\ Place(a) < Place(b))
-----------------------------------------------------------------------------
\* A note of a file of a version that did not keep the output index.
OldRecord(t) ==
  [NoRecord EXCEPT
     !.status = S!Confirmed(1),
     !.notes = [n \in NotesTo(t) |-> [nf |-> TRUE, index |-> FALSE, memo |-> Outs[t][n].memo,
                                      spend |-> S!Unspent]],
     !.coins = [n \in CoinsTo(t) |-> S!Unspent]]

\* A wallet that has scanned nothing, or one read from an old file.
Init ==
  /\ made \in DOMAIN MaxSize
  /\ \E old \in {{}, OldFile \cap made} :
    /\ tip = 1 /\ mined = [t \in Txs |-> IF t \in old THEN 1 ELSE 0]
    /\ m = [t \in Txs |-> IF t \in old THEN OldRecord(t) ELSE NoRecord]
    /\ synced = 1 /\ batch = NoBatch /\ file = [recs |-> Store(m), synced |-> synced]
    /\ cut = {} /\ faults = 0 /\ restarts = 0

\* A block with the transactions in B.
Mine(B) ==
  /\ Size < MaxSize[made]
  /\ \A t \in B : mined[t] = 0 /\ {o[1] : o \in Ins[t]} \subseteq Mined \cup B
  /\ tip' = tip + 1 /\ mined' = [t \in Txs |-> IF t \in B THEN tip + 1 ELSE mined[t]]
  /\ UNCHANGED <<made, m, synced, batch, file, cut, bounds>>
-----------------------------------------------------------------------------
(* A batch *)

\* The transactions that a server lists for the address.
OfAddress(T) == {t \in T : CoinsTo(t) # {} \/ \E o \in Ins[t] : Out(o).pool = "transparent"}

\* A task that finds nothing to do now would find nothing later in the batch:
\* both look at records below it.
StartBatch ==
  /\ batch.target = 0 /\ synced < tip
  /\ LET new == {t \in Mined : synced < mined[t]}
         listed == OfAddress(new)
     IN \E queue \in [1..Cardinality(listed) -> listed] :
          /\ Range(queue) = listed
          /\ \A i, j \in DOMAIN queue : i < j => Earlier(queue[i], queue[j])
          /\ batch' = [NoBatch EXCEPT
               !.target = tip,
               !.tasks = {k \in {"list", "rescan"} :
                            {} # IF k = "list" THEN NotesForUpdating(m, synced) ELSE Unindexed(m, synced)},
               !.notes = UNION {{t} \X NotesTo(t) : t \in new},
               !.queue = queue]
  /\ UNCHANGED <<chain, m, synced, file, cut, bounds>>

\* The task of update_notes that lists the notes the wallet has, each with the
\* index its record has now.
ListNotes ==
  /\ "list" \in batch.tasks
  /\ batch' = [batch EXCEPT !.tasks = @ \ {"list"},
       !.updates = @ \cup {[out |-> o, index |-> m[o[1]].notes[o[2]].index, fetch |-> FALSE] :
                             o \in NotesForUpdating(m, synced)}]
  /\ UNCHANGED <<chain, m, synced, file, cut, bounds>>

\* targetted_rescan: a scan for each record without indices.
Rescan ==
  /\ "rescan" \in batch.tasks
  /\ batch' = [batch EXCEPT !.tasks = @ \ {"rescan"},
       !.scans = @ \cup {[tx |-> t, for |-> <<t, 0>>] : t \in Unindexed(m, synced)}]
  /\ UNCHANGED <<chain, m, synced, file, cut, bounds>>

\* A worker of trial decryption: the note is recorded and sent to update_notes.
DetectNote(o) ==
  /\ o \in batch.notes
  /\ m' = AddNewNote(m, o[1], S!Confirmed(mined[o[1]]), o[2])
  /\ batch' = [batch EXCEPT !.notes = @ \ {o},
                            !.updates = @ \cup {[out |-> o, index |-> TRUE, fetch |-> TRUE]}]
  /\ UNCHANGED <<chain, synced, file, cut, bounds>>

\* A worker of update_notes.  A note is marked only by the index that was sent
\* with it (remove_witness_mark); otherwise the worker fails before it names
\* any transaction to scan.
UpdateNote(u) ==
  /\ u \in batch.updates
  /\ LET by     == Spenders(u.out)
         same   == HasNullifier(m, u.out) /\ m[u.out[1]].notes[u.out[2]].index = u.index
         scans  == {[tx |-> t, for |-> u.out] : t \in by \cup IF u.fetch THEN {u.out[1]} ELSE {}}
         done   == [batch EXCEPT !.updates = @ \ {u}]
     IN IF by # {} /\ ~same
          THEN batch' = [done EXCEPT !.failed = TRUE] /\ UNCHANGED m
          ELSE /\ batch' = [done EXCEPT !.scans = @ \cup scans]
               /\ m' = IF by = {} THEN m
                       ELSE LET t == CHOOSE s \in by : TRUE
                            IN FoundSpent(m, t, S!Confirmed(mined[t]), {u.out})
  /\ UNCHANGED <<chain, synced, file, cut, bounds>>

\* scan_full_tx up to the outgoing data it has collected; without any of these
\* nothing is written.
Scanned(j, rest) ==
  LET t == j.tx
      q == ScanRecord(m, t, S!Confirmed(mined[t]))
      out == Outgoing(q, t)
  IN /\ m' = q
     /\ batch' = [rest EXCEPT !.writes = IF out = << >> THEN @
                                         ELSE @ \cup {[tx |-> t, for |-> j.for, out |-> out]}]

\* A worker of full_transactions_processor, or of targetted_rescan.
ScanFull(j) ==
  /\ j \in batch.scans
  /\ Scanned(j, [batch EXCEPT !.scans = @ \ {j}])
  /\ UNCHANGED <<chain, synced, file, cut, bounds>>

\* The transactions of the address are scanned one after the other.
ScanTaddr ==
  /\ batch.queue # << >>
  /\ \A w \in batch.writes : w.for[2] = 0 => w.tx \notin InBatch
  /\ Scanned([tx |-> Head(batch.queue), for |-> <<Head(batch.queue), 0>>],
             [batch EXCEPT !.queue = Tail(@)])
  /\ UNCHANGED <<chain, synced, file, cut, bounds>>

\* The end of scan_full_tx.
WriteOut(w) ==
  /\ w \in batch.writes
  /\ m' = WriteOutgoing(m, w.tx, w.out)
  /\ batch' = [batch EXCEPT !.writes = @ \ {w}]
  /\ UNCHANGED <<chain, synced, file, cut, bounds>>

\* The stream of the address fails, and is taken to have ended.
TaddrCut ==
  /\ batch.queue # << >> /\ faults < MaxFaults /\ Size < MaxSize[made]
  /\ cut' = cut \cup Range(batch.queue)
  /\ batch' = [batch EXCEPT !.queue = << >>]
  /\ faults' = faults + 1
  /\ UNCHANGED <<chain, m, synced, file, restarts>>

\* A witness or a transaction cannot be fetched.
WorkerFails ==
  /\ faults < MaxFaults /\ Size < MaxSize[made]
  /\ \/ \E o \in batch.notes : batch' = [batch EXCEPT !.notes = @ \ {o}, !.failed = TRUE]
     \/ \E j \in batch.scans : batch' = [batch EXCEPT !.scans = @ \ {j}, !.failed = TRUE]
  /\ faults' = faults + 1
  /\ UNCHANGED <<chain, m, synced, file, cut, restarts>>

WorkersDone ==
  /\ batch.target > 0 /\ batch.queue = << >>
  /\ batch.tasks = {} /\ batch.notes = {} /\ batch.updates = {}
  /\ batch.scans = {} /\ batch.writes = {}

\* The end of sync_nth_batch.
EndBatch ==
  /\ WorkersDone /\ ~batch.failed
  /\ m' = ClearExpired(m, batch.target)
  /\ synced' = batch.target /\ batch' = NoBatch
  /\ file' = [recs |-> Store(m'), synced |-> synced']
  /\ UNCHANGED <<chain, cut, bounds>>

\* The batch failed: start_sync invalidates the wallet's highest block.
RollBack ==
  /\ WorkersDone /\ batch.failed
  /\ IF synced = 0 THEN UNCHANGED <<m, synced>>
     ELSE m' = InvalidateFrom(m, synced) /\ synced' = synced - 1
  /\ batch' = NoBatch
  /\ cut' = {t \in cut : mined[t] <= synced'}
  /\ UNCHANGED <<chain, file, bounds>>
-----------------------------------------------------------------------------
(* Pending transactions, and a new process *)

InMempool(t) == t \in made /\ mined[t] = 0 /\ {o[1] : o \in Ins[t]} \subseteq Mined

\* The monitor meets a transaction without a record.
ScanPending(t) ==
  /\ InMempool(t) /\ t \notin S!Known(m)
  /\ LET q == ScanRecord(m, t, S!Mempool(tip + 1))
     IN m' = IF Outgoing(q, t) = << >> THEN q ELSE WriteOutgoing(q, t, Outgoing(q, t))
  /\ UNCHANGED <<chain, synced, batch, file, cut, bounds>>

\* The monitor meets a transaction the wallet takes to be on its way.
SeenAgain(t) ==
  /\ InMempool(t) /\ m[t].status.kind = "Transmitted"
  /\ m' = [FoundSpent(m, t, S!Mempool(tip + 1), NotesSpentIn(m, t)) EXCEPT
             ![t].status = S!Mempool(tip + 1)]
  /\ UNCHANGED <<chain, synced, batch, file, cut, bounds>>

\* The process ends at any moment, and reads its file again.
Restart ==
  /\ restarts < MaxRestarts /\ Size < MaxSize[made]
  /\ m' = Restore(file.recs) /\ synced' = file.synced /\ batch' = NoBatch
  /\ cut' = {t \in cut : mined[t] <= synced'}
  /\ restarts' = restarts + 1
  /\ UNCHANGED <<chain, file, faults>>
-----------------------------------------------------------------------------
Workers ==
  \/ ListNotes \/ Rescan \/ ScanTaddr \/ TaddrCut \/ WorkerFails
  \/ \E o \in batch.notes : DetectNote(o)
  \/ \E u \in batch.updates : UpdateNote(u)
  \/ \E j \in batch.scans : ScanFull(j)
  \/ \E w \in batch.writes : WriteOut(w)

Next ==
  \/ \E B \in SUBSET made : Mine(B)
  \/ StartBatch \/ Workers \/ EndBatch \/ RollBack
  \/ \E t \in Txs : ScanPending(t) \/ SeenAgain(t)
  \/ Restart

Spec == Init /\ [][Next]_vars
-----------------------------------------------------------------------------
\* Types of the records and of what a batch has to do.
TypeOK ==
  /\ synced \in 0..tip /\ tip \in 1..MaxSize[made] /\ IsRecordMap(m)
  /\ \A t \in Txs :
       /\ mined[t] \in 0..tip
       /\ DOMAIN m[t].notes \subseteq NotesTo(t) /\ DOMAIN m[t].coins \subseteq CoinsTo(t)
       /\ DOMAIN m[t].outgoing \subseteq ToOthers(t)
       /\ m[t].listed \subseteq OutIds /\ m[t].tspent \in Nat
  /\ batch.target \in 0..tip /\ batch.notes \subseteq OutIds
  /\ \A j \in batch.scans \cup batch.writes : j.tx \in Mined
  /\ cut \subseteq Mined

\* The wallet has synced to the tip, and no record is pending.
Quiet == batch.target = 0 /\ synced = tip /\ \A t \in S!Known(m) : S!IsConfirmed(m[t].status)

Own(t) == Ins[t] # {}
SumOf(vs) == LET Val(v) == v.value IN MapThenSumSet(Val, vs)
Every(t) == {t} \X DOMAIN Outs[t]
FeeOf(t) == Total(Ins[t]) - Total(Every(t))
Given(t, n) == IF Outs[t][n].ua = "none" THEN Outs[t][n].to ELSE Outs[t][n].ua

\* What a transaction is: a receipt, a shielding, a payment to the wallet
\* itself (with a donation, or without), or a payment.
KindOf(t) ==
  LET addresses == {Outs[t][n].ua : n \in ToOthers(t)}
  IN IF ~Own(t) THEN "received"
     ELSE IF ToOthers(t) = {} /\ \A o \in Ins[t] : Out(o).pool = "transparent" THEN "shield"
     ELSE IF addresses \subseteq {Donation} THEN "send-to-self" ELSE "send"

\* In a wallet that has caught up every transaction is shown as what it is,
\* and every one the wallet made with the fee that its inputs and outputs say
\* (calculate_transaction_fee, transaction_kind), in whatever order the
\* workers recorded its notes, its coins, their spends and its payments.
FeeIsTrue ==
  Quiet /\ cut = {} => \A t \in Mined \cap S!Known(m) :
    LET s == Summary(m, t)
    IN /\ s.kind = KindOf(t)
       /\ s.fee = IF Own(t) THEN Amount(FeeOf(t)) ELSE FeeError("ReceivedTransaction")

\* In a wallet that has caught up the value transfers tell what the chain
\* holds (value_transfers): the payments of a transaction add up, under the
\* address the payer was given, in each transaction and over all of them; a
\* receipt adds up; and every text memo that the wallet can read is shown.
HistoryIsTrue ==
  Quiet /\ cut = {} => \A t \in Mined :
    LET vs == Transfers(m, t)
        sends == {v \in vs : v.kind = "send"}
        text == {n \in DOMAIN Outs[t] : Outs[t][n].memo = "text" /\ (Own(t) \/ Outs[t][n].to = Self)}
    IN IF Received(m, t) = {} /\ ~Own(t) THEN NotesTo(t) \cup CoinsTo(t) = {}
       ELSE /\ Own(t) => /\ SumOf(sends) = Total({t} \X ToOthers(t))
                         /\ {v.to : v \in sends} = {Given(t, n) : n \in ToOthers(t)}
            /\ ~Own(t) => SumOf(vs) = Total({t} \X (NotesTo(t) \cup CoinsTo(t)))
            /\ UNION {v.memos : v \in vs} = text
            /\ Own(t) => \A n \in ToOthers(t) :
                 LET pays(u) == {<<u, k>> : k \in {j \in ToOthers(u) : Given(u, j) = Given(t, n)}}
                     payers == {u \in Mined : Own(u) /\ pays(u) # {}}
                 IN SentTo(m)[Given(t, n)] = [sends |-> Cardinality(payers),
                                              value |-> Total(UNION {pays(u) : u \in payers})]

\* What the chain leaves the wallet.
Left == {o \in OutIds : Out(o).to = Self /\ o[1] \in Mined /\ \A t \in Mined : o \notin Ins[t]}

\* In a wallet that has caught up the shielded balances are what the chain
\* leaves the wallet (confirmed_balance, confirmed_shielded_balance_excluding_dust),
\* and do_list_notes lists those notes as unspent, in full or not, and none with
\* a pending spend; in whatever order the workers found notes and spends,
\* whichever of them failed, and even if a stream of the transparent address
\* was lost.
ShieldedIsTrue ==
  Quiet =>
    /\ \A p \in Shielded : /\ ConfirmedBalance(m, p) = Total({o \in Left : Out(o).pool = p})
                           /\ PendingBalance(m, p) = 0
    /\ \A p \in Shielded, all \in BOOLEAN :
         LET list == ListOutputs(m, all, synced)[p]
         IN list.unspent = {o \in Left : Out(o).pool = p} /\ list.pending = {}
    /\ BalanceExcludingDust(m) = Total({o \in Left : Out(o).pool \in Shielded /\ Value(o) > MarginalFee})

\* In a wallet that has caught up the transparent balance is what the chain
\* leaves the wallet (do_balance), and the coins are listed as spendable,
\* unless a stream of the address was lost.
\* What each transaction changed (balance_delta) adds up to the balances, but
\* for donations, as do the fees (paid_fees); and once a batch was synced note
\* selection can name every note, those of an old file too, but one whose spend
\* expired: it was not without a spend when targetted_rescan looked for such
\* notes.
BalanceIsTrue ==
  Quiet =>
    LET Delta(t) == BalanceDelta(Summary(m, t))
        Deltas == MapThenSumSet(Delta, S!Known(m))
        Donated == Total({o \in OutIds : o[1] \in Mined /\ Out(o).ua = Donation})
    IN /\ cut = {} => /\ TransparentBalance(m) = Total({o \in Left : Out(o).pool = "transparent"})
                      /\ SpendableCoins(m, tip) = {o \in Left : Out(o).pool = "transparent"}
                      /\ ListTransparent(m, FALSE).spendable = SpendableCoins(m, tip)
                      /\ Total(Left) = Deltas - Donated
                      /\ PaidFees(m) = MapThenSumSet(FeeOf, {t \in Mined : Own(t)})
       /\ synced > 1 => \A o \in Unnamed(m, Shielded, synced) : \E t \in made \ Mined : o \in Ins[t]

\* The notes that do_list_notes shows as spendable are those that note
\* selection finds, whose anchor height "is the highest block height that
\* contains income that are considered spendable".  This does not hold:
\* list_sapling_notes and list_orchard_notes show a note as spendable if it is
\* confirmed at or after that height instead of up to it.
ListedSpendable ==
  Quiet => \A p \in Shielded :
    ListOutputs(m, TRUE, synced)[p].spendable = Spendable(m, {p}, synced)
=============================================================================
