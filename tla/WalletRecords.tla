----------------------------- MODULE WalletRecords -----------------------------
(***************************************************************************)
(* The three writers of the wallet's transaction records in zingolib: the  *)
(* batch synchroniser, the mempool monitor and the sender.  They share the *)
(* record map behind one lock; an action here is one acquisition of it, so *)
(* everything the code does between two acquisitions may interleave.       *)
(*                                                                         *)
(* The server's chain is the height every transaction is mined at.  A      *)
(* reorganisation never goes below the oldest block the wallet keeps; how  *)
(* blocks are compared and fetched again is the subject of BatchSync.      *)
(***************************************************************************)
EXTENDS TxRecords, Sequences

CONSTANTS
  Pays,        \* the transactions with an output to the wallet
  Spends,      \* the wallet's notes each transaction spends
  Proposals,   \* the transactions that one send of the wallet creates
  MaxHeight,   \* bound on the height of the server's chain
  MaxForks,    \* bound on the number of reorganisations
  MonitorOn,   \* config.monitor_mempool
  Faults       \* may a request to the server fail?

ASSUME WalletAssumption ==
  /\ Pays \subseteq Txs
  /\ Spends \in [Txs -> SUBSET Pays]
  /\ Proposals \subseteq Seq(Txs)
  /\ MaxHeight \in Nat
  /\ MaxForks \in Nat
  /\ MonitorOn \in BOOLEAN
  /\ Faults \in BOOLEAN

VARIABLES
  tip,        \* height of the server's chain
  mined,      \* height each transaction is mined at, 0 when it is not
  mempool,    \* the server's mempool
  agree,      \* height up to which the wallet's blocks are on the chain
  forks       \* how many reorganisations there were

VARIABLES
  records,    \* transaction_records_by_id
  top,        \* height of the first of last_100_blocks, 0 when there is none
  floor,      \* height below the last of last_100_blocks
  anchor,     \* highest checkpoint of the witness trees
  oldest      \* their lowest checkpoint

VARIABLES
  sync,       \* where start_sync is
  batch,      \* the batch: its heights, its transactions, its top existing block
  jobs,       \* workers of the batch that have not run yet
  failed      \* did a worker of the batch fail?

VARIABLES
  monitor,    \* the mempool monitor
  sender,     \* the caller that sends
  proposal,   \* latest_proposal, empty when there is none
  cache,      \* spending_data.cached_raw_transactions
  created     \* transactions the wallet has created

chain   == <<tip, mined, mempool, agree, forks>>
trees   == <<anchor, oldest>>
blocks  == <<top, floor, trees>>
syncing == <<sync, batch, jobs, failed>>
sending == <<sender, proposal, cache, created>>
vars    == <<chain, records, blocks, syncing, monitor, sending>>

Heights == 0..MaxHeight

NoBatch == [first |-> 0, top |-> 0, existing |-> 0, agree |-> 0,
            mined |-> [t \in Txs |-> 0]]

\* A scan of a pending transaction by the monitor or by the sender.
Idle == [pc |-> "idle", tx |-> NoTx, status |-> NoStatus, found |-> {}, todo |-> << >>]

Jobs == [kind : {"list", "witness", "note", "spend", "full"}, tx : Txs \cup {NoTx}]

ListJob     == [kind |-> "list", tx |-> NoTx]
WitnessJob  == [kind |-> "witness", tx |-> NoTx]
NoteJob(t)  == [kind |-> "note", tx |-> t]
SpendJob(s) == [kind |-> "spend", tx |-> s]
FullJob(t)  == [kind |-> "full", tx |-> t]

Pcs == {"idle", "received", "upgrade", "receipts", "nullifiers", "mark",
        "update", "record", "send", "broadcast", "panicked"}

Scans == [pc : Pcs, tx : Txs \cup {NoTx}, status : Statuses,
          found : SUBSET Txs, todo : Seq(Txs)]

TypeOK ==
  /\ tip \in Nat /\ agree \in Nat /\ forks \in Nat
  /\ mined \in [Txs -> Nat]
  /\ mempool \subseteq Txs
  /\ records \in [Txs -> Records]
  /\ top \in Nat /\ floor \in Nat
  /\ anchor \in Nat /\ oldest \in Nat
  /\ sync \in {"idle", "reorg", "work"}
  /\ batch \in [first : Nat, top : Nat, existing : Nat, agree : Nat,
                mined : [Txs -> Nat]]
  /\ jobs \subseteq Jobs
  /\ failed \in BOOLEAN
  /\ monitor \in Scans /\ sender \in Scans
  /\ proposal \in Seq(Txs) /\ cache \in Seq(Txs)
  /\ created \subseteq Txs

Init ==
  /\ tip = 1 /\ forks = 0
  /\ mined = [t \in Txs |-> 0]
  /\ mempool = {}
  /\ records = [t \in Txs |-> NoRecord]
  /\ top \in {0, 1} /\ floor = 0 /\ agree = top
  /\ anchor = top /\ oldest = top
  /\ sync = "idle" /\ batch = NoBatch /\ jobs = {} /\ failed = FALSE
  /\ monitor = Idle /\ sender = Idle
  /\ proposal = << >> /\ cache = << >> /\ created = {}
-----------------------------------------------------------------------------
(* The server *)

Own == UNION {{p[i] : i \in DOMAIN p} : p \in Proposals}

\* What the server accepts: spends of notes that exist, and no double spend.
Acceptable(t) ==
  /\ mined[t] = 0 /\ t \notin mempool
  /\ \A s \in Spends[t] : mined[s] > 0 \/ s \in mempool
  /\ \A u \in Txs \ {t} :
       Spends[u] \cap Spends[t] # {} => mined[u] = 0 /\ u \notin mempool

\* Somebody else submits a transaction that pays the wallet or, with the same
\* seed on another device, spends its notes.
Submit(t) ==
  /\ t \notin Own /\ Acceptable(t)
  /\ mempool' = mempool \cup {t}
  /\ UNCHANGED <<tip, mined, agree, forks, records, blocks, syncing, monitor, sending>>

\* A transaction leaves the mempool without being mined.
Evict(t) ==
  /\ t \in mempool
  /\ \A u \in mempool : t \notin Spends[u]
  /\ mempool' = mempool \ {t}
  /\ UNCHANGED <<tip, mined, agree, forks, records, blocks, syncing, monitor, sending>>

Mine(B) ==
  /\ tip < MaxHeight
  /\ \A t \in B : \A s \in Spends[t] : mined[s] > 0 \/ s \in B
  /\ tip' = tip + 1
  /\ mined' = [t \in Txs |-> IF t \in B THEN tip + 1 ELSE mined[t]]
  /\ mempool' = mempool \ B
  /\ UNCHANGED <<agree, forks, records, blocks, syncing, monitor, sending>>

Min2(a, b) == IF a =< b THEN a ELSE b

\* The blocks above h are replaced: their transactions go back to the mempool.
Reorg(h) ==
  /\ forks < MaxForks
  /\ h < tip /\ h >= floor /\ h + MaxReorg >= batch.top
  /\ forks' = forks + 1
  /\ tip' = h
  /\ mempool' = mempool \cup {t \in Txs : mined[t] > h}
  /\ mined' = [t \in Txs |-> IF mined[t] > h THEN 0 ELSE mined[t]]
  /\ agree' = Min2(agree, h)
  /\ batch' = [batch EXCEPT !.agree = Min2(@, h)]
  /\ UNCHANGED <<records, blocks, sync, jobs, failed, monitor, sending>>
-----------------------------------------------------------------------------
(* start_sync and sync_nth_batch *)

\* broadcast_created_transactions holds the lock while it talks to the server.
LockFree == sender.pc # "broadcast"

\* The trees are cut back to the checkpoint at h, and have one there.  What has
\* no checkpoint cannot be cut.
TruncateTrees(h) ==
  /\ anchor' = IF h >= oldest THEN h ELSE anchor
  /\ UNCHANGED oldest

\* invalidate_block on the wallet's own blocks: the top block is popped.  A
\* wallet without blocks is at its birthday, and nothing is invalidated.
InvalidateBlock ==
  IF top = 0 THEN UNCHANGED <<records, blocks>>
  ELSE /\ records' = InvalidateFrom(records, top)
       /\ top' = IF top - 1 = floor THEN 0 ELSE top - 1
       /\ floor' = IF top - 1 = floor THEN 0 ELSE floor
       /\ TruncateTrees(top - 1)

\* The server is at the wallet's height with another block.
OneBlockReorg ==
  /\ sync = "idle" /\ LockFree
  /\ top > 0 /\ tip = top /\ agree < top
  /\ InvalidateBlock
  /\ UNCHANGED <<chain, syncing, monitor, sending>>

\* The trees are brought down to the wallet's blocks and the blocks of the
\* batch are fetched.  The ones of the wallet that are not on the
\* server's chain are popped one by one before anything else happens.
StartBatch ==
  /\ sync = "idle" /\ tip > top /\ LockFree
  /\ sync' = "reorg"
  /\ TruncateTrees(top)
  /\ batch' = [first |-> Min2(agree, top) + 1, top |-> tip, existing |-> top,
               agree |-> tip,
               mined |-> [t \in Txs |-> IF mined[t] > Min2(agree, top)
                                          THEN mined[t] ELSE 0]]
  /\ UNCHANGED <<chain, records, top, floor, jobs, failed, monitor, sending>>

\* Mutant: one block too many is popped.
ReorgBlockTooDeep ==
  /\ sync = "reorg" /\ LockFree
  /\ batch.existing >= batch.first - 1
  /\ records' = InvalidateFrom(records, batch.existing)
  /\ TruncateTrees(batch.existing - 1)
  /\ batch' = [batch EXCEPT !.existing = @ - 1]
  /\ UNCHANGED <<chain, top, floor, sync, jobs, failed, monitor, sending>>

\* Mutant: the block is popped and its records are kept.
ReorgBlockKeepsRecords ==
  /\ sync = "reorg" /\ LockFree
  /\ batch.existing >= batch.first
  /\ batch' = [batch EXCEPT !.existing = @ - 1]
  /\ UNCHANGED <<chain, records, blocks, sync, jobs, failed, monitor, sending>>

\* invalidate_block on the batch's copy of the wallet's blocks.
ReorgBlock ==
  /\ sync = "reorg" /\ LockFree
  /\ batch.existing >= batch.first
  /\ records' = InvalidateFrom(records, batch.existing)
  /\ TruncateTrees(batch.existing - 1)
  /\ batch' = [batch EXCEPT !.existing = @ - 1]
  /\ UNCHANGED <<chain, top, floor, sync, jobs, failed, monitor, sending>>

\* Reorganisations are done: one worker for every note found in the batch, one
\* that then extends the trees, and one that lists the notes the wallet has.
PopulateDone ==
  /\ sync = "reorg"
  /\ batch.existing < batch.first
  /\ sync' = "work"
  /\ jobs' = {ListJob, WitnessJob} \cup {NoteJob(t) : t \in {u \in Pays : batch.mined[u] > 0}}
  /\ UNCHANGED <<chain, records, blocks, batch, failed, monitor, sending>>

\* Mutant: the notes of the block just below the batch are left out.
ListNotesBelow ==
  /\ ListJob \in jobs /\ LockFree
  /\ jobs' = (jobs \ {ListJob}) \cup
             {SpendJob(s) : s \in NotesForUpdating(records, batch.first - 2)}
  /\ UNCHANGED <<chain, records, blocks, sync, batch, failed, monitor, sending>>

ListNotes ==
  /\ ListJob \in jobs /\ LockFree
  /\ jobs' = (jobs \ {ListJob}) \cup
             {SpendJob(s) : s \in NotesForUpdating(records, batch.first - 1)}
  /\ UNCHANGED <<chain, records, blocks, sync, batch, failed, monitor, sending>>

\* trial_decrypt_domain_specific_outputs: the note is recorded, then its
\* spend and the full transaction are looked for.
DetectNote(t) ==
  /\ NoteJob(t) \in jobs /\ LockFree
  /\ records' = AddNewNote(records, t, Confirmed(batch.mined[t]))
  /\ jobs' = (jobs \ {NoteJob(t)}) \cup {SpendJob(t), FullJob(t)}
  /\ UNCHANGED <<chain, blocks, sync, batch, failed, monitor, sending>>

\* update_witnesses: the trees get the outputs of the batch when every note was
\* recorded, and a checkpoint for every block.
UpdateWitnesses ==
  /\ WitnessJob \in jobs /\ LockFree
  /\ \A t \in Txs : NoteJob(t) \notin jobs
  /\ anchor' = IF anchor >= batch.top THEN anchor ELSE batch.top
  /\ jobs' = jobs \ {WitnessJob}
  /\ UNCHANGED <<chain, records, top, floor, oldest, sync, batch, failed, monitor,
                 sending>>

\* The transaction of the batch that spends note s, if any.
Spender(s) == {u \in Txs : batch.mined[u] > 0 /\ s \in Spends[u]}

\* A worker of UpdateNotes.
UpdateNote(s) ==
  /\ SpendJob(s) \in jobs /\ LockFree
  /\ \/ /\ Spender(s) = {}
        /\ jobs' = jobs \ {SpendJob(s)}
        /\ UNCHANGED <<records, failed>>
     \/ \E u \in Spender(s) :
          /\ records' = FoundSpent(records, u, Confirmed(batch.mined[u]), s)
          /\ jobs' = (jobs \ {SpendJob(s)}) \cup {FullJob(u)}
          /\ failed' = (failed \/ ~HasNullifier(records, s))
  /\ UNCHANGED <<chain, blocks, sync, batch, monitor, sending>>

\* scan_full_tx of a confirmed transaction.
ScanFullTx(t) ==
  /\ FullJob(t) \in jobs /\ LockFree
  /\ records' = IF t \in Pays THEN CreateModify(records, t, Confirmed(batch.mined[t]))
                              ELSE records
  /\ jobs' = jobs \ {FullJob(t)}
  /\ UNCHANGED <<chain, blocks, sync, batch, failed, monitor, sending>>

\* The server does not answer a worker.  The others still run to their end:
\* the channels they hold keep the batch from being joined.
WorkerFails(j) ==
  /\ Faults /\ j \in jobs /\ j.kind \in {"note", "full"}
  /\ jobs' = IF j.kind = "note" THEN jobs \ {j, WitnessJob} ELSE jobs \ {j}
  /\ failed' = TRUE
  /\ UNCHANGED <<chain, records, blocks, sync, batch, monitor, sending>>

\* Mutant: the error of a worker is dropped.
EndBatchAnyway ==
  /\ sync = "work" /\ jobs = {} /\ LockFree
  /\ records' = ClearExpired(records, batch.top)
  /\ top' = batch.top
  /\ floor' = SaturatingSub(batch.top, MaxReorg)
  /\ agree' = batch.agree
  /\ sync' = "idle" /\ batch' = NoBatch /\ failed' = FALSE
  /\ UNCHANGED <<tip, mined, mempool, forks, trees, jobs, monitor, sending>>

\* The wallet takes over the blocks, the last MAX_REORG of them, and pending
\* transactions that are too old are removed.
EndBatch ==
  /\ sync = "work" /\ jobs = {} /\ ~failed /\ LockFree
  /\ records' = ClearExpired(records, batch.top)
  /\ top' = batch.top
  /\ floor' = IF floor >= SaturatingSub(batch.top, MaxReorg) THEN floor
              ELSE SaturatingSub(batch.top, MaxReorg)
  /\ agree' = batch.agree
  /\ sync' = "idle" /\ batch' = NoBatch
  /\ UNCHANGED <<tip, mined, mempool, forks, trees, jobs, failed, monitor, sending>>

\* A worker failed: the top block of the wallet is popped.
RollBack ==
  /\ sync = "work" /\ jobs = {} /\ failed /\ LockFree
  /\ InvalidateBlock
  /\ sync' = "idle" /\ batch' = NoBatch /\ failed' = FALSE
  /\ UNCHANGED <<chain, jobs, monitor, sending>>
-----------------------------------------------------------------------------
(* scan_full_tx of a pending transaction, a step for each time it locks.     *)
(* The operators give the state of the scan p after the step; m is the map.  *)

FirstStep(t) == IF t \in Pays THEN "receipts" ELSE "nullifiers"

\* account_for_shielded_receipts
Receipts(p) ==
  /\ p.pc = "receipts"
  /\ records' = AddPendingNote(records, p.tx, p.status)

\* The unspent notes are listed under one lock ...
Nullifiers(p, q) ==
  /\ p.pc = "nullifiers"
  /\ q = [p EXCEPT !.pc = "mark", !.found = Spends[p.tx] \cap UnspentNullifiers(records)]
  /\ UNCHANGED records

\* ... and marked as spent one by one, each under its own.
Mark(p, s) ==
  /\ p.pc = "mark" /\ s \in p.found
  /\ records' = FoundSpent(records, p.tx, p.status, s)

UpdateSpends(p) ==
  /\ p.pc = "update"
  /\ records' = UpdateSpendStatuses(records, p.tx, p.status)

\* A step of the scan p that leaves it as q.
Scan(p, q) ==
  \/ Receipts(p) /\ q = [p EXCEPT !.pc = "nullifiers"]
  \/ Nullifiers(p, q)
  \/ \E s \in p.found : Mark(p, s) /\ q = [p EXCEPT !.found = @ \ {s}]
  \/ /\ p.pc = "mark" /\ p.found = {}
     /\ q = [p EXCEPT !.pc = "update"]
     /\ UNCHANGED records
-----------------------------------------------------------------------------
(* start_mempool_monitor *)

\* A transaction comes out of the mempool stream, with its target height.
MonitorReceives(t) ==
  /\ MonitorOn /\ monitor.pc = "idle" /\ t \in mempool
  /\ monitor' = [Idle EXCEPT !.pc = "received", !.tx = t, !.status = Mempool(tip + 1)]
  /\ UNCHANGED <<chain, records, blocks, syncing, sending>>

\* The record is looked up, and the lock released again.
MonitorLooksUp ==
  /\ monitor.pc = "received" /\ LockFree
  /\ monitor' = CASE monitor.tx \notin Known(records) ->
                       [monitor EXCEPT !.pc = FirstStep(monitor.tx)]
                  [] records[monitor.tx].status.kind = "Transmitted" ->
                       [monitor EXCEPT !.pc = "upgrade"]
                  [] OTHER -> Idle
  /\ UNCHANGED <<chain, records, blocks, syncing, sending>>

\* The status is set whatever it is by now.
MonitorUpgrades ==
  /\ monitor.pc = "upgrade" /\ LockFree
  /\ \/ /\ monitor.tx \in Known(records)
        /\ records' = UpdateSpendStatuses([records EXCEPT ![monitor.tx].status = monitor.status],
                                          monitor.tx, monitor.status)
        /\ monitor' = Idle
     \/ /\ monitor.tx \notin Known(records)
        /\ monitor' = [monitor EXCEPT !.pc = "panicked"]
        /\ UNCHANGED records
  /\ UNCHANGED <<chain, blocks, syncing, sending>>

MonitorScans ==
  /\ LockFree
  /\ Scan(monitor, monitor')
  /\ UNCHANGED <<chain, blocks, syncing, sending>>

MonitorUpdates ==
  /\ LockFree
  /\ UpdateSpends(monitor)
  /\ monitor' = Idle
  /\ UNCHANGED <<chain, blocks, syncing, sending>>
-----------------------------------------------------------------------------
(* complete_and_broadcast *)

\* get_spendable_note_ids_and_values
Spendable(s) ==
  /\ IsConfirmed(records[s].status) /\ records[s].status.height =< anchor
  /\ s \in UnspentNullifiers(records)

\* A proposal picks notes that are spendable when it is made.
Propose(p) ==
  /\ sender.pc = "idle" /\ LockFree
  /\ \A i \in DOMAIN p : \A s \in Spends[p[i]] : Spendable(s)
  /\ proposal' = p
  /\ UNCHANGED <<chain, records, blocks, syncing, monitor, sender, cache, created>>

SameInputs(p, q) ==
  Len(p) = Len(q) /\ \A i \in DOMAIN p : Spends[p[i]] = Spends[q[i]]

\* The transactions of the proposal are built from the notes it holds and put
\* into the cache; what an earlier send left there stays, and so does the
\* proposal, which may be used again.
CreateTransaction(p) ==
  /\ sender.pc = "idle"
  /\ SameInputs(p, proposal)
  /\ \A i \in DOMAIN p : p[i] \notin created
  /\ cache' = cache \o p
  /\ created' = created \cup {p[i] : i \in DOMAIN p}
  /\ sender' = [Idle EXCEPT !.pc = "record"]
  /\ UNCHANGED <<chain, records, blocks, syncing, monitor, proposal>>

\* The scan of the next transaction to record, if there is one left.
NextScan(todo, st) ==
  IF todo = << >> THEN [Idle EXCEPT !.pc = "send"]
  ELSE [pc |-> FirstStep(Head(todo)), tx |-> Head(todo), status |-> st,
        found |-> {}, todo |-> Tail(todo)]

\* Everything in the cache is recorded as calculated.
RecordCreated ==
  /\ sender.pc = "record"
  /\ sender' = NextScan(cache, Calculated(tip + 1))
  /\ UNCHANGED <<chain, records, blocks, syncing, monitor, proposal, cache, created>>

\* get_latest_block fails, in either place.
HeightFails ==
  /\ Faults /\ sender.pc \in {"record", "send"}
  /\ sender' = Idle
  /\ UNCHANGED <<chain, records, blocks, syncing, monitor, proposal, cache, created>>

SenderScans ==
  /\ Scan(sender, sender')
  /\ UNCHANGED <<chain, blocks, syncing, monitor, proposal, cache, created>>

SenderUpdates ==
  /\ UpdateSpends(sender)
  /\ sender' = NextScan(sender.todo, sender.status)
  /\ UNCHANGED <<chain, blocks, syncing, monitor, proposal, cache, created>>

\* The lock is taken, and kept until everything in the cache was sent.
BeginBroadcast ==
  /\ sender.pc = "send"
  /\ sender' = [Idle EXCEPT !.pc = "broadcast", !.status = Transmitted(tip + 1),
                           !.todo = cache]
  /\ UNCHANGED <<chain, records, blocks, syncing, monitor, proposal, cache, created>>

\* The next transaction of the cache is to be sent.
Sends(t) ==
  /\ sender.pc = "broadcast" /\ sender.todo # << >> /\ t = Head(sender.todo)
  /\ records[t].status.kind = "Calculated"

SkipTransaction ==
  /\ sender.pc = "broadcast" /\ sender.todo # << >>
  /\ ~Sends(Head(sender.todo))
  /\ sender' = [sender EXCEPT !.todo = Tail(@)]
  /\ UNCHANGED <<chain, records, blocks, syncing, monitor, proposal, cache, created>>

\* The server takes the transaction and says so.
SendTransaction(t) ==
  /\ Sends(t) /\ Acceptable(t)
  /\ mempool' = mempool \cup {t}
  /\ records' = UpdateSpendStatuses([records EXCEPT ![t].status = sender.status],
                                    t, sender.status)
  /\ sender' = [sender EXCEPT !.todo = Tail(@)]
  /\ UNCHANGED <<tip, mined, agree, forks, blocks, syncing, monitor, proposal, cache,
                 created>>

\* The server refuses the transaction, or its answer is lost: the send ends,
\* the cache keeps what it has.
SendFails(t) ==
  /\ Sends(t)
  /\ \/ ~Acceptable(t) /\ UNCHANGED mempool
     \/ Faults /\ Acceptable(t) /\ mempool' \in {mempool, mempool \cup {t}}
  /\ sender' = Idle
  /\ UNCHANGED <<tip, mined, agree, forks, records, blocks, syncing, monitor,
                 proposal, cache, created>>

BroadcastDone ==
  /\ sender.pc = "broadcast" /\ sender.todo = << >>
  /\ cache' = << >>
  /\ sender' = Idle
  /\ UNCHANGED <<chain, records, blocks, syncing, monitor, proposal, created>>
-----------------------------------------------------------------------------
Server ==
  \/ \E t \in Txs : Submit(t) \/ Evict(t)
  \/ \E B \in SUBSET mempool : Mine(B)
  \/ \E h \in 1..(tip - 1) : Reorg(h)

Syncer ==
  \/ OneBlockReorg \/ StartBatch \/ ReorgBlock \/ PopulateDone
  \/ ListNotes \/ UpdateWitnesses \/ EndBatch \/ RollBack
  \/ \E t \in Txs : DetectNote(t) \/ UpdateNote(t) \/ ScanFullTx(t)
  \/ \E j \in jobs : WorkerFails(j)

Monitor ==
  \/ \E t \in Txs : MonitorReceives(t)
  \/ MonitorLooksUp \/ MonitorUpgrades \/ MonitorScans \/ MonitorUpdates

Sender ==
  \/ \E p \in Proposals : Propose(p) \/ CreateTransaction(p)
  \/ RecordCreated \/ HeightFails \/ SenderScans \/ SenderUpdates
  \/ BeginBroadcast \/ SkipTransaction \/ BroadcastDone
  \/ \E t \in Txs : SendTransaction(t) \/ SendFails(t)

Next == Server \/ Syncer \/ Monitor \/ Sender

Spec == Init /\ [][Next]_vars
-----------------------------------------------------------------------------
(* Properties *)

\* A note that is marked as spent names a transaction that has a record, and
\* that record lists the note: whatever removes a record (a reorganisation, a
\* rollback, expiry) gives back the notes it spent, and an update of the
\* spender's status reaches the note.
SpendIsListed ==
  \A s \in Txs : LET t == records[s].spend.by IN
    t # NoTx => t \in Known(records) /\ s \in records[t].spent

\* A worker of UpdateNotes finds the note whose spend it has to mark, so that
\* found_spent_nullifier returns no error and remove_witness_mark does not
\* panic: between listing the notes and marking them nobody removes them.
SourceKnown ==
  \A s \in Txs : SpendJob(s) \in jobs =>
    s \in Known(records) /\ HasNullifier(records, s)

\* No worker of UpdateNotes meets a confirmed note below the batch that has no
\* nullifier, where get_notes_for_updating panics ("Do something about note even
\* with missing nullifier"): a note that the monitor or the sender recorded as
\* pending gets its nullifier in the batch that confirms its transaction, though
\* the scan of another note's spender may confirm it first.
ListedHaveNullifiers ==
  ListJob \in jobs => \A s \in Txs :
    /\ records[s].note # "none" /\ ~IsConfirmed(records[s].spend.status)
    /\ IsConfirmed(records[s].status) /\ records[s].status.height < batch.first
    => HasNullifier(records, s)

\* The wallet's blocks are the server's and no batch is running.
Settled == sync = "idle" /\ top > 0 /\ agree = top

\* When the wallet has caught up, every transaction of the chain that concerns
\* it is recorded as confirmed at its height, its note can be spent, and the
\* notes it spends are marked as spent by it, whichever order the workers of
\* the batches ran in, and whatever was reorganised or expired before.
ChainIsRecorded ==
  Settled =>
    \A t \in Txs : mined[t] \in 1..top /\ (t \in Pays \/ Spends[t] # {}) =>
      /\ records[t].status = Confirmed(mined[t])
      /\ t \in Pays => HasNullifier(records, t)
      /\ \A s \in Spends[t] : records[s].spend = [by |-> t, status |-> Confirmed(mined[t])]

\* When the wallet has caught up, it takes no transaction for confirmed that
\* is not on the chain at that height.
OnlyChainIsConfirmed ==
  Settled =>
    \A t \in Txs : IsConfirmed(records[t].status) => mined[t] = records[t].status.height

\* A note spent on the chain is never offered for spending again: what the
\* chain spent stays marked, by the spender or by a transaction that wants to.
NoSpentNoteOffered ==
  Settled =>
    \A t \in Txs : mined[t] \in 1..top =>
      \A s \in Spends[t] : ~Spendable(s)

\* A confirmed transaction never becomes pending again.
ConfirmedStays ==
  [][\A t \in Txs : IsConfirmed(records[t].status) => ~IsPending(records'[t].status)]_vars
=============================================================================
