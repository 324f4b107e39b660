# A TLA+ model of zingolib

zingolib is a Zcash light wallet: a library (`zingolib`), a newer sync engine
(`zingo-sync`), helper crates (`zingo-status`, `zingo-memo`, `zingo-netutils`)
and a command line client (`zingocli`).  It talks to one lightwalletd server,
keeps transaction records, notes and commitment trees, and builds and sends
transactions.  The modules here model the parts in which several tasks write
shared state, a server reorganises its chain, a process ends between two
steps, or what the user is told is computed from records that several tasks
have written.

## Inventory

| Component | State | Operations | What is hard | What makes it correct |
| --- | --- | --- | --- | --- |
| Sync engine (`zingo-sync`) | list of scan ranges, wallet blocks, nullifiers, shard trees; worker flags; task, result and request channels | `update_scan_ranges`, `prepare_next_scan_range`, `add_scan_task`, `scan`, `mark_scanned`, `fetch` | a main task, a pool of workers and a fetcher run concurrently; results come in any order; any of them may panic; a sync ends by a chain of dropped senders | every height is scanned once; the list stays a partition; a sync ends |
| Transaction records (`wallet/transaction_records_by_id.rs`, `transaction_record.rs`, `tx_map/`) | status, notes and spends of each transaction | record, mark spent, upgrade a status, invalidate from a height, expire | removing a record must give back exactly the notes it spent | a spent mark always names a record that lists it |
| Batch synchroniser (`blaze/`, `lightclient/sync.rs`) | the last 100 blocks, existing blocks of a batch, blocks in the current batch, the reorg channel | `start_sync`, `sync_nth_batch`, `invalidate_block`, trial decryption, `update_notes`, full transactions | workers of a batch run in any order; a reorganisation is followed down block by block; a batch fails after it has written | after a sync the records are those of the server's chain |
| Mempool monitor (`start_mempool_monitor`) | one transaction at a time | receive, look up, scan or upgrade | every lock is taken and given up; what was read is stale when it is used | a confirmed record stays confirmed, a spent note stays spent |
| Sender (`lightclient/send.rs`, `wallet/send.rs`, `propose`) | the latest proposal, the cache of created transactions | propose, create, record, broadcast | the server refuses the second of two, or its answer is lost | no note spent on the chain is offered again |
| Commitment trees (`data/witness_trees.rs`, `wallet/witnesses.rs`) | two shard trees with checkpoints | append, checkpoint, truncate | truncation at a height without a checkpoint | trees never above the wallet's blocks |
| Transparent fetcher (`blaze/fetch_taddr_transactions.rs`) | one stream per address | merge by height, hand over to the full scan | a stream that fails looks like one that ended | every coin and its spend is found |
| Targetted rescan (`blaze/targetted_rescan.rs`) | records without output indices | fetch and scan again | runs next to the workers that use the indices | every note can be named |
| Note selection (`trait_inputsource.rs`) | none | select notes for a value | a list that is shortened while it is walked | enough value, no dust, as few notes as promised |
| Proposals, fees, kinds | none | sum, compare, classify | inputs, outputs and payments are recorded by different workers | value in = value out + fee |
| Balances, summaries, value transfers (`describe.rs`, `data.rs`) | none | folds over the records | statuses at the tip, the middle of a batch | the parts add up to what the chain leaves the wallet |
| Serialisation (`traits.rs`, `tx_map/read_write.rs`, `transaction_record.rs`, `notes/`) | versions of each record | read, write | pending state, old versions | a round trip of what is confirmed |
| Save and load (`wallet/disk.rs`, `lightclient/save.rs`, `read.rs`) | the wallet file, the save buffer | write, truncate, read | the process ends after the truncation; blocks and records are read under two locks | the file holds the records of the blocks it claims |
| Rescan (`do_rescan`, `clear_state`) | blocks and records | clear, set the initial state | runs without the sync lock | blocks and records are cleared together |
| Keys and addresses (`wallet/keys/`), memos (`zingo-memo`) | address list, child list, rejection addresses, a flag | `new_address`, rejection addresses, read, write, wallet memos | two callers; a reload replays the list from its places alone; a memo has 511 bytes | an address is at the index it is derived at; a restored wallet finds every rejection address |
| Commands, `zingocli` | the prompt, the command loop, two channels | parse, dispatch, reply, quit | the loop may wait, panic or end while the prompt waits | every command is answered or the process ends |
| Configuration, connections, messages, sync status | none that a step depends on | - | input and output | - |

How they interact: `start_sync` holds `sync_lock` and starts, per batch, a block
fetcher, a block manager, trial decryption workers, the note updater and the
full transaction processor.  They talk over channels and write the record map
behind one `RwLock`.  The mempool monitor and the sender take the same lock
whenever they please.  `zingo-sync` is a separate engine that is called through
the traits of `interface.rs`; it shares no state with the batch synchroniser.

`PROJECT.json` lists every component with its status and every hazard with its
line.

## Modules

| Module | Models |
| --- | --- |
| `SyncEngine` | `zingo-sync`: main task, workers, fetcher, channels |
| `HeightScan` | what that engine promises, without tasks or channels |
| `TxRecords` | the operators on the record map: statuses, notes, spends, invalidation, expiry |
| `WalletRecords` | the three writers of the map: batch synchroniser, mempool monitor, sender; `EXTENDS TxRecords` |
| `BatchSync` | `start_sync` and `sync_nth_batch` on blocks: fetcher, block manager, workers, reorganisations |
| `LedgerRecords` | the contents of the records and the operations that write them; `INSTANCE TxRecords` for statuses |
| `LedgerFile` | the records into the wallet file and back |
| `LedgerViews` | fees, kinds, summaries, value transfers, balances, lists, what may be spent |
| `Ledger` | the workers of a batch, the pending scan and restarts over these contents |
| `NoteSelection` | the loop of `select_spendable_notes` |
| `KeyStore` | `WalletCapability`: keys, addresses, rejection addresses, memos, versions of the file |
| `Commands` | the table of commands |
| `Session` | a run of `zingo-cli` and what survives it: prompt, loop, monitor, memory, file; `EXTENDS Commands` |
| `SyncEngineProofs` | the list of ranges: types, partition, `mark_scanned` finds its range; the tasks of the engine: each batch once, trees, completeness, the refinement of `HeightScan` |
| `WalletProofs` | the record map against its three writers and the chain |
| `BatchProofs` | the blocks of a batch and what was recorded from them |
| `SessionProofs` | prompt, loop and monitor; memory and file |
| `LedgerProofs` | what the wallet file keeps of the records, their types, and the shielded balance and lists |
| `SelectionProofs` | what the selection loop returns |
| `KeyStoreProofs` | keys, addresses, rejection addresses, reloads and memos |
| `SequenceFacts` | facts about sequences, folds and sums the proofs share |
| `MC...` | instances for TLC |

**SyncEngine.**  A step of the main task ends where another task can observe or
be observed: reading one `is_scanning` flag, sending a task, receiving a result.
`is_worker_idle` and the `find` in `add_scan_task` are separate passes over the
flags, as in `sync.rs`.  `pc` is the point in `sync()`; `hand` is the task
between `prepare_next_scan_range` and `add_scan_task`.  A worker receives
(`ReceiveScanTask`), requests blocks, requests frontiers when it does not have
the previous block, sends its results and clears its flag, and may panic in a
scan or when an answer is lost (`ScanPanics`, `AnswerLost`).  Dropped senders
are conditions on `pc` and on the workers' states (`WorkerEnds`,
`ResultsClosed`, `FetcherEnds`).  Block contents, nullifiers and commitments are
sets of heights.

**TxRecords, WalletRecords.**  An action is one acquisition of the record map's
lock; what the code does between two is open to everybody else.  Each
transaction has at most one note of the wallet, and one status
(`Calculated`, `Transmitted`, `Mempool`, `Confirmed`, each with a height).  A
batch is a set of jobs that run in any order, some of which create others, as
in the code: a full transaction job for each note found, a spend job for each
listed note.  The monitor's and the sender's scan of a pending transaction
(`scan_full_tx`) is one sub-machine, `Scan`, with a step per lock.  `LockFree`
says that the broadcast loop holds the write lock while it waits for the
server.  `agree` is the height up to which the wallet's blocks are on the
server's chain; a reorganisation never goes below the oldest block kept.

**BatchSync.**  The same synchroniser on the level of blocks.  The server has two
branches with a common prefix and changes between them; a block is its height and
its branch, which stands for its hash.  `scanned` abstracts the records to the
blocks they came from.  `expecting` is `last_block_expecting`, `reorgs` the
channel on which the block manager asks the fetcher for one block more.  A panic
of the code is terminal (`pc = "panicked"`).  `HashKnown` says whether the server
sends a hash with its latest block; without one `start_sync` does not look for a
reorganisation of one block.

**LedgerRecords, LedgerViews, LedgerFile, Ledger.**  `WalletRecords` asks which
writer wins; `Ledger` asks what the records say in the end.  A record has notes
(nullifier, output index, memo, spend), coins, the nullifiers it spent and its
outgoing data, as `TransactionRecord` does.  `Outs` and `Ins` are the
transactions: outputs with pool, receiver, value and memo, and the outputs of
the wallet they spend.  A batch is trial decryption (`DetectNote`), the list of
known notes (`ListNotes`), their update (`UpdateNote`), full scans (`ScanFull`),
the scans of the transparent address in its own order (`ScanTaddr`) and the
targetted rescan (`Rescan`).  `scan_full_tx` is two steps, because another
scan of the same transaction can run between the reading of the record
(`Scanned`) and the writing of the outgoing data (`WriteOut`).  The views are
operators on the record map, one for each function of `describe.rs` and
`data.rs`; the properties compare them with the transactions themselves.  The
lists of `do_list_notes` are among them, with the notes each shows as spendable.
`get_user_balances` is not: it is deprecated and nothing calls it.

**NoteSelection.**  One action for each way a turn of the loop can go.  The
walking index, the list that shrinks and the reset are variables, so that the
end of the loop is a liveness property and not the shape of a recursion.  A note
without an output index or worth more than `MAX_MONEY` ends the selection before
the sort (`Refuse`), a selection worth more than that ends it in the loop
(`Overflow`), and a selected note without a witness position after it (`Receive`).

**KeyStore.**  `new_address` is one step per receiver, between swapping the flag
and giving it back; the length of the list is read anew in each, as in
`unified.rs`.  A receiver is its derivation path.  A send with TEX recipients
registers rejection addresses and writes their indices into a memo of bounded
size; a restored wallet has only these memos.  Files of versions 1 to 3 are read
by the conversions of `legacy.rs`.  `tkey` is the wallet's transparent key and
`ivk` the key from which `SpendingData` makes rejection addresses: the second is
taken when the transactions are read, before an old wallet derives the first again
from its seed.

**Session, Commands.**  The process ends with its first thread, whatever the
others do.  A command is typed, sent, executed, answered; `sync`, `rescan`,
`clear`, `delete` and `quit` are the steps their code takes, the monitor's sync
runs beside them, and a save is one step per lock, then the emptied file, then
the written one.  A batch may fail (`BatchFails`), get no blocks (`NoBlocksCome`) or
panic on the channel of its block manager (`BatchPanics`); a save may fail before
the file is emptied (`CreateFails`) or after (`WriteFails`), and in a sync the error
is unwrapped and panics its thread (`Fail`).  Three history variables name what the
code does not prevent: `overlap` (a clear of one thread met a sync of another, or
the tasks of a batch that panicked went on), `stray` (a batch failed on a wallet
without blocks, where `invalidate_block` does nothing) and `torn` (the last write of
the file was cut off).

## Runs

| Run | Result | What it shows |
| --- | --- | --- |
| `engine_safety` | pass | two workers, batches of two, two syncs against a growing chain, no faults: partition, `mark_scanned` always finds its range, Ok means scanned, the engine implements `HeightScan`, and under fairness every sync ends |
| `engine_faults` | pass | with failing requests and panics at every point: no range twice, the trees hold exactly the scanned ranges |
| `wallet_sync` | pass | two conflicting spends of a note, a reorganisation, workers that fail, jobs in any order: the records are exactly those of the chain |
| `wallet_send` | pass | two sends in line, a server that refuses or whose answer is lost, and the synchroniser: no spent note is offered, confirmed stays confirmed |
| `wallet_all` | pass | synchroniser, monitor and sender together with a reorganisation, on two transactions: nothing is confirmed that is not on the chain, no spend names a transaction that is gone, and no worker meets a confirmed note without nullifier (`get_notes_for_updating` would panic) |
| `batch_sync` | pass | five changes of branch, windows of three blocks: between syncs the scanned blocks are those the wallet holds, also after a reorganisation has emptied the window, and nothing of an abandoned branch is left |
| `batch_faults` | pass | changes of branch during a batch, failing fetches and workers: blocks stay contiguous, a retry misses nothing with one change of branch, a batch ends |
| `addresses` | pass | two callers, wallets of every kind of key, old files, TEX sends, restarts: an address is where its path says, a reload gives the same lists unless the process keeps the rejection key of an old file, the memos cover the rejection addresses used |
| `session` | pass | one line typed in each of two runs, a failed batch, save or write, panics, kills: replies match commands, every command is answered or the process ends, memory and file hold the records of the blocks they claim, the file is cut short only by a write that was cut off |
| `ledger` | pass | a receipt, a shielding, payments, a donation; an old file, a lost stream, failed workers, a restart: kinds, fees, payments, memos, balances and lists of unspent outputs of a wallet that has caught up are those of the chain (the shielded ones even after a lost stream) |
| `ledger_outgoing` | violation | `FeeIsTrue`: see the first of the behaviours below |
| `selection` | pass | all wallets of up to four notes and all targets: the loop ends, covers the target whenever that is possible, takes the notes its comments promise, and returns an error only for a note without index or position or a wallet worth more than `MAX_MONEY` |

**Bounds.**  `MaxHeight`, `MaxSize`, `MaxSyncs`, `MaxForks`, `MaxFlips`,
`MaxTip`, `MaxRuns`, `MaxLines`, `MaxSettings`, `MaxSends`, `MaxAddresses`,
`MaxFaults` and `MaxRestarts` bound what the environment does; `BatchSize`,
`NumWorkers`, `MaxReorg` and `MarginalFee` are the code's constants made small;
`MaxNotes` and `MaxValue` bound the inputs of selection.  The engine runs reach
a range that is split twice, one that is exactly a batch, one that is shorter,
and two workers that finish in either order in two syncs.  The wallet runs have
a receipt, its spend and a conflicting or a following spend, which is the least
that has a chain of dependencies and a double spend.  The batch runs have chains
of several batches, reorganisations of one block, of several batches and of the
whole window; five changes of branch empty the window and start at the activation
height again.  In `ledger` the transactions are chosen so that each kind and each
pool occurs, one payment spends notes of two records, a spend may be found before,
with or after its receipt (in one batch or in two), and a shielding is followed
by a payment of what it shielded; `MaxSize` gives each set of transactions its
bound on the transactions, the height, the faults and the restarts together, so
that larger sets have shorter chains and fewer mishaps.  In
`addresses` two sends leave room for a gap in the indices, the requests just fit a
memo or just do not, and the old files are of every version and kind of key.  In
`session` the transaction is in the first batch of a wallet restored at height 2, so
that the one fault can leave its record above the blocks, or cut off a write; `clear`
is not typed, because `rescan` clears in the same way.  In `selection` `MaxMoney` is
9, which two notes of 5 exceed, and 10 is a value above it, which consensus excludes
and the code guards against; one note lacks its index or its position (`MaxFlaws`).
In `batch_faults` the branch changes once (`MaxFlips`): `NothingMissed` is false with
two changes, which its comment and the behaviours below say.

**Deadlock** is checked in the engine runs, in `batch_sync` and in `selection`.
The wallet and ledger runs may stop: the chain is bounded and nobody needs to
send.  `batch_faults` may stop in a panic, `session` when the process has ended
for the last time, `addresses` when the bounds are used up.

**Fairness.**  The runtime polls every task that is ready: weak fairness of the
main task, each worker and the fetcher (`SyncEngine!Fairness`), and of the main
task, fetcher, manager and workers (`BatchSync!Fairness`, where a server
answers or fails).  In `Session` the threads run, and `sync_lock` is a tokio
mutex, which is handed over in the order it was asked for: strong fairness of
`SyncBegin`.  In `NoteSelection` the loop is sequential code that takes its next
turn.  Nothing is assumed of mining, of branch changes, of the user or the
caller, of a panic, a kill or a failure.

## Proofs

TLAPS proves, for every value of the constants that the named assumptions
(`EngineAssumption`, `RecordsAssumption`, `WalletAssumption`, `BatchAssumption`,
`SessionAssumption`, `OptionsAssumption`, `StoresAssumption`, `FilesAssumption`,
`AskedAssumption`, `LedgerAssumption`, `SpendingAssumption`, `SelectionAssumption`) allow, the theorems below.  Some hold
only under a condition on the constants, which is then the left side of the
theorem; each condition excludes a behaviour that TLC shows to break the
property, so it cannot be dropped.

**Engine** (`SyncEngineProofs`; any number of workers, any batch size, with
faults).

* The type invariant, `RangesPartition` and `MarkScannedFinds`.  The last is not
  inductive: `mark_scanned` finds its range because every task in flight (in the
  main task's hand, a worker's queue, a worker, or the results channel) has an
  entry with the same blocks that is no longer Historic (`TasksListed`), so
  that no later split can cut it; and that a step reads a task that exists needs
  `Shape`, which says where the work is at each program counter.  `EngineInv` is
  `TypeOK /\ Shape /\ RangesPartition /\ TasksListed /\ MarkScannedFinds`.
* `TaskInvariant` adds that no two places hold tasks with the same start
  (`TasksApart`), that the entry of a task is Ignored and no longer than
  a batch, and that the trees hold the Scanned ranges.  It gives
  `EachBatchOnce`, `TreesMatchRanges` and, step by step, `ImplementsHeightScan`:
  of the actions only `prepare_next_scan_range`, the update of the range list at
  the start of a sync and the end of a scan change what `HeightScan` sees.
* `OkMeansScanned` when `~ServerMayFail`.  `CompleteInv` says that every
  Ignored entry has its task, that nothing is Historic when the main task waits for
  the last results, and that a sync that ended left no task behind.  With a failing
  server the property is false: a worker that panics takes its range with it.

**Records** (`WalletProofs`).

* The type invariant and `SpendIsListed`.  `WalletInv` adds that a transaction
  without a record lists no spends (`AbsentListsNothing`, else a record created
  later would inherit them), that the scan of the monitor or of the sender carries
  a transaction and a status that makes its record known (`ScanReady`), and that
  a running batch has a first height.  Each operator of `TxRecords` has a lemma
  that it preserves `MapOK`, and one that says what it changes.
* `SourceKnown`, without condition, from `TraceInv`: the server never spends a note
  twice (`ServerInv`); the batch is a snapshot of its chain that only a
  reorganisation puts out of date, from the height the reorganisation reports on
  (`BatchHeights`, `BatchTxs`); a job belongs to the running batch and its note is
  recorded (`JobInv`); and what the two pending writers do is a `PendingWrite`, which
  removes nothing and confirms nothing.
* `ConfirmedStays` when the wallet does not both watch the mempool and send
  (`OnePendingWriter`).  `WritersInv`: without sends nothing is Transmitted, so the
  monitor never comes to the upgrade that ignores the status of the moment.
* `OnlyChainIsConfirmed`, with all three writers, when the wallet keeps blocks to
  compare (`KeepsBlocks`: no reorganisations, or no failing batches and fewer
  reorganisations than `MaxReorg`).  `Sound` says where a confirmation comes from
  at each stage of a sync: a block of the wallet, a block not popped yet, the
  batch.  `WindowInv` counts: every block popped between batches has its
  reorganisation, so `top + forks >= floor + MaxReorg` and the window is never
  empty.  A wallet whose window is empty starts at its birthday again and does not
  look at the records it has.
* `NoSpentNoteOffered` when at most one of monitor and sender is used and no two
  transactions want the same note, or when neither is used (`Quiet`); and
  `ChainIsRecorded` for a wallet that only synchronises (`Alone`), competing
  transactions included; both with any number of reorganisations and failing
  batches.  `Recorded` says the property for the blocks that wallet and server
  share (`Common`).  It is not inductive: a batch passes over notes whose spend is
  confirmed already, so such a spend must be the chain's, or be above what is shared
  and popped before the batch lists its notes (`MarksRight`); and while the workers
  run, a spend of the batch is marked or one of the jobs that will find it is still
  there, namely the note's own, the listing or the spend job (`InBatch`).

**Batches** (`BatchProofs`; any batch size, window, chain).

* The type invariant and `Contiguous`, with failing servers and changes of branch at
  any moment.  `BatchInv`: what was received, what is in the channel and what is
  still to be fetched is one stack of heights (`Stacked`), and the height the
  manager expects is the end of the fetcher's range (`RangesAgree`).
* `NothingMissed` and `NothingStale` when no batch fails, the server sends the hash
  of its latest block and changes its branch between batches only (`Calm`), as often
  as it likes.  `CalmInv`: the
  wallet's blocks are of one branch that is completely recorded, they reach down to
  where the branches part or the branch is final (`Held`), and every record is of
  that branch or of a block that is still to be compared (`Accounted`).
* `RecordsMatchBlocks` under the same condition.  `Matched` follows the lowest block
  that was ever held: a record in the span of the wallet's blocks is of one of them,
  and a record above them is of a block both branches share (`Within`), which only a
  wallet that has popped all its blocks and starts at the activation height has.

**Sessions** (`SessionProofs`; any lines, options, chain, number of runs).

* `RepliesMatch` and `FileReadable`: `ControlInv` says which thread does what, that
  a command is in exactly one place and that the file is cut short only by a writer
  at work or one that was cut off.
* `RecordsComplete` and `FileComplete` when every wallet is made with a height
  that its history starts at (`HistoryKnown`).  Without it `get_birthday` moves
  the birthday up (see below).  Records above the blocks are allowed after a batch
  failed on a wallet without blocks (`stray`), and nothing is said after an
  `overlap`.  `RecordsInv` follows the records through the copies
  a save makes of blocks, records and birthday at different moments.
* The type invariant, for chains and birthdays below `MaxTip` (`HeightsGiven`).

**File** (`LedgerProofs`; all transactions, outputs and values).
`FileKeepsConfirmed`: a confirmed record of a well formed map comes back from
`Restore(Store(m))` as it was, but for the pending spends of its coins, which the
file has no place for.  `FileIsStable`: `Store` of what was read is the same file,
so a wallet that is started and saved without syncing loses nothing more.  The
argument goes up the layers of the format, one lemma for statuses, spends, notes,
coins and records; `IsRecordMap`, the shape that it needs, is part of what the next
theorem proves of every reachable map.

**Ledger** (`LedgerProofs`; any transactions, values, faults and restarts).

* `TypeOK`.  `LedgerInv` adds what the views rely on: no spend is merely calculated,
  a confirmed record is of a mined transaction, a scan or a write is of a mined
  transaction, and the records in the file have the same types.  Every operator of
  `LedgerRecords` has a lemma that it keeps `MapOK`.
* `ShieldedIsTrue`, the balances and the notes listed as unspent.  `ShieldInv` says of the records and of the file that they are
  sound (`IsSound`: a confirmed record has the height of the chain, a record lists
  only what its transaction spends, the spender a note names lists it, a spend is
  confirmed only by a confirmed record, and a pending record that spends something
  is one the file keeps) and that up to their height every note and every spend of
  the chain is recorded (`IsSettled`); and of a batch that has not failed that
  every note and every spend in its blocks is recorded or on some worker's list
  (`IsGoing`).  `Writes` says what one operation may change and `Drops` what
  `invalidate_transactions` and the file may; each action is shown to do one of
  them.  That a pending transaction never replaces the mark of a mined one, and
  that the spend `get_notes_for_updating` skips is the one of the chain, rest on
  the first part of `SpendingAssumption`, that no two of the transactions spend
  the same output; that a file loses no pending spend rests on its second part.

**Selection** (`SelectionProofs`; any notes, values and targets).
`SelectionCovers`.  `LoopInv` says of every turn: what was selected and what is left
are the notes that pay for their input (`Parted`), in the order of the sort
(`Sorted`), the amount is the sum of what was selected (`Counted`), the notes the
index has passed are too small (`Passed`), and what was taken from the end is the
largest there was (`Largest`); `Finished` and `Ended` say what holds when the loop
leaves its turns and when it returns, and `Blameless` that a wallet whose notes have
index and position and that is not worth more than `MAX_MONEY` gets no error.

**Keys and addresses** (`KeyStoreProofs`; any keys, callers, sends and files).
`StoreInv` has a part that always holds (`Types`, `Holding`: who holds the flag and
how far its derivation is, `OwnKeys`, `Noted`: what the memos of the chain say), and
with it the type invariant and `ChildrenListed`.  `PositionIsIndex` and `ReloadSame`
hold without a condition on the constants; what they say of paths is about a wallet
that has the key of its account (`KeyOf`), and of rejection addresses if the rejection
key is made from that key (`IvkOf`).  `Placed` says why: the addresses of a file are
derived with the key its version says, whatever key the wallet has afterwards.  The
others are a version 2 file of a viewing wallet, whose transparent key is one level
too deep, a version 2 file of an account other than the first, whose keys are derived
again for the first (`disk.rs` 223-240), and for rejection addresses every process
that has read a spending wallet of version 1 or 2 (see below).
`MemoCoversUsed` holds when proposals are sent before others change the list and
their indices fit a memo (`FreshOnly`, `MemosFit`, `Named`).

The prover cannot instantiate the library's induction schemes.  Where an argument
is by induction on numbers or finite sets (sums, folds, the memos of all sends), it
goes through the set of counterexamples: `NatSetInduction` and `SubsetInduction` of
`SequenceFacts`.

Only model-checked: liveness (`SyncEnds`, `BatchEnds`, `Answered`,
`SelectionEnds`), which is out of the prover's reach; `ListedHaveNullifiers`, in the
run without faults; and `FeeIsTrue`,
`HistoryIsTrue` and `BalanceIsTrue`.  The first two hold for the transactions of
the run only and not for all (`ledger_outgoing` is one for which they do not), so a
theorem would need the absence of such transactions as its assumption; the third
also needs that the coins of the address are found in the order of the chain.

## Behaviours worth knowing

Found while modelling.  The first is a run of its own; for the others the
configurations that show them are described.  Where a comment of the code says the opposite it
is quoted.

* **Outgoing data overwritten** (`ledger_outgoing`).  A transaction pays a
  shielded and a transparent recipient and has change.  The scan that trial
  decryption of the change note started asks `transaction_kind` before
  `update_notes` has recorded the spend, takes the transaction for received and
  leaves the transparent recipient out; the scan that follows the spend writes
  the full list; then the first one's `add_outgoing_metadata` replaces it.  The
  payment is missing for good and is counted as fee.
* **A spent note is offered** (`NoSpentNoteOffered` with `MonitorOn`, the spends
  `Conflict` and `MaxReorg = 1`).  The monitor's list of unspent nullifiers is
  older than a spend that a batch found; it marks the note for the pending
  transaction instead, and when that one expires the note is offered.
  The same happens without a conflict when the wallet also sends (`OneSend`,
  `MaxReorg = 1`, `MaxHeight = 5`): the monitor's stale upgrade makes a confirmed
  transaction pending, the batch that confirmed it then takes it for expired, and
  the note it spent on the chain is given back.
* **Confirmed becomes pending** (`ConfirmedStays` with `MonitorOn` and a send).  The
  monitor writes Mempool over a status that a batch confirmed since it was read.
* **Stale records stay** (`OnlyChainIsConfirmed` with `MaxForks >= MaxReorg`, or
  with `Faults` and a reorganisation).  A wallet that has popped all the blocks it
  keeps, one by one, has nothing left to compare: it scans from its birthday and the
  records of abandoned blocks that are below stay.  In `BatchSync` with
  `MaxFlips >= 2 * MaxReorg - 1` such a wallet has records of blocks above the ones
  it holds; `RecordsMatchBlocks` says that they are of blocks both branches share.
* **A pending spend is not written** (excluded by `SpendingAssumption`).  A pending
  transaction that pays nobody and leaves the wallet no value is not
  `is_outgoing_transaction`, so its record is not in the file, but the notes it spent
  are, marked as spent by it: after a restart nothing gives them back.
* **A range is lost** (`OkMeansScanned` with `ServerMayFail`).  A worker that
  panics takes its range with it, and `sync()` returns Ok.
* **The wrong notes are listed as spendable** (`ListedSpendable` in the `ledger`
  run, violated within seconds).  `list_sapling_notes` and `list_orchard_notes`
  (`describe.rs` 810, 854) show a note as spendable if it is confirmed at or after
  the anchor height, where note selection asks for at or before it, and the comment
  at 133 calls the anchor "the highest block height that contains income that are
  considered spendable".  A note confirmed below the anchor is spendable and listed
  as not spendable.
* **A legacy rejection key is kept** (`RejectionsOfKey` in `addresses`, also with
  `LegacyFiles <- SpendFiles` alone).  `disk.rs` 218 says "Derive unified spending
  key from seed and overide temporary USK if wallet is pre v29".  `TxMap::read` has
  put the rejection key of the temporary key into `SpendingData` before
  (`read_write.rs` 139-143), and nothing replaces it: a send to a TEX address in the
  process that read the old file takes a rejection address one level too deep
  (`trait_walletwrite.rs` 128), and after a save and a reload the same place of the
  list has another address.
* **Records are lost** (`NothingMissed` with `Faults`, `MaxFlips = 2`, `MaxReorg = 3`,
  `MaxHeight = 5`).  A comment at `sync.rs` 369-370 says that a failed batch resets the
  wallet to how it was before the batch.  A batch that has followed a reorganisation
  has dropped the records of several blocks, and the rollback pops one: block 3 of
  blocks 3 and 2.  The server returns to the first branch, block 2 counts as synced,
  and what it holds is never scanned again.  Two changes of branch during one batch
  (`MidBatch`) break the property too: a block of the other branch is below one that
  was compared.
* **The first transaction is lost** (`RecordsComplete` with a seed restored from
  height 0).  `get_birthday` is computed again at every save: a wallet of
  birthday 0 is saved with the height of its first transaction, and a rescan by the
  next process starts one block above it.
* A clear or rescan that overlaps the monitor's sync loses history, because
  `clear_all` takes no lock; a process that ends between `File::create` and
  `write_all`, or an error of `write_all`, leaves a file that cannot be read.
  `RecordsComplete` and `FileReadable` name these windows (`overlap`, `torn`) and hold
  outside them.
* `quit` saves nothing, `save` does nothing, and sends, addresses and options
  reach the file with the next batch only.  A line that ends the command loop and
  is not exactly `quit` leaves a prompt that panics at the next line.
* A proposal that is sent after another one was sent since (`FreshOnly = FALSE`)
  carries a memo with indices that are taken.  A memo for more than four
  unified addresses is replaced by zeros.  A viewing wallet without transparent
  key panics on a TEX memo (`expect` in `scan_full_tx`).  The legacy transparent
  key of a version 2 viewing wallet (`ViewFiles`) is derived one level too deep.
  A derivation that fails leaves the flag of `new_address` set for good.
* Receipts in the mempool are written to the file,
  though a comment in `read_write.rs` says they are not, because
  `is_outgoing_transaction` counts what was received.
* A note of an old file whose pending spend expires in a batch has no output
  index until the next batch: `targetted_rescan` looked for unspent notes before
  the spend was undone, and until then note selection fails (`BalanceIsTrue`
  leaves out this case).
* `balance_delta` of a transaction to self leaves out a donation it makes.
* Pending spends of coins are not in the file: after a restart the coin is offered
  until the transaction is seen again.  A stream of an address that fails loses
  its transactions without an error (`cut`).  The targetted rescan may set an
  index between `update_notes` listing a note and marking it, which fails one
  batch (`MissingOutputIndex`); the next one succeeds.
* A worker that takes up a queued task between `is_worker_idle` and
  `add_scan_task` leaves no idle worker, and `add_scan_task(...).unwrap()`
  panics (`NoIdleWorkers`).
* A second sync when the server has no new block panics with "wallet is ahead
  of server!" (`WalletAhead`): the list ends one above the last block.
* When all workers have died the main loop of `sync()` turns for ever: their
  flags stay set.  `SyncEnds` therefore is checked without panics.
* The monitor's `expect("None case has already been handled")` panics when a
  rollback or a reorganisation removes the record between the two locks.
* A send that fails half way keeps its cache; the next send starts with what is
  left in it.
* A note that is detected again is overwritten as unspent, a pending spend of
  it included, until its spender is seen again.
* The rollback of a failed batch does nothing to the records when the wallet has
  no blocks: it keeps confirmed records above its blocks (`stray`), and saves them.

## Abstractions and what is not modelled

* In `WalletRecords`: one shielded note of the wallet for each transaction, no
  values; a sync is one batch; `set_blocks` and the expiry of pending
  transactions are one step of `EndBatch`.  The mempool stream delivers any
  transaction of the mempool at any time, also one that has left it since.
* In `BatchSync` blocks are added to the current batch one by one where the
  code appends them in chunks; its readers wait for the block they need
  (`wait_for_block`).  There are two branches, and a block stream delivers all its
  blocks or fails.
* In `Ledger` the chain only grows, a pending transaction is scanned in one step,
  the wallet has one transparent address, every memo is downloaded, and no
  pending transaction lives long enough to expire while others are pending.
  Tasks of a batch that have nothing to do are left out.
* In `NoteSelection` the exclusion list is empty.  `sweep_dust_into_grace` is never
  called.
* In `KeyStore` keys and addresses are paths; a derivation can fail but what it
  computes is external.  In `Session` a sync is seen from outside, and
  arguments of commands are counted, not parsed.
* Not modelled: cryptography and trial decryption itself; positions, roots and
  pruning of the shard trees and their verification (an external crate, and
  predicates on hashes); the merge of several transparent streams; prices and
  times; `get_user_balances` (deprecated and called by nothing); messages, formatting, logging, the sync status; paths and networks of
  the configuration; test support.

## Plan

Everything of the first plan that can be modelled is, and what is not proved is
named above.  What is left is `BalanceIsTrue` for the transparent address when its
stream is never lost, and `FeeIsTrue` for transactions without transparent recipients.
