------------------------------- MODULE BatchSync -------------------------------
(***************************************************************************)
(* start_sync and sync_nth_batch at the level of blocks: how zingolib finds *)
(* out that the server's chain was reorganised, which blocks it fetches    *)
(* again, and what it rolls back when a batch fails.  The fetcher, the     *)
(* block manager and the trial decryption workers run concurrently and     *)
(* talk over channels.                                                     *)
(*                                                                         *)
(* The server follows one of two branches that share the blocks up to the  *)
(* height fork.  The records the wallet made from a block are abstracted   *)
(* to the block itself: scanned is the set of blocks whose transactions    *)
(* are recorded as confirmed.                                              *)
(***************************************************************************)
EXTENDS Integers, Sequences

CONSTANTS
  Activation,  \* sapling_activation_height
  Birthday,    \* height of the wallet's first block
  BatchSize,   \* BATCH_SIZE
  MaxReorg,    \* MAX_REORG
  MaxHeight,   \* bound on the height of the server's chain
  MaxFlips,    \* bound on how often the server changes branch
  MidBatch,    \* may it do so while a batch runs?
  Faults,      \* may the server fail to answer?
  HashKnown    \* does it send a hash with its latest block?

ASSUME BatchAssumption ==
  /\ {Activation, Birthday, BatchSize, MaxReorg} \subseteq Nat \ {0}
  /\ {MaxHeight, MaxFlips} \subseteq Nat
  /\ Activation =< Birthday
  /\ {MidBatch, Faults, HashKnown} \subseteq BOOLEAN

VARIABLES
  fork,       \* the branches differ above this height
  tip,        \* height of the server's chain
  active,     \* the branch it follows
  flips       \* how often it has changed

VARIABLES
  blocks,     \* wallet.last_100_blocks, the tallest first
  scanned     \* the blocks whose transactions are recorded

VARIABLES
  pc,         \* where start_sync is
  batches,    \* latest_block_batches that are left
  outcome,    \* res, the result of the last batch
  stable      \* has the server kept its branch since the sync started?

VARIABLES
  existing,   \* existing_blocks of the batch
  current,    \* blocks_in_current_batch, and those not yet added to them
  expecting,  \* last_block_expecting
  incoming,   \* the channel of blocks to the block manager
  decrypt,    \* blocks that the trial decryption has not worked on
  manager,    \* the block manager
  fetcher,    \* the fetcher, and the heights it still has to fetch
  reorgs,     \* the reorg channel; 0 is None
  failed      \* did a worker of the batch fail?

server == <<fork, tip, active, flips>>
wallet == <<blocks, scanned>>
main   == <<pc, batches, outcome, stable>>
batch  == <<existing, current, expecting, incoming, decrypt, manager, fetcher,
            reorgs, failed>>
vars   == <<server, wallet, main, batch>>

Heights  == 0..MaxHeight
Branches == {1, 2}
Blocks   == [height : Nat, branch : {0} \cup Branches]

\* The block at height h of branch b, which stands for its hash.
BlockAt(h, b) == [height |-> h, branch |-> IF h =< fork THEN 0 ELSE b]

CompactBlocks == [block : Blocks, prev : Blocks]

\* What the server sends for height h.
CompactBlock(h) == [block |-> BlockAt(h, active), prev |-> BlockAt(h - 1, active)]

FetcherOff == [pc |-> "done", next |-> 0, end |-> 1]

TypeOK ==
  /\ fork \in Nat /\ tip \in Nat /\ active \in Branches /\ flips \in Nat
  /\ blocks \in Seq(Blocks) /\ scanned \subseteq Blocks
  /\ pc \in {"idle", "next", "run", "panicked"}
  /\ batches \in Seq(Nat)
  /\ outcome \in {"none", "success", "no success", "err"}
  /\ stable \in BOOLEAN
  /\ existing \in Seq(Blocks) /\ current \in Seq(Blocks)
  /\ expecting \in Nat
  /\ incoming \in Seq(CompactBlocks)
  /\ decrypt \subseteq Blocks
  /\ manager \in {"run", "done"}
  /\ fetcher \in [pc : {"range", "wait", "done", "failed"}, next : Nat, end : Nat]
  /\ reorgs \in Seq(Nat)
  /\ failed \in BOOLEAN

\* A wallet has the block of its birthday, or none when the server could not
\* be asked for it.
Init ==
  /\ fork \in Birthday..MaxHeight
  /\ tip = Birthday /\ active = 1 /\ flips = 0
  /\ blocks \in {<<BlockAt(Birthday, 1)>>, << >>}
  /\ scanned = {}
  /\ pc = "idle" /\ batches = << >> /\ outcome = "none" /\ stable = FALSE
  /\ existing = << >> /\ current = << >> /\ expecting = 0
  /\ incoming = << >> /\ decrypt = {} /\ manager = "done"
  /\ fetcher = FetcherOff /\ reorgs = << >> /\ failed = FALSE
-----------------------------------------------------------------------------
(* The server *)

Mine ==
  /\ tip < MaxHeight
  /\ tip' = tip + 1
  /\ UNCHANGED <<fork, active, flips, wallet, main, batch>>

\* The server changes branch, by at most MAX_REORG blocks.
Flip ==
  /\ flips < MaxFlips
  /\ MidBatch \/ pc # "run"
  /\ tip > fork /\ tip =< fork + MaxReorg
  /\ \E h \in {tip - 1, tip, tip + 1} : h > fork /\ h =< MaxHeight /\ tip' = h
  /\ active' = 3 - active
  /\ flips' = flips + 1
  /\ stable' = FALSE
  /\ UNCHANGED <<fork, wallet, pc, batches, outcome, batch>>
-----------------------------------------------------------------------------
(* start_sync *)

\* Mutant: a wallet without blocks starts two blocks below the activation.
LastSyncedTooLow == IF blocks = << >> THEN Activation - 2 ELSE Head(blocks).height

\* last_synced_height
LastSynced == IF blocks = << >> THEN Activation - 1 ELSE Head(blocks).height

\* invalidate_all_transactions_after_or_at_height
Below(h) == {b \in scanned : b.height < h}

\* Mutant: the block is popped and its records are kept.
InvalidateTopKeepsRecords ==
  IF blocks = << >> THEN UNCHANGED wallet
  ELSE blocks' = Tail(blocks) /\ UNCHANGED scanned

\* invalidate_block on the wallet's blocks.
InvalidateTop ==
  IF blocks = << >> THEN UNCHANGED wallet
  ELSE /\ blocks' = Tail(blocks)
       /\ scanned' = Below(Head(blocks).height)

\* The server is behind the wallet: start_sync returns an error.
SyncBehind ==
  /\ pc = "idle" /\ tip < LastSynced
  /\ outcome' = "err"
  /\ UNCHANGED <<server, wallet, pc, batches, stable, batch>>

OneBlockReorg ==
  HashKnown /\ blocks # << >> /\ tip = LastSynced /\ Head(blocks) # BlockAt(tip, active)

\* The tops of the batches from height h to the server's height.
BatchTops(h) ==
  LET n == IF tip = h THEN 1 ELSE (tip - h + BatchSize - 1) \div BatchSize
  IN  [i \in 1..n |-> IF h + i * BatchSize =< tip THEN h + i * BatchSize ELSE tip]

\* A block of the wallet that the server has another one for is popped.
StartSync ==
  /\ pc = "idle" /\ tip >= LastSynced
  /\ IF OneBlockReorg THEN InvalidateTop ELSE UNCHANGED wallet
  /\ batches' = BatchTops(LastSynced')
  /\ pc' = "next" /\ outcome' = "none" /\ stable' = TRUE
  /\ UNCHANGED <<server, batch>>

\* What a batch leaves behind is cleared before it is read again.
ClearBatch ==
  /\ existing' = << >> /\ current' = << >> /\ expecting' = 0
  /\ incoming' = << >> /\ decrypt' = {} /\ manager' = "done"
  /\ fetcher' = FetcherOff /\ reorgs' = << >> /\ failed' = FALSE

\* A batch returned Ok: the next one follows, unless interrupt_sync is set.
BatchReturns(result) ==
  /\ outcome' = result
  /\ batches' \in {Tail(batches), << >>}
  /\ pc' = "next"

AlreadySynced ==
  /\ pc = "next" /\ batches # << >> /\ Head(batches) = LastSynced
  /\ BatchReturns("success")
  /\ UNCHANGED <<server, wallet, stable, batch>>

StartBatch ==
  /\ pc = "next" /\ batches # << >> /\ Head(batches) # LastSynced
  /\ pc' = "run"
  /\ existing' = blocks /\ current' = << >>
  /\ expecting' = LastSynced + 1
  /\ incoming' = << >> /\ decrypt' = {}
  /\ manager' = "run"
  /\ fetcher' = [pc |-> "range", next |-> Head(batches), end |-> LastSynced + 1]
  /\ reorgs' = << >> /\ failed' = FALSE
  /\ UNCHANGED <<server, wallet, batches, outcome, stable>>

SyncDone ==
  /\ pc = "next" /\ batches = << >>
  /\ pc' = "idle"
  /\ UNCHANGED <<server, wallet, batches, outcome, stable, batch>>
-----------------------------------------------------------------------------
(* FetchCompactBlocks *)

FetchEnded == fetcher.pc \in {"done", "failed"}

\* Blocks come from the top of the range down, to the block manager and to
\* the trial decryption.
FetchBlock ==
  /\ pc = "run" /\ fetcher.pc = "range" /\ fetcher.next >= fetcher.end
  /\ fetcher.next =< tip
  /\ incoming' = Append(incoming, CompactBlock(fetcher.next))
  /\ decrypt' = decrypt \cup {BlockAt(fetcher.next, active)}
  /\ fetcher' = [fetcher EXCEPT !.next = @ - 1]
  /\ UNCHANGED <<server, wallet, main, existing, current, expecting, manager,
                 reorgs, failed>>

\* The stream ends, and the fetcher waits for the block manager.
StreamEnds ==
  /\ pc = "run" /\ fetcher.pc = "range" /\ fetcher.next < fetcher.end
  /\ fetcher' = [fetcher EXCEPT !.pc = "wait"]
  /\ UNCHANGED <<server, wallet, main, existing, current, expecting, incoming,
                 decrypt, manager, reorgs, failed>>

\* The server has no such block any more, or the connection breaks.
FetchFails ==
  /\ pc = "run" /\ fetcher.pc = "range"
  /\ Faults \/ (fetcher.next >= fetcher.end /\ fetcher.next > tip)
  /\ fetcher' = [fetcher EXCEPT !.pc = "failed"]
  /\ UNCHANGED <<server, wallet, main, existing, current, expecting, incoming,
                 decrypt, manager, reorgs, failed>>

ReceiveReorg ==
  /\ pc = "run" /\ fetcher.pc = "wait" /\ reorgs # << >>
  /\ fetcher' = IF Head(reorgs) = 0 THEN FetcherOff
                ELSE [pc |-> "range", next |-> Head(reorgs), end |-> Head(reorgs)]
  /\ reorgs' = Tail(reorgs)
  /\ UNCHANGED <<server, wallet, main, existing, current, expecting, incoming,
                 decrypt, manager, failed>>
-----------------------------------------------------------------------------
(* handle_reorgs_populate_data_inner *)

\* The height of the top existing block, when the block the manager expects
\* does not follow it; 0 is None.
ReorgHeight(cb) ==
  IF existing = << >> \/ Head(existing) = cb.prev THEN 0 ELSE Head(existing).height

\* Mutant: the records of the popped block are kept.
ExpectedBlockKeepsRecords(cb) ==
  /\ IF ReorgHeight(cb) = 0 THEN UNCHANGED <<existing, expecting>>
     ELSE existing' = Tail(existing) /\ expecting' = ReorgHeight(cb)
  /\ UNCHANGED scanned
  /\ reorgs' = Append(reorgs, ReorgHeight(cb))

\* Mutant: nothing is sent when there is no reorganisation.
ExpectedBlockSilent(cb) ==
  IF ReorgHeight(cb) = 0 THEN UNCHANGED <<existing, scanned, expecting, reorgs>>
  ELSE /\ existing' = Tail(existing)
       /\ scanned' = Below(ReorgHeight(cb))
       /\ expecting' = ReorgHeight(cb)
       /\ reorgs' = Append(reorgs, ReorgHeight(cb))

\* The block just above the existing ones: the existing one is popped, with
\* its records, unless the two are linked, and the fetcher is told.
ExpectedBlock(cb) ==
  /\ IF ReorgHeight(cb) = 0 THEN UNCHANGED <<existing, scanned, expecting>>
     ELSE /\ existing' = Tail(existing)
          /\ scanned' = Below(ReorgHeight(cb))
          /\ expecting' = ReorgHeight(cb)
  /\ reorgs' = Append(reorgs, ReorgHeight(cb))

\* The task panics when it has something to tell a fetcher that has ended,
\* and start_sync with it.
ReceiveBlock ==
  /\ pc = "run" /\ manager = "run" /\ incoming # << >>
  /\ LET cb == Head(incoming) IN
       /\ IF cb.block.height = expecting
            THEN /\ ExpectedBlock(cb)
                 /\ pc' = IF FetchEnded THEN "panicked" ELSE pc
            ELSE UNCHANGED <<existing, scanned, expecting, reorgs, pc>>
       /\ current' = Append(current, cb.block)
  /\ incoming' = Tail(incoming)
  /\ UNCHANGED <<server, blocks, batches, outcome, stable, decrypt, manager, fetcher,
                 failed>>

\* The fetcher has dropped its end of the channel.
BlocksDone ==
  /\ pc = "run" /\ manager = "run" /\ incoming = << >> /\ FetchEnded
  /\ manager' = "done"
  /\ UNCHANGED <<server, wallet, main, existing, current, expecting, incoming,
                 decrypt, fetcher, reorgs, failed>>

\* Not a single block came: the batch counts as done, without success.
NoBlocks ==
  /\ pc = "run" /\ manager = "done" /\ current = << >>
  /\ BatchReturns("no success") /\ ClearBatch
  /\ UNCHANGED <<server, wallet, stable>>
-----------------------------------------------------------------------------
(* The workers, and the end of the batch *)

\* Trial decryption starts when it has every block of the batch.
ScanBlock(b) ==
  /\ pc = "run" /\ b \in decrypt /\ FetchEnded
  /\ scanned' = scanned \cup {b}
  /\ decrypt' = decrypt \ {b}
  /\ UNCHANGED <<server, blocks, main, existing, current, expecting, incoming,
                 manager, fetcher, reorgs, failed>>

WorkerFails(b) ==
  /\ Faults /\ pc = "run" /\ b \in decrypt /\ FetchEnded
  /\ failed' = TRUE
  /\ decrypt' = decrypt \ {b}
  /\ UNCHANGED <<server, wallet, main, existing, current, expecting, incoming,
                 manager, fetcher, reorgs>>

Joined == pc = "run" /\ manager = "done" /\ current # << >> /\ decrypt = {}

Truncated(s) == SubSeq(s, 1, IF Len(s) < MaxReorg THEN Len(s) ELSE MaxReorg)

\* Mutant: the existing blocks are put in front.
DrainExistingFirst == Truncated(existing \o current)

\* drain_existingblocks_into_blocks_with_truncation
DrainExisting == Truncated(current \o existing)

\* Mutant: the errors of the tasks are dropped.
EndBatchAnyway ==
  /\ Joined
  /\ blocks' = DrainExisting
  /\ BatchReturns("success") /\ ClearBatch
  /\ UNCHANGED <<server, scanned, stable>>

\* The wallet takes over the blocks.
EndBatch ==
  /\ Joined /\ fetcher.pc = "done" /\ ~failed
  /\ blocks' = DrainExisting
  /\ BatchReturns("success") /\ ClearBatch
  /\ UNCHANGED <<server, scanned, stable>>

\* One of the tasks returned an error: the wallet's top block is popped.
BatchFails ==
  /\ Joined /\ (fetcher.pc = "failed" \/ failed)
  /\ InvalidateTop
  /\ pc' = "idle" /\ outcome' = "err" /\ batches' = << >> /\ ClearBatch
  /\ UNCHANGED <<server, stable>>
-----------------------------------------------------------------------------
Main    == SyncDone \/ AlreadySynced \/ StartBatch \/ NoBlocks \/ EndBatch \/ BatchFails
Fetcher == FetchBlock \/ StreamEnds \/ FetchFails \/ ReceiveReorg
Manager == ReceiveBlock \/ BlocksDone
Worker  == \E b \in decrypt : ScanBlock(b) \/ WorkerFails(b)

Next == Mine \/ Flip \/ SyncBehind \/ StartSync \/ Main \/ Fetcher \/ Manager \/ Worker

\* The runtime polls every task that is ready, and the server answers or
\* fails; nothing obliges it to mine, or the caller to sync.
Fairness == WF_vars(Main) /\ WF_vars(Fetcher) /\ WF_vars(Manager) /\ WF_vars(Worker)

Spec == Init /\ [][Next]_vars /\ Fairness
-----------------------------------------------------------------------------
(* Properties *)

\* The wallet's blocks have consecutive heights, the tallest first, after any
\* sequence of reorganisations and failed batches: neither "Blocks are in wrong
\* order" nor "Wrong block reorg'd" can be reached.
Contiguous ==
  \A s \in {blocks, existing} : \A i \in 1..(Len(s) - 1) : s[i].height = s[i + 1].height + 1

\* Between syncs the records come from the blocks the wallet holds: every
\* block above the birthday was scanned, and of the heights the wallet
\* can still compare no other block was.  Above them there is at most a record
\* from a block that no branch leaves out: a wallet that had to pop all of its
\* blocks starts again at the activation and keeps the records below them.
RecordsMatchBlocks ==
  LET held == {blocks[i] : i \in DOMAIN blocks} IN
  pc = "idle" /\ blocks # << >> =>
    /\ \A b \in held : b.height > Birthday => b \in scanned
    /\ \A b \in scanned : b.height >= blocks[Len(blocks)].height /\ b.height =< LastSynced => b \in held
    /\ \A b \in scanned : b.height > LastSynced => b.height =< fork

\* A sync has succeeded against a server that kept its branch.
Settled == pc = "idle" /\ outcome = "success" /\ stable /\ blocks # << >>

\* Then every block of the server's chain above the birthday was scanned: no
\* transaction is missed.  This holds after one change of branch, at any point of
\* a batch and with any failures, and after any number of changes between batches
\* that do not fail.  It does not hold beyond that: a failed batch is rolled back
\* by one block (BatchFails) though it may have dropped the records of several, so
\* a server that returns to the first branch is not asked for them again (MaxFlips
\* 2, MaxReorg 3, MaxHeight 5), and two changes within one batch can leave a block
\* of the other branch below one that was checked.
NothingMissed ==
  Settled => \A h \in (Birthday + 1)..LastSynced : BlockAt(h, active) \in scanned

\* And no record comes from a block that the server has abandoned.
NothingStale ==
  Settled => \A b \in scanned : b = BlockAt(b.height, active)

\* A batch ends: the fetcher waits for the block manager and the manager for
\* the fetcher, never both.
BatchEnds == pc = "run" ~> pc # "run"
=============================================================================
