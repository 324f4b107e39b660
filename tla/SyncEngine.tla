------------------------------ MODULE SyncEngine ------------------------------
(***************************************************************************)
(* The sync engine of the zingo-sync crate: the main task of sync(), the   *)
(* pool of scan workers, the fetcher task and the channels between them.   *)
(*                                                                         *)
(* A block range is half open, as in the code.  Scan results, nullifiers   *)
(* and note commitments are abstracted to the heights they come from.      *)
(***************************************************************************)
EXTENDS Integers, Sequences, FiniteSets

CONSTANTS
  NumWorkers,         \* SCAN_WORKER_POOLSIZE
  BatchSize,          \* BATCH_SIZE
  Birthday,           \* the wallet's birthday height
  SaplingActivation,  \* activation height of the Sapling upgrade
  MaxHeight,          \* bound on the height of the server's chain
  MaxSyncs,           \* bound on the number of calls of sync()
  ServerMayFail       \* may a request fail, or an answer be unusable?

ASSUME EngineAssumption ==
  /\ NumWorkers \in Nat \ {0}
  /\ BatchSize \in Nat \ {0}
  /\ Birthday \in Nat \ {0}
  /\ SaplingActivation \in Nat \ {0}
  /\ MaxHeight \in Nat
  /\ MaxSyncs \in Nat
  /\ ServerMayFail \in BOOLEAN

VARIABLES
  chain_height,   \* height of the server's chain
  scan_ranges,    \* SyncState.scan_ranges: the wallet's list of ranges
  wallet_blocks,  \* heights whose block the wallet keeps
  nullifiers,     \* heights whose nullifiers the wallet keeps
  shard_trees     \* heights whose note commitments are in the trees

VARIABLES
  pc,             \* where the main task is
  probe,          \* the worker whose is_scanning flag is read next
  hand,           \* the scan task the main task holds, if any
  outcome,        \* why the main task stopped
  syncs           \* how many times sync() was called

VARIABLES
  fetcher,        \* the fetcher task: off, running, ended or panicked
  requests,       \* fetch requests queued, by the worker that waits
  scan_tasks,     \* the task channel of each worker
  current,        \* the task a worker has received, if any
  worker,         \* where each worker is
  is_scanning,    \* the flag of each worker
  scan_results    \* the channel of scan results

wallet == <<scan_ranges, wallet_blocks, nullifiers, shard_trees>>
main   == <<pc, probe, hand, outcome, syncs>>
pool   == <<scan_tasks, current, worker, is_scanning, scan_results>>
vars   == <<chain_height, wallet, main, fetcher, requests, pool>>

Workers == 1..NumWorkers

Priorities == {"Historic", "Ignored", "Scanned"}

ScanRanges == [start : Nat, end : Nat, priority : Priorities]

\* A scan task: its range and whether the block below it is at hand.
ScanTasks == [start : Nat, end : Nat, prev : BOOLEAN]

\* Mutant: the end of a range is taken as inclusive.
HeightsInclusive(r) == r.start .. r.end

\* The heights of a range, or of a task.
Heights(r) == r.start .. (r.end - 1)

SameBlocks(r, t) == r.start = t.start /\ r.end = t.end
-----------------------------------------------------------------------------
(* update_scan_ranges *)

Max2(a, b) == IF a >= b THEN a ELSE b

WalletHeight ==
  IF scan_ranges = << >> THEN Max2(Birthday, SaplingActivation)
                         ELSE scan_ranges[Len(scan_ranges)].end

\* Mutant: the range starts one block too high.
ChainTipSkipsBlock ==
  [start |-> WalletHeight + 1, end |-> chain_height + 1, priority |-> "Historic"]

ChainTipScanRange ==
  [start |-> WalletHeight, end |-> chain_height + 1, priority |-> "Historic"]

(* prepare_next_scan_range *)

\* Mutant: a range that is being scanned can be selected again.
SelectableInFlight(k) == scan_ranges[k].priority # "Scanned"

Selectable(k) == scan_ranges[k].priority \notin {"Scanned", "Ignored"}

Selected == CHOOSE k \in 1..Len(scan_ranges) :
              /\ Selectable(k)
              /\ \A j \in 1..(k - 1) : ~ Selectable(j)

\* Vec::splice of one element by the elements of new.
Splice(s, k, new) ==
  [i \in 1..(Len(s) + Len(new) - 1) |->
     IF i < k THEN s[i]
     ELSE IF i < k + Len(new) THEN new[i - k + 1]
     ELSE s[i - Len(new) + 1]]

\* ScanRange::split_at yields two ranges when the split is strictly inside.
Splits(r) == r.start + BatchSize < r.end

BatchEnd(r) == IF Splits(r) THEN r.start + BatchSize ELSE r.end

\* Mutant: the list keeps the whole range although only a batch is handed out.
BatchListedWhole(r) == [start |-> r.start, end |-> r.end, priority |-> "Ignored"]

\* The batch handed out, marked so that it is not selected again.
Batch(r) == [start |-> r.start, end |-> BatchEnd(r), priority |-> "Ignored"]

\* What remains of a range that was split.
Rest(r) == [start |-> r.start + BatchSize, end |-> r.end, priority |-> r.priority]

\* What the selected range is replaced by.
Prepared(r) == IF Splits(r) THEN << Batch(r), Rest(r) >> ELSE << Batch(r) >>

(* mark_scanned: the first range with the same blocks becomes Scanned *)

Found(t) == \E k \in 1..Len(scan_ranges) : SameBlocks(scan_ranges[k], t)

\* Mutant: results are assumed to arrive in the order the ranges are listed.
FoundFirstIgnored(t) ==
  CHOOSE k \in 1..Len(scan_ranges) :
    /\ scan_ranges[k].priority = "Ignored"
    /\ \A j \in 1..(k - 1) : scan_ranges[j].priority # "Ignored"

FoundAt(t) == CHOOSE k \in 1..Len(scan_ranges) :
                /\ SameBlocks(scan_ranges[k], t)
                /\ \A j \in 1..(k - 1) : ~ SameBlocks(scan_ranges[j], t)

(* remove_irrelevant_data: every task has the priority Historic *)

Relevant(hs, t) == {h \in hs : h >= t.end}
-----------------------------------------------------------------------------
Init ==
  /\ chain_height \in 0..MaxHeight
  /\ scan_ranges = << >>
  /\ wallet_blocks = {}
  /\ nullifiers = {}
  /\ shard_trees = {}
  /\ pc = "idle"
  /\ probe = 1
  /\ hand = << >>
  /\ outcome = "none"
  /\ syncs = 0
  /\ fetcher = "off"
  /\ requests = << >>
  /\ scan_tasks = [w \in Workers |-> << >>]
  /\ current = [w \in Workers |-> << >>]
  /\ worker = [w \in Workers |-> "ended"]
  /\ is_scanning = [w \in Workers |-> FALSE]
  /\ scan_results = << >>

\* The server learns of a new block.
ServerGrows ==
  /\ chain_height < MaxHeight
  /\ chain_height' = chain_height + 1
  /\ UNCHANGED <<wallet, main, fetcher, requests, pool>>

Panic(reason) == pc' = "panicked" /\ outcome' = reason
-----------------------------------------------------------------------------
(* The main task: sync() *)

\* sync() spawns the fetcher and asks it for the chain height.
StartSync ==
  /\ pc = "idle"
  /\ syncs < MaxSyncs
  /\ syncs' = syncs + 1
  /\ pc' = "height"
  /\ outcome' = "none"
  /\ fetcher' = "running"
  /\ UNCHANGED <<chain_height, wallet, probe, hand, requests, pool>>

\* get_chain_height fails: the fetcher panics and so does the main task.
ChainHeightFails ==
  /\ pc = "height"
  /\ ServerMayFail
  /\ fetcher' = "panicked"
  /\ Panic("server error")
  /\ UNCHANGED <<chain_height, wallet, probe, hand, syncs, requests, pool>>

WalletAhead ==
  /\ pc = "height"
  /\ WalletHeight > chain_height
  /\ Panic("wallet is ahead of server!")
  /\ UNCHANGED <<chain_height, wallet, probe, hand, syncs, fetcher, requests,
                 pool>>

\* The new range is pushed, then Scanner::new and spawn_workers run.
UpdateScanRanges ==
  /\ pc = "height"
  /\ WalletHeight <= chain_height
  /\ scan_ranges' = Append(scan_ranges, ChainTipScanRange)
  /\ worker' = [w \in Workers |-> "waiting"]
  /\ is_scanning' = [w \in Workers |-> FALSE]
  /\ scan_tasks' = [w \in Workers |-> << >>]
  /\ current' = [w \in Workers |-> << >>]
  /\ pc' = "check"
  /\ probe' = 1
  /\ UNCHANGED <<chain_height, wallet_blocks, nullifiers, shard_trees, hand,
                 outcome, syncs, fetcher, requests, scan_results>>

\* Mutant: the end of the worker list is not checked.
NextWorkerPastEnd ==
  /\ pc \in {"check", "assign"}
  /\ is_scanning[probe]
  /\ probe' = probe + 1
  /\ UNCHANGED <<chain_height, wallet, pc, hand, outcome, syncs, fetcher,
                 requests, pool>>

\* is_worker_idle reads the flags one by one; this worker is busy.
NextWorker ==
  /\ pc \in {"check", "assign"}
  /\ is_scanning[probe]
  /\ probe < NumWorkers
  /\ probe' = probe + 1
  /\ UNCHANGED <<chain_height, wallet, pc, hand, outcome, syncs, fetcher,
                 requests, pool>>

NoWorkerIdle ==
  /\ pc = "check"
  /\ is_scanning[probe]
  /\ probe = NumWorkers
  /\ pc' = "poll"
  /\ UNCHANGED <<chain_height, wallet, probe, hand, outcome, syncs, fetcher,
                 requests, pool>>

\* A worker is idle: the next batch and the block below it become a task.
PrepareNextScanRange ==
  /\ pc = "check"
  /\ ~ is_scanning[probe]
  /\ \E k \in 1..Len(scan_ranges) : Selectable(k)
  /\ LET r == scan_ranges[Selected] IN
       /\ scan_ranges' = Splice(scan_ranges, Selected, Prepared(r))
       /\ hand' = << [start |-> r.start, end |-> BatchEnd(r),
                      prev |-> r.start - 1 \in wallet_blocks] >>
  /\ pc' = "assign"
  /\ probe' = 1
  /\ UNCHANGED <<chain_height, wallet_blocks, nullifiers, shard_trees,
                 outcome, syncs, fetcher, requests, pool>>

\* No range is left: the loop ends and the scanner is dropped.
NothingToScan ==
  /\ pc = "check"
  /\ ~ is_scanning[probe]
  /\ \A k \in 1..Len(scan_ranges) : ~ Selectable(k)
  /\ pc' = "drain"
  /\ UNCHANGED <<chain_height, wallet, probe, hand, outcome, syncs, fetcher,
                 requests, pool>>

\* add_scan_task reads the flags again and sends to the first idle worker.
AddScanTask ==
  /\ pc = "assign"
  /\ ~ is_scanning[probe]
  /\ scan_tasks' = [scan_tasks EXCEPT ![probe] = Append(@, hand[1])]
  /\ hand' = << >>
  /\ pc' = "poll"
  /\ UNCHANGED <<chain_height, wallet, probe, outcome, syncs, fetcher,
                 requests, current, worker, is_scanning, scan_results>>

NoIdleWorkers ==
  /\ pc = "assign"
  /\ is_scanning[probe]
  /\ probe = NumWorkers
  /\ Panic("no idle workers!")
  /\ UNCHANGED <<chain_height, wallet, probe, hand, syncs, fetcher, requests,
                 pool>>

\* update_wallet_data, remove_irrelevant_data and mark_scanned of one result.
ApplyScanResults(t) ==
  /\ wallet_blocks' = Relevant(wallet_blocks \union Heights(t), t)
  /\ nullifiers' = Relevant(nullifiers \union Heights(t), t)
  /\ shard_trees' = shard_trees \union Heights(t)
  /\ IF Found(t)
       THEN /\ scan_ranges' =
                 [scan_ranges EXCEPT ![FoundAt(t)].priority = "Scanned"]
            /\ pc' = IF pc = "poll" THEN "check" ELSE pc
            /\ UNCHANGED outcome
       ELSE /\ Panic("scanned range not found!")
            /\ UNCHANGED scan_ranges

\* The result is taken from the channel by try_recv, or by recv when draining.
ReceiveScanResults ==
  /\ pc \in {"poll", "drain"}
  /\ scan_results # << >>
  /\ ApplyScanResults(Head(scan_results))
  /\ scan_results' = Tail(scan_results)
  /\ probe' = 1
  /\ UNCHANGED <<chain_height, hand, syncs, fetcher, requests, scan_tasks,
                 current, worker, is_scanning>>

\* The scanner holds a sender, so an empty channel is never disconnected.
NoScanResults ==
  /\ pc = "poll"
  /\ scan_results = << >>
  /\ pc' = "check"
  /\ probe' = 1
  /\ UNCHANGED <<chain_height, wallet, hand, outcome, syncs, fetcher,
                 requests, pool>>

\* A worker task that is over holds no sender.
Stopped(w) == worker[w] \in {"ended", "dead"}

\* Mutant: an empty results channel is taken for a closed one, and the
\* fetcher is not joined.
ResultsEmpty ==
  /\ pc = "drain"
  /\ scan_results = << >>
  /\ pc' = "idle"
  /\ outcome' = "Ok"
  /\ UNCHANGED <<chain_height, wallet, probe, hand, syncs, fetcher, requests,
                 pool>>

\* recv returns None once every worker has dropped its sender.
ResultsClosed ==
  /\ pc = "drain"
  /\ scan_results = << >>
  /\ \A w \in Workers : Stopped(w)
  /\ pc' = "join"
  /\ UNCHANGED <<chain_height, wallet, probe, hand, outcome, syncs, fetcher,
                 requests, pool>>

\* try_join_all: sync() returns Ok when the fetcher ended normally.
JoinFetcher ==
  /\ pc = "join"
  /\ \/ fetcher = "ended" /\ pc' = "idle" /\ outcome' = "Ok"
     \/ fetcher = "panicked" /\ Panic("fetcher panicked")
  /\ UNCHANGED <<chain_height, wallet, probe, hand, syncs, fetcher, requests,
                 pool>>
-----------------------------------------------------------------------------
(* The scan workers.  Nothing they do matters once the main task panicked. *)

Alive == pc # "panicked"

\* Queue a request; a request to a fetcher that is gone is never answered.
Request(w) ==
  requests' = IF fetcher = "running" THEN Append(requests, w) ELSE requests

ReceiveScanTask(w) ==
  /\ Alive
  /\ worker[w] = "waiting"
  /\ scan_tasks[w] # << >>
  /\ current' = [current EXCEPT ![w] = << Head(scan_tasks[w]) >>]
  /\ scan_tasks' = [scan_tasks EXCEPT ![w] = Tail(@)]
  /\ worker' = [worker EXCEPT ![w] = "received"]
  /\ UNCHANGED <<chain_height, wallet, main, fetcher, requests, is_scanning,
                 scan_results>>

\* The flag is raised and scan() asks for the blocks of the range.
RequestBlocks(w) ==
  /\ Alive
  /\ worker[w] = "received"
  /\ is_scanning' = [is_scanning EXCEPT ![w] = TRUE]
  /\ worker' = [worker EXCEPT ![w] = "blocks requested"]
  /\ Request(w)
  /\ UNCHANGED <<chain_height, wallet, main, fetcher, scan_tasks, current,
                 scan_results>>

\* InitialScanData::new asks for the frontiers when neither the block below
\* the range nor the chain metadata of its first block is available.
RequestFrontiers(w) ==
  /\ Alive
  /\ worker[w] = "blocks fetched"
  /\ ~ current[w][1].prev
  /\ worker' = [worker EXCEPT ![w] = "frontiers requested"]
  /\ Request(w)
  /\ UNCHANGED <<chain_height, wallet, main, fetcher, scan_tasks, current,
                 is_scanning, scan_results>>

\* scan_compact_blocks succeeds and the worker sends its results.
SendScanResults(w) ==
  /\ Alive
  /\ worker[w] \in {"blocks fetched", "frontiers fetched"}
  /\ scan_results' = Append(scan_results, current[w][1])
  /\ current' = [current EXCEPT ![w] = << >>]
  /\ worker' = [worker EXCEPT ![w] = "sent"]
  /\ UNCHANGED <<chain_height, wallet, main, fetcher, requests, scan_tasks,
                 is_scanning>>

\* Mutant: the flag stays raised after the results were sent.
KeepScanning(w) ==
  /\ Alive
  /\ worker[w] = "sent"
  /\ worker' = [worker EXCEPT ![w] = "waiting"]
  /\ UNCHANGED <<chain_height, wallet, main, fetcher, requests, scan_tasks,
                 current, is_scanning, scan_results>>

ClearScanning(w) ==
  /\ Alive
  /\ worker[w] = "sent"
  /\ is_scanning' = [is_scanning EXCEPT ![w] = FALSE]
  /\ worker' = [worker EXCEPT ![w] = "waiting"]
  /\ UNCHANGED <<chain_height, wallet, main, fetcher, requests, scan_tasks,
                 current, scan_results>>

\* A panic drops the task at hand and every task still in the channel.
Die(w) ==
  /\ worker' = [worker EXCEPT ![w] = "dead"]
  /\ current' = [current EXCEPT ![w] = << >>]
  /\ scan_tasks' = [scan_tasks EXCEPT ![w] = << >>]
  /\ UNCHANGED <<chain_height, wallet, main, fetcher, requests, is_scanning,
                 scan_results>>

\* No block, a discontinuity or a wrong tree size: scan() panics.
ScanPanics(w) ==
  /\ Alive
  /\ ServerMayFail
  /\ worker[w] \in {"blocks fetched", "frontiers fetched"}
  /\ Die(w)

\* The fetcher is gone: the answer awaited never comes and unwrap panics.
AnswerLost(w) ==
  /\ Alive
  /\ fetcher = "panicked"
  /\ worker[w] \in {"blocks requested", "frontiers requested"}
  /\ Die(w)

\* The scanner was dropped and the channel is drained: run() returns.
WorkerEnds(w) ==
  /\ pc \in {"drain", "join"}
  /\ worker[w] = "waiting"
  /\ scan_tasks[w] = << >>
  /\ worker' = [worker EXCEPT ![w] = "ended"]
  /\ UNCHANGED <<chain_height, wallet, main, fetcher, requests, scan_tasks,
                 current, is_scanning, scan_results>>

WorkerStep(w) ==
  \/ ReceiveScanTask(w)
  \/ RequestBlocks(w)
  \/ RequestFrontiers(w)
  \/ SendScanResults(w)
  \/ ClearScanning(w)
  \/ AnswerLost(w)
  \/ WorkerEnds(w)
-----------------------------------------------------------------------------
(* The fetcher: requests are served one at a time, in order. *)

FetchFromServer ==
  /\ Alive
  /\ fetcher = "running"
  /\ requests # << >>
  /\ worker' = [worker EXCEPT ![Head(requests)] =
                  IF @ = "blocks requested" THEN "blocks fetched"
                                            ELSE "frontiers fetched"]
  /\ requests' = Tail(requests)
  /\ UNCHANGED <<chain_height, wallet, main, fetcher, scan_tasks, current,
                 is_scanning, scan_results>>

FetchFails ==
  /\ Alive
  /\ ServerMayFail
  /\ fetcher = "running"
  /\ requests # << >>
  /\ fetcher' = "panicked"
  /\ requests' = << >>
  /\ UNCHANGED <<chain_height, wallet, main, pool>>

\* The request channel is closed: scanner and workers dropped their senders.
FetcherEnds ==
  /\ pc \in {"drain", "join"}
  /\ fetcher = "running"
  /\ requests = << >>
  /\ \A w \in Workers : Stopped(w)
  /\ fetcher' = "ended"
  /\ UNCHANGED <<chain_height, wallet, main, requests, pool>>
-----------------------------------------------------------------------------
MainStep ==
  \/ WalletAhead
  \/ UpdateScanRanges
  \/ NextWorker
  \/ NoWorkerIdle
  \/ PrepareNextScanRange
  \/ NothingToScan
  \/ AddScanTask
  \/ NoIdleWorkers
  \/ ReceiveScanResults
  \/ NoScanResults
  \/ ResultsClosed
  \/ JoinFetcher

FetcherStep == FetchFromServer \/ FetcherEnds

\* The bounds are used up and no sync is running; any other state without a
\* successor is a deadlock.
Finished ==
  /\ pc = "panicked" \/ (pc = "idle" /\ syncs = MaxSyncs)
  /\ chain_height = MaxHeight
  /\ UNCHANGED vars

Next ==
  \/ ServerGrows
  \/ StartSync
  \/ ChainHeightFails
  \/ MainStep
  \/ \E w \in Workers : WorkerStep(w) \/ ScanPanics(w)
  \/ FetcherStep
  \/ FetchFails
  \/ Finished

Spec == Init /\ [][Next]_vars

\* The runtime polls every task that is ready; nothing obliges the server to
\* grow or to fail, or the caller to start a sync.
Fairness ==
  /\ WF_vars(MainStep)
  /\ \A w \in Workers : WF_vars(WorkerStep(w))
  /\ WF_vars(FetcherStep)

FairSpec == Spec /\ Fairness
-----------------------------------------------------------------------------
(* Properties *)

\* Every variable has its type.
TypeOK ==
  /\ chain_height \in Nat
  /\ scan_ranges \in Seq(ScanRanges)
  /\ wallet_blocks \subseteq Nat
  /\ nullifiers \subseteq Nat
  /\ shard_trees \subseteq Nat
  /\ pc \in {"idle", "height", "check", "assign", "poll", "drain", "join",
             "panicked"}
  /\ probe \in Workers
  /\ hand \in Seq(ScanTasks)
  /\ outcome \in {"none", "Ok", "server error", "wallet is ahead of server!",
                  "no idle workers!", "scanned range not found!",
                  "fetcher panicked"}
  /\ syncs \in Nat
  /\ fetcher \in {"off", "running", "ended", "panicked"}
  /\ requests \in Seq(Workers)
  /\ scan_tasks \in [Workers -> Seq(ScanTasks)]
  /\ current \in [Workers -> Seq(ScanTasks)]
  /\ worker \in [Workers -> {"waiting", "received", "blocks requested",
                            "blocks fetched", "frontiers requested",
                            "frontiers fetched", "sent", "ended", "dead"}]
  /\ is_scanning \in [Workers -> BOOLEAN]
  /\ scan_results \in Seq(ScanTasks)

\* The scan ranges are never empty, follow each other without gap or overlap
\* and start where the first sync started: splitting, marking and extending
\* the list (prepare_next_scan_range, mark_scanned, update_scan_ranges) never
\* lose a height or list one twice.
RangesPartition ==
  /\ \A k \in 1..Len(scan_ranges) :
        scan_ranges[k].start < scan_ranges[k].end
  /\ \A k \in 1..(Len(scan_ranges) - 1) :
        scan_ranges[k].end = scan_ranges[k + 1].start
  /\ scan_ranges # << >> =>
        scan_ranges[1].start = Max2(Birthday, SaplingActivation)

\* The main task holds a task exactly while it assigns one.
HandShape ==
  /\ pc = "assign" => Len(hand) = 1
  /\ pc \notin {"assign", "panicked"} => hand = << >>

\* A worker holds a task exactly while it scans.
CurrentShape ==
  \A w \in Workers :
    current[w] = << >> <=> worker[w] \in {"waiting", "sent", "ended", "dead"}

\* Each queued fetch request has a worker of its own that waits for it.
Waiting ==
  {w \in Workers : worker[w] \in {"blocks requested", "frontiers requested"}}

RequestShape ==
  /\ \A i \in 1..Len(requests) : requests[i] \in Waiting
  /\ \A i, j \in 1..Len(requests) : requests[i] = requests[j] => i = j
  /\ fetcher # "running" => requests = << >>

\* Nothing runs while sync() is not scanning.
QuietShape ==
  pc \in {"idle", "height", "join"} =>
    (\A w \in Workers : Stopped(w)) /\ scan_results = << >>

\* The channels and the tasks agree on where the work is.  This is what makes
\* the reading of hand[1] and current[w][1] sound; the proofs rest on it.
Shape == HandShape /\ CurrentShape /\ RequestShape /\ QuietShape

\* The tasks in flight, each at its place: held by the main task, queued for
\* a worker, being scanned, or waiting in the results channel.
Places ==
  {<<"hand", 0, i>> : i \in DOMAIN hand}
    \union {<<"results", 0, i>> : i \in DOMAIN scan_results}
    \union (UNION {{<<"queue", w, i>> : i \in DOMAIN scan_tasks[w]} : w \in Workers})
    \union (UNION {{<<"scan", w, i>> : i \in DOMAIN current[w]} : w \in Workers})

TaskAt(p) ==
  CASE p[1] = "hand"    -> hand[p[3]]
    [] p[1] = "results" -> scan_results[p[3]]
    [] p[1] = "queue"   -> scan_tasks[p[2]][p[3]]
    [] p[1] = "scan"    -> current[p[2]][p[3]]

\* A range is never scanned twice: no two tasks in flight share a height, and
\* a task in flight has one entry in the list, still Ignored and not yet in
\* the shard trees (whatever order the workers pick up, finish or fail in).
EachBatchOnce ==
  /\ \A p, q \in Places :
        p # q => Heights(TaskAt(p)) \intersect Heights(TaskAt(q)) = {}
  /\ \A p \in Places :
        /\ \E k \in 1..Len(scan_ranges) :
              /\ SameBlocks(scan_ranges[k], TaskAt(p))
              /\ scan_ranges[k].priority = "Ignored"
        /\ Heights(TaskAt(p)) \intersect shard_trees = {}

\* mark_scanned never meets its panic: the range of a result is still listed
\* although the list was split and extended since the task was prepared.
MarkScannedFinds == outcome # "scanned range not found!"

\* A Scanned range has all its commitments in the trees, and no height in the
\* trees lies outside a Scanned range.
TreesMatchRanges ==
  shard_trees = UNION {Heights(scan_ranges[k]) :
                         k \in {j \in 1..Len(scan_ranges) :
                                  scan_ranges[j].priority = "Scanned"}}

\* "Syncs a wallet to the latest state of the blockchain": when sync() has
\* returned Ok every range known to the wallet is Scanned.
OkMeansScanned ==
  outcome = "Ok" =>
    \A k \in 1..Len(scan_ranges) : scan_ranges[k].priority = "Scanned"

\* Once its ranges are updated a sync ends, it returns or panics, as long as
\* the server answers: the main task, the workers and the fetcher never wait
\* for each other for ever, and the dropped senders reach everyone.
SyncEnds == pc = "check" ~> pc \in {"idle", "panicked"}

\* The refinement mapping: what is known is what the list covers, what is
\* scanned is what the shard trees hold.
Scan == INSTANCE HeightScan WITH
  First <- Max2(Birthday, SaplingActivation),
  top <- WalletHeight,
  scanned <- shard_trees

\* The engine implements HeightScan: every height is scanned at most once, in
\* consecutive batches of at most BATCH_SIZE, and none below the first sync's
\* start or above the chain height the server reported.
ImplementsHeightScan == Scan!Spec
=============================================================================
