-------------------------------- MODULE Session --------------------------------
(* A run of zingo-cli and what survives it: the thread that prompts, the        *)
(* command loop it talks to over two channels, the mempool monitor that syncs   *)
(* in the background, the wallet in memory and the wallet file.  The process    *)
(* ends when its first thread does, whatever the others are doing, and may be   *)
(* started again.  Sync is the batch synchroniser seen from outside: records    *)
(* of a batch one by one, then its blocks, then a save.                         *)
EXTENDS Integers, FiniteSets, FiniteSetsExt, Sequences, Commands

CONSTANTS
  Lines,        \* what the user types: [cmd, args, exact]
  Options,      \* command lines of the process
  TxHeights,    \* heights of the chain's transactions of this wallet
  Activation,   \* sapling activation height
  FirstTip,     \* the height of the chain at the start
  MaxTip,       \* bound on the height of the chain
  BatchSize,    \* BATCH_SIZE
  Margin,       \* a new wallet starts this far below the chain's tip
  MaxRuns,      \* bound on the number of times the process is started
  MaxLines,     \* bound on the lines typed in a run
  MaxSettings,  \* bound on addresses, options and sends
  MaxFaults     \* bound on failed batches, answers and saves

ASSUME SessionAssumption ==
  /\ Activation \in Nat \ {0} /\ BatchSize \in Nat \ {0} /\ Margin \in Nat
  /\ FirstTip \in Nat /\ MaxTip \in Nat /\ TxHeights \subseteq Nat

VARIABLES
  tip,      \* height of the chain
  mem,      \* the wallet in memory
  file,     \* the wallet file
  thr,      \* the command thread and the mempool monitor
  lock,     \* who holds sync_lock, or "free"
  ui,       \* the thread that prompts
  inbox,    \* channel of commands
  outbox,   \* channel of replies
  runs, typed, faults,   \* bounds
  born,     \* where the wallet's history starts: its birthday when it was made
  overlap,  \* whether a clear and a sync of two threads ever overlapped, or the
            \* tasks of a batch that panicked went on without it
  stray,    \* whether a batch failed on a wallet without blocks, which has no
            \* block to pop and keeps what the batch recorded
  torn      \* whether the last write of the file was cut off, by the end of the
            \* process or by an error

vars == <<tip, mem, file, thr, lock, ui, inbox, outbox, runs, typed, faults, born, overlap, stray, torn>>

Threads == {"cli", "monitor"}
Other(t) == IF t = "cli" THEN "monitor" ELSE "cli"
NoWallet == [blocks |-> 0, base |-> 0, recs |-> {}, sent |-> {}, made |-> 0, birthday |-> 0,
             proposal |-> FALSE, interrupt |-> FALSE]
NoFile == [state |-> "none"]
Off == [pc |-> "off", job |-> "none", line |-> [cmd |-> "", args |-> 0, exact |-> FALSE],
        goal |-> 0, target |-> 0, todo |-> {}, buf |-> NoWallet]
UiOff == [pc |-> "off", known |-> FALSE, line |-> Off.line, oneshot |-> FALSE]

-----------------------------------------------------------------------------
(* The wallet.                                                                *)

\* get_birthday, get_first_transaction_block: the height of the first record, of
\* the chain or sent, and without records the birthday, raised to the activation
\* height.
Records(w) == w.recs \cup w.sent
FirstTransaction(w) == IF Records(w) = {} THEN Max({w.birthday, Activation}) ELSE Min(Records(w))
Birthday(w) == IF w.birthday = 0 THEN FirstTransaction(w) ELSE Min({FirstTransaction(w), w.birthday})

\* download_initial_tree_state_from_lightwalletd, set_initial_block: nothing at or
\* below activation, when the server fails, or when there are blocks.
Initial(w, b, served) ==
  IF w.blocks = 0 /\ b > Activation /\ served THEN [w EXCEPT !.blocks = b, !.base = b] ELSE w

\* last_synced_height
LastSynced(w) == IF w.blocks = 0 THEN Activation - 1 ELSE w.blocks

\* invalidate_all_transactions_after_or_at_height
Below(w, h) == [w EXCEPT !.recs = {r \in @ : r < h}, !.sent = {r \in @ : r < h}]

\* Mutant: a block is popped whether there is one or not.
InvalidatedEmpty(w) == [Below(w, LastSynced(w)) EXCEPT !.blocks = @ - 1]

\* invalidate_block at the last block: it is popped with the records at or above it.
\* The first block is popped last, and then there are none; a wallet without blocks
\* keeps its records.
Invalidated(w) ==
  IF w.blocks = 0 THEN w
  ELSE [Below(w, w.blocks) EXCEPT !.blocks = IF @ > w.base THEN @ - 1 ELSE 0,
                                  !.base = IF w.blocks > @ THEN @ ELSE 0]

\* LightWallet::read_internal: a file that was cut short is an error, and
\* proposals and the interrupt flag are not in it.
Readable == file.state = "whole"
ReadInternal == file.wallet

-----------------------------------------------------------------------------
(* Threads.                                                                   *)

At(t, pc) == thr[t].pc = pc
Goes(t, pc) == thr' = [thr EXCEPT ![t].pc = pc]
Alive(t) == thr[t].pc # "off"

\* Where a thread goes when its sync, its save or its command is over.
Over(t) == CASE thr[t].job = "command" -> "reply"
             [] thr[t].job = "monitor" -> "idle"
             [] thr[t].job = "create" -> "opened"
             [] OTHER -> "ready"

Returns(t) == thr' = [thr EXCEPT ![t] = [Off EXCEPT !.pc = Over(t), !.job = thr[t].job, !.line = thr[t].line]]

\* The process is over: only the file is left, and it is cut short if somebody had
\* emptied it to write it.
Exit ==
  /\ thr' = [t \in Threads |-> Off]
  /\ lock' = "free"
  /\ ui' = UiOff /\ inbox' = <<>> /\ outbox' = <<>>
  /\ mem' = NoWallet /\ typed' = 0
  /\ torn' = (torn \/ \E t \in Threads : At(t, "write"))

\* A panic: the command thread drops its channel ends, the monitor's task is gone;
\* the guard of the sync lock is dropped.
Panics(t) ==
  /\ thr' = [thr EXCEPT ![t] = Off]
  /\ lock' = IF lock = t THEN "free" ELSE lock
  /\ inbox' = IF t = "cli" THEN <<>> ELSE inbox

-----------------------------------------------------------------------------
Init ==
  /\ tip = FirstTip
  /\ mem = NoWallet /\ file = NoFile
  /\ thr = [t \in Threads |-> Off] /\ lock = "free"
  /\ ui = UiOff /\ inbox = <<>> /\ outbox = <<>>
  /\ runs = 0 /\ typed = 0 /\ faults = 0
  /\ born = 0 /\ overlap = FALSE /\ stray = FALSE /\ torn = FALSE

Mine ==
  /\ tip < MaxTip
  /\ tip' = tip + 1
  /\ UNCHANGED <<mem, file, thr, lock, ui, inbox, outbox, runs, typed, faults, born, overlap, stray, torn>>

-----------------------------------------------------------------------------
(* Startup.                                                                   *)

NoBirthday == 0 - 1

ASSUME OptionsAssumption == \A o \in Options : o.birthday \in Nat \cup {NoBirthday}

\* ConfigTemplate::fill: the command lines that are not refused.
Accepted(o) ==
  /\ o.command # "help"
  /\ ~(o.seed /\ o.viewkey)
  /\ o.seed \/ o.viewkey => o.birthday # NoBirthday
  /\ ~(o.chain # "none" /\ o.regtest)
  /\ o.chain \in {"none", "mainnet", "testnet", "regtest"}
  /\ o.server

FromKeys(o) == o.seed \/ o.viewkey

\* create_from_wallet_base, LightClient::new: the keys, the initial block, a save.
\* Without a file a wallet of a new seed starts Margin blocks below the tip.
Creates(o, served) ==
  LET b == IF FromKeys(o) THEN o.birthday ELSE Max({tip - Margin, 0})
      w == [NoWallet EXCEPT !.birthday = b]
  IN /\ mem' = Initial(w, b, served)
     /\ born' = b
     /\ overlap' = FALSE /\ stray' = FALSE /\ torn' = FALSE
     /\ thr' = [thr EXCEPT !["cli"] = [Off EXCEPT !.pc = "save", !.job = "create"]]

\* startup: a wallet from keys needs that there is no file; otherwise the file is
\* read if there is one.  An error ends the process.
Start(o, served) ==
  /\ ui.pc = "off" /\ runs < MaxRuns /\ Accepted(o)
  /\ runs' = runs + 1
  /\ ui' = [UiOff EXCEPT !.pc = "starting", !.oneshot = o.command # "none",
                         !.line = [cmd |-> o.command, args |-> o.args, exact |-> FALSE]]
  /\ \/ file = NoFile /\ Creates(o, served)
     \/ /\ ~FromKeys(o) /\ Readable
        /\ mem' = ReadInternal
        /\ thr' = [thr EXCEPT !["cli"] = [Off EXCEPT !.pc = "opened"]]
        /\ UNCHANGED <<born, overlap, stray, torn>>
  /\ UNCHANGED <<tip, file, lock, inbox, outbox, typed, faults>>

\* A sync unless --nosync; then command_loop spawns the thread that serves the
\* commands, which first starts the mempool monitor.
Begin(sync) ==
  /\ \/ /\ sync /\ At("cli", "opened")
        /\ thr' = [thr EXCEPT !["cli"].pc = "sync", !["cli"].job = "startup"]
        /\ UNCHANGED ui
     \/ /\ At("cli", IF sync THEN "ready" ELSE "opened")
        /\ thr' = [thr EXCEPT !["cli"] = [Off EXCEPT !.pc = "recv"],
                              !["monitor"] = [Off EXCEPT !.pc = "idle", !.job = "monitor"]]
        /\ ui' = [ui EXCEPT !.pc = IF ui.oneshot THEN "typed" ELSE "info"]
  /\ UNCHANGED <<tip, mem, file, lock, inbox, outbox, runs, typed, faults, born, overlap, stray, torn>>

-----------------------------------------------------------------------------
(* The thread that prompts: start_interactive, and a single command.          *)

Ask(name, args) == [cmd |-> name, args |-> args, exact |-> FALSE]

\* send_command: the loop may be gone, and then the unwrap ends the process.
UiSend ==
  /\ ui.pc \in {"info", "height", "typed"}
  /\ IF Alive("cli")
     THEN /\ LET line == CASE ui.pc = "info" -> Ask("info", 0)
                           [] ui.pc = "height" -> Ask("height", 1)
                           [] OTHER -> ui.line
             IN /\ inbox' = Append(inbox, line)
                /\ ui' = [ui EXCEPT !.line = line,
                                    !.pc = CASE ui.pc = "info" -> "infoing"
                                             [] ui.pc = "height" -> "heighting"
                                             [] OTHER -> "waiting"]
          /\ UNCHANGED <<thr, lock, outbox, mem, typed, torn>>
     ELSE Exit
  /\ UNCHANGED <<tip, file, runs, faults, born, overlap, stray>>

Waits == ui.pc \in {"infoing", "heighting", "waiting"}
Top(known) == IF known THEN "height" ELSE "info"

\* What the prompt does with a reply, or with the empty string that stands for a
\* loop that is gone: a height that does not parse ends the process, and so do
\* the line "quit" and the end of a single command.  Whether info names the chain
\* depends on the server.
Replied(answered) ==
  \/ /\ ui.pc = "infoing"
     /\ \E known \in {FALSE, answered} : ui' = [ui EXCEPT !.pc = "height", !.known = known, !.line = Off.line]
     /\ UNCHANGED <<thr, lock, inbox, mem, typed, torn>>
  \/ /\ ui.pc = "heighting" /\ answered
     /\ ui' = [ui EXCEPT !.pc = "prompt", !.line = Off.line]
     /\ UNCHANGED <<thr, lock, inbox, mem, typed, torn>>
  \/ /\ ui.pc = "waiting" /\ ~ui.line.exact /\ ~ui.oneshot
     /\ ui' = [ui EXCEPT !.pc = Top(ui.known), !.line = Off.line]
     /\ UNCHANGED <<thr, lock, inbox, mem, typed, torn>>

Ends(answered) ==
  \/ ui.pc = "heighting" /\ ~answered
  \/ ui.pc = "waiting" /\ (ui.line.exact \/ ui.oneshot)

UiReceive ==
  /\ Waits
  /\ \/ /\ outbox # <<>>
        /\ \/ Replied(TRUE) /\ outbox' = Tail(outbox)
           \/ Ends(TRUE) /\ Exit
     \/ /\ outbox = <<>> /\ ~Alive("cli")
        /\ \/ Replied(FALSE) /\ UNCHANGED outbox
           \/ Ends(FALSE) /\ Exit
  /\ UNCHANGED <<tip, file, runs, faults, born, overlap, stray>>

\* readline: a line, or one that is blank or has mismatched quotes.
Type(line) ==
  /\ ui.pc = "prompt" /\ typed < MaxLines
  /\ typed' = typed + 1
  /\ ui' = [ui EXCEPT !.pc = "typed", !.line = line]
  /\ UNCHANGED <<tip, mem, file, thr, lock, inbox, outbox, runs, faults, born, overlap, stray, torn>>

TypeBlank ==
  /\ ui.pc = "prompt" /\ typed < MaxLines
  /\ typed' = typed + 1
  /\ ui' = [ui EXCEPT !.pc = Top(ui.known)]
  /\ UNCHANGED <<tip, mem, file, thr, lock, inbox, outbox, runs, faults, born, overlap, stray, torn>>

\* Ctrl-C or Ctrl-D at the prompt, or the process killed at any time.
Killed ==
  /\ ui.pc # "off"
  /\ Exit
  /\ UNCHANGED <<tip, file, runs, faults, born, overlap, stray>>

-----------------------------------------------------------------------------
(* The command loop.                                                          *)

\* The command at the head of the channel is taken and its thread goes to pc.
Takes(pc) ==
  /\ At("cli", "recv") /\ inbox # <<>>
  /\ thr' = [thr EXCEPT !["cli"] = [Off EXCEPT !.pc = pc, !.job = "command", !.line = Head(inbox)]]
  /\ inbox' = Tail(inbox)

\* What a command that is over at once may do to the wallet in memory: nothing, if
\* the server or its words do not allow it.  A proposal that is confirmed stays; what
\* is sent is recorded at the height after the chain's.
MaySend == mem.recs # {} /\ Cardinality(mem.sent) < MaxSettings

Changes(line) ==
  LET does == Does(line) IN
  {mem} \cup (CASE does = "setting" /\ mem.made < MaxSettings -> {[mem EXCEPT !.made = @ + 1]}
                [] does = "interrupt" -> {[mem EXCEPT !.interrupt = i] : i \in BOOLEAN}
                [] does = "propose" -> {[mem EXCEPT !.proposal = TRUE]}
                [] does = "quick" /\ MaySend -> {[mem EXCEPT !.sent = @ \cup {tip + 1}]}
                [] does = "confirm" /\ mem.proposal /\ MaySend -> {[mem EXCEPT !.sent = @ \cup {tip + 1}]}
                [] OTHER -> {})

\* Nothing of what such a command changes is saved.
Execute ==
  /\ Takes("reply") /\ Does(Head(inbox)) \notin {"sync", "rescan", "clear", "delete"}
  /\ \E w \in Changes(Head(inbox)) : mem' = w
  /\ UNCHANGED <<tip, file, lock, ui, outbox, runs, typed, faults, born, overlap, stray, torn>>

ExecutePanics ==
  /\ At("cli", "recv") /\ inbox # <<>> /\ MayPanic(Head(inbox))
  /\ Panics("cli")
  /\ UNCHANGED <<tip, mem, file, ui, outbox, runs, typed, faults, born, overlap, stray, torn>>

\* Mutant: a long command is answered when it starts, too.
ExecuteLongAnswers ==
  /\ \/ Takes("sync") /\ Does(Head(inbox)) = "sync"
     \/ Takes("clear blocks") /\ Does(Head(inbox)) \in {"rescan", "clear"}
  /\ outbox' = Append(outbox, Head(inbox))
  /\ UNCHANGED <<tip, mem, file, lock, ui, runs, typed, faults, born, overlap, stray, torn>>

\* do_sync, do_rescan and clear_state, each in steps below.
ExecuteLong ==
  /\ \/ Takes("sync") /\ Does(Head(inbox)) = "sync"
     \/ Takes("clear blocks") /\ Does(Head(inbox)) \in {"rescan", "clear"}
  /\ UNCHANGED <<tip, mem, file, lock, ui, outbox, runs, typed, faults, born, overlap, stray, torn>>

\* do_delete: the file is removed; the wallet goes on in memory, and the next save
\* makes the file again.  Removing a file somebody is writing leaves none.
ExecuteDelete ==
  /\ Takes("reply") /\ Does(Head(inbox)) = "delete"
  /\ file' = NoFile
  /\ UNCHANGED <<tip, mem, lock, ui, outbox, runs, typed, faults, born, overlap, stray, torn>>

Reply ==
  /\ At("cli", "reply")
  /\ outbox' = Append(outbox, thr["cli"].line)
  /\ thr' = [thr EXCEPT !["cli"] = [Off EXCEPT !.pc = IF thr["cli"].line.cmd = "quit" THEN "quitting" ELSE "recv"]]
  /\ UNCHANGED <<tip, mem, file, lock, ui, inbox, runs, typed, faults, born, overlap, stray, torn>>

\* The loop ends: its ends of the channels are dropped.
Quit ==
  /\ At("cli", "quitting")
  /\ Panics("cli")
  /\ UNCHANGED <<tip, mem, file, ui, outbox, runs, typed, faults, born, overlap, stray, torn>>

-----------------------------------------------------------------------------
(* clear_state, and the rescan that follows it; no lock is taken.             *)

Clears(t) == thr[t].pc \in {"clear records", "initial"}

ClearBlocks(t) ==
  /\ At(t, "clear blocks")
  /\ mem' = [mem EXCEPT !.blocks = 0, !.base = 0]
  /\ Goes(t, "clear records")
  /\ overlap' = (overlap \/ lock # "free")
  /\ UNCHANGED <<tip, file, lock, ui, inbox, outbox, runs, typed, faults, born, stray, torn>>

ClearRecords(t) ==
  /\ At(t, "clear records")
  /\ mem' = [mem EXCEPT !.recs = {}, !.sent = {}]
  /\ Goes(t, "initial")
  /\ overlap' = (overlap \/ lock # "free")
  /\ UNCHANGED <<tip, file, lock, ui, inbox, outbox, runs, typed, faults, born, stray, torn>>

SetInitial(t) ==
  /\ At(t, "initial")
  /\ \E served \in BOOLEAN : mem' = Initial(mem, Birthday(mem), served)
  /\ Goes(t, IF Does(thr[t].line) = "rescan" THEN "sync" ELSE "reply")
  /\ overlap' = (overlap \/ lock # "free")
  /\ UNCHANGED <<tip, file, lock, ui, inbox, outbox, runs, typed, faults, born, stray, torn>>

-----------------------------------------------------------------------------
(* do_sync: batches up to the height of the chain when it started.            *)

\* monitor_mempool ended because a block came.
MonitorWakes ==
  /\ At("monitor", "idle")
  /\ Goes("monitor", "sync")
  /\ UNCHANGED <<tip, mem, file, lock, ui, inbox, outbox, runs, typed, faults, born, overlap, stray, torn>>

\* start_sync: the lock, then the height of the chain, which the server may refuse
\* to give or give below the wallet's.
SyncBegin(t) ==
  /\ At(t, "sync") /\ lock = "free"
  /\ \/ /\ LastSynced(mem) <= tip
        /\ lock' = t
        /\ thr' = [thr EXCEPT ![t].pc = "batch", ![t].goal = tip,
                              ![t].target = Min({tip, LastSynced(mem) + BatchSize})]
     \/ Returns(t) /\ UNCHANGED lock
  /\ overlap' = (overlap \/ Clears(Other(t)))
  /\ UNCHANGED <<tip, mem, file, ui, inbox, outbox, runs, typed, faults, born, stray, torn>>

\* sync_nth_batch, up to the tasks of the batch: nothing to do, or the blocks above
\* the wallet's; a target below the wallet panics in setup_nth_batch.
BatchBegin(t) ==
  /\ At(t, "batch")
  /\ LET last == LastSynced(mem) IN
     \/ last = thr[t].target /\ Goes(t, "batched") /\ UNCHANGED <<lock, inbox>>
     \/ /\ last < thr[t].target
        /\ thr' = [thr EXCEPT ![t].pc = "scan", ![t].todo = {h \in TxHeights : last < h /\ h <= thr[t].target}]
        /\ UNCHANGED <<lock, inbox>>
     \/ last > thr[t].target /\ Panics(t)
  /\ UNCHANGED <<tip, mem, file, ui, outbox, runs, typed, faults, born, overlap, stray, torn>>

Scan(t, h) ==
  /\ At(t, "scan") /\ h \in thr[t].todo
  /\ mem' = [mem EXCEPT !.recs = @ \cup {h}]
  /\ thr' = [thr EXCEPT ![t].todo = @ \ {h}]
  /\ UNCHANGED <<tip, file, lock, ui, inbox, outbox, runs, typed, faults, born, overlap, stray, torn>>

\* No block comes before the stream ends: sync_nth_batch returns without an error,
\* and nothing was scanned.
NoBlocksCome(t) ==
  /\ At(t, "batch") /\ LastSynced(mem) < thr[t].target /\ faults < MaxFaults
  /\ faults' = faults + 1
  /\ Goes(t, "batched")
  /\ UNCHANGED <<tip, mem, file, lock, ui, inbox, outbox, runs, typed, born, overlap, stray, torn>>

\* The task that takes the blocks fails, and the unwrap of its result panics: the
\* other tasks go on without the batch and record what they find.
BatchPanics(t) ==
  /\ At(t, "scan") /\ faults < MaxFaults
  /\ faults' = faults + 1
  /\ \E found \in SUBSET thr[t].todo : mem' = [mem EXCEPT !.recs = @ \cup found]
  /\ overlap' = TRUE
  /\ Panics(t)
  /\ UNCHANGED <<tip, file, ui, outbox, runs, typed, born, stray, torn>>

\* Mutant: the lock is kept when a batch fails.
BatchFailsLocked(t) ==
  /\ At(t, "scan") /\ faults < MaxFaults
  /\ faults' = faults + 1
  /\ mem' = Invalidated(mem)
  /\ stray' = (stray \/ mem.blocks = 0)
  /\ Returns(t)
  /\ UNCHANGED <<tip, file, lock, ui, inbox, outbox, runs, typed, born, overlap, torn>>

\* One of the tasks fails: the last block of the wallet is invalidated.
BatchFails(t) ==
  /\ At(t, "scan") /\ faults < MaxFaults
  /\ faults' = faults + 1
  /\ mem' = Invalidated(mem)
  /\ stray' = (stray \/ mem.blocks = 0)
  /\ lock' = "free"
  /\ Returns(t)
  /\ UNCHANGED <<tip, file, ui, inbox, outbox, runs, typed, born, overlap, torn>>

\* Mutant: the blocks are stored before all records are.
BatchDoneEarly(t) ==
  /\ At(t, "scan")
  /\ mem' = [mem EXCEPT !.blocks = thr[t].target, !.base = IF @ = 0 THEN Activation ELSE @]
  /\ Goes(t, "save")
  /\ UNCHANGED <<tip, file, lock, ui, inbox, outbox, runs, typed, faults, born, overlap, stray, torn>>

\* set_blocks: the blocks there were when the batch began, and the new ones.
BatchDone(t) ==
  /\ At(t, "scan") /\ thr[t].todo = {}
  /\ mem' = [mem EXCEPT !.blocks = thr[t].target, !.base = IF @ = 0 THEN Activation ELSE @]
  /\ Goes(t, "save")
  /\ UNCHANGED <<tip, file, lock, ui, inbox, outbox, runs, typed, faults, born, overlap, stray, torn>>

\* The next batch, unless it was the last one or the interrupt flag is set.
BatchNext(t) ==
  /\ At(t, "batched")
  /\ IF thr[t].target = thr[t].goal \/ mem.interrupt
     THEN lock' = "free" /\ Returns(t)
     ELSE /\ thr' = [thr EXCEPT ![t].pc = "batch", ![t].target = Min({thr[t].goal, @ + BatchSize})]
          /\ UNCHANGED lock
  /\ UNCHANGED <<tip, mem, file, ui, inbox, outbox, runs, typed, faults, born, overlap, stray, torn>>

-----------------------------------------------------------------------------
(* save_internal_rust: LightWallet::write into the buffer, a lock at a time,   *)
(* and then the buffer into the file.                                          *)

\* The keys and the blocks.
WriteBlocks(t) ==
  /\ At(t, "save")
  /\ thr' = [thr EXCEPT ![t].pc = "save records",
                        ![t].buf = [NoWallet EXCEPT !.made = mem.made, !.blocks = mem.blocks, !.base = mem.base]]
  /\ UNCHANGED <<tip, mem, file, lock, ui, inbox, outbox, runs, typed, faults, born, overlap, stray, torn>>

\* Mutant: the records of the last block are left out.
WriteRecordsBelow(t) ==
  /\ At(t, "save records")
  /\ thr' = [thr EXCEPT ![t].pc = "save birthday", ![t].buf.sent = mem.sent,
                        ![t].buf.recs = {h \in mem.recs : h < mem.blocks}]
  /\ UNCHANGED <<tip, mem, file, lock, ui, inbox, outbox, runs, typed, faults, born, overlap, stray, torn>>

WriteRecords(t) ==
  /\ At(t, "save records")
  /\ thr' = [thr EXCEPT ![t].pc = "save birthday", ![t].buf.recs = mem.recs, ![t].buf.sent = mem.sent]
  /\ UNCHANGED <<tip, mem, file, lock, ui, inbox, outbox, runs, typed, faults, born, overlap, stray, torn>>

\* The options and the birthday, which is computed again.
WriteBirthday(t) ==
  /\ At(t, "save birthday")
  /\ thr' = [thr EXCEPT ![t].pc = "create", ![t].buf.birthday = Birthday(mem)]
  /\ UNCHANGED <<tip, mem, file, lock, ui, inbox, outbox, runs, typed, faults, born, overlap, stray, torn>>

\* write_to_file: File::create empties the file.
CreateFile(t) ==
  /\ At(t, "create")
  /\ file' = [state |-> "empty"]
  /\ Goes(t, "write")
  /\ UNCHANGED <<tip, mem, lock, ui, inbox, outbox, runs, typed, faults, born, overlap, stray, torn>>

\* The file cannot be made: an error of the startup, a panic in a sync.
CreateFails(t) ==
  /\ At(t, "create") /\ faults < MaxFaults
  /\ faults' = faults + 1
  /\ IF ui.pc = "starting" THEN Exit ELSE Panics(t) /\ UNCHANGED <<ui, outbox, mem, typed, torn>>
  /\ UNCHANGED <<tip, file, runs, born, overlap, stray>>

\* Mutant: a wallet without blocks is not written.
WriteFileSkips(t) ==
  /\ At(t, "write")
  /\ file' = IF file = NoFile \/ thr[t].buf.blocks = 0 THEN file ELSE [state |-> "whole", wallet |-> thr[t].buf]
  /\ IF thr[t].job = "create" THEN Returns(t)
     ELSE thr' = [thr EXCEPT ![t].pc = "batched", ![t].buf = NoWallet]
  /\ torn' = FALSE
  /\ UNCHANGED <<tip, mem, lock, ui, inbox, outbox, runs, typed, faults, born, overlap, stray>>

\* write_all: a file removed in the meantime stays removed.
WriteFile(t) ==
  /\ At(t, "write")
  /\ file' = IF file = NoFile THEN file ELSE [state |-> "whole", wallet |-> thr[t].buf]
  /\ IF thr[t].job = "create" THEN Returns(t)
     ELSE thr' = [thr EXCEPT ![t].pc = "batched", ![t].buf = NoWallet]
  /\ torn' = FALSE
  /\ UNCHANGED <<tip, mem, lock, ui, inbox, outbox, runs, typed, faults, born, overlap, stray>>

\* write_all fails after the file was emptied: an error of the startup, a panic in a
\* sync, and the file stays cut short.
WriteFails(t) ==
  /\ At(t, "write") /\ faults < MaxFaults
  /\ faults' = faults + 1
  /\ IF ui.pc = "starting" THEN Exit
     ELSE Panics(t) /\ torn' = TRUE /\ UNCHANGED <<ui, outbox, mem, typed>>
  /\ UNCHANGED <<tip, file, runs, born, overlap, stray>>

-----------------------------------------------------------------------------
Sync(t) ==
  \/ SyncBegin(t) \/ BatchBegin(t) \/ BatchDone(t) \/ BatchNext(t)
  \/ \E h \in TxHeights : Scan(t, h)
Save(t) == WriteBlocks(t) \/ WriteRecords(t) \/ WriteBirthday(t) \/ CreateFile(t) \/ WriteFile(t)
Fail(t) == NoBlocksCome(t) \/ BatchFails(t) \/ BatchPanics(t) \/ CreateFails(t) \/ WriteFails(t)
Clear == ClearBlocks("cli") \/ ClearRecords("cli") \/ SetInitial("cli")
Loop == Execute \/ ExecuteLong \/ ExecuteDelete \/ Reply \/ Quit
Prompt == UiSend \/ UiReceive

Next ==
  \/ Mine
  \/ \E o \in Options, served \in BOOLEAN : Start(o, served)
  \/ \E sync \in BOOLEAN : Begin(sync)
  \/ Prompt \/ TypeBlank \/ Killed
  \/ \E line \in Lines : Type(line)
  \/ Loop \/ ExecutePanics \/ Clear \/ MonitorWakes
  \/ \E t \in Threads : Sync(t) \/ Save(t) \/ Fail(t)

\* Threads run; the lock is handed over in the order it was asked for.
Fairness ==
  /\ WF_vars(Prompt) /\ WF_vars(Loop) /\ WF_vars(Clear)
  /\ WF_vars(Begin(FALSE))
  /\ \A t \in Threads : SF_vars(SyncBegin(t)) /\ WF_vars(Sync(t) \/ Save(t))

Spec == Init /\ [][Next]_vars
FairSpec == Spec /\ Fairness

-----------------------------------------------------------------------------
(* Types.                                                                     *)
TypeOK ==
  /\ tip \in Nat
  /\ mem.blocks \in 0 .. MaxTip + 1 /\ mem.recs \subseteq TxHeights
  /\ file.state \in {"none", "empty", "whole"}
  /\ lock \in Threads \cup {"free"}
  /\ ui.pc \in {"off", "starting", "info", "infoing", "height", "heighting", "prompt", "typed", "waiting"}

(* A reply the prompt takes belongs to the command it sent last, and at most    *)
(* one command is under way (send_command, command_loop): the two channels are  *)
(* unbounded and nothing but their order pairs a reply with its command.        *)
RepliesMatch ==
  /\ Waits => \A i \in DOMAIN outbox : outbox[i] = ui.line
  /\ Len(inbox) + Len(outbox) <= IF Waits THEN 1 ELSE 0

Scanning == \E t \in Threads : thr[t].pc = "scan" \/ thr[t].pc \in {"clear records"}

\* The records a wallet at a height must have: every one since it was born, and none
\* above its blocks but what a failed batch of a wallet without blocks left.
Complete(w) ==
  /\ {h \in TxHeights : born < h /\ h <= w.blocks} \subseteq w.recs
  /\ stray \/ \A h \in w.recs : h <= w.blocks

(* The wallet in memory has the records of all the blocks it says it has        *)
(* scanned since its birthday, whatever was cleared, scanned again, failed or   *)
(* interrupted; and of no others, unless a batch failed on a wallet without     *)
(* blocks, where invalidate_block does nothing.  Nothing is said of a wallet    *)
(* after a clear of one thread ran into a sync of another (clear_all takes no   *)
(* lock), or a batch panicked and left its tasks running.                       *)
RecordsComplete == ui.pc # "off" /\ ~Scanning /\ ~overlap => Complete(mem)

(* The same of the file: LightWallet::write reads the blocks and the records    *)
(* under different locks while the other thread types, sends, deletes the file  *)
(* or waits for the sync lock.  Commands that change blocks or records in the   *)
(* middle of a sync's save are the clears, which overlap excludes.              *)
FileComplete == file.state = "whole" /\ ~overlap => Complete(file.wallet)

(* The file is cut short only while somebody is writing it, or since a write    *)
(* was cut off by the end of the process or by an error (write_to_file): in     *)
(* every other state it can be read, was never there or was deleted.            *)
FileReadable == file.state = "empty" => torn \/ \E t \in Threads : At(t, "write")

(* A command that was sent is answered, or the process ends: the loop may be    *)
(* waiting for the monitor's sync, it may have panicked, or it may have ended   *)
(* with a line that is not exactly "quit" (start_interactive, command_loop).    *)
Answered == (ui.pc \in {"typed", "waiting"}) ~> (ui.pc \in {"off", "info", "height", "prompt"})
=============================================================================
