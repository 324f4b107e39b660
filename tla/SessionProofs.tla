---------------------------- MODULE SessionProofs ----------------------------
(***************************************************************************)
(* Proofs about Session, for every set of lines and command lines, every   *)
(* chain and every bound: replies and commands are paired, the file can be *)
(* read, and the wallet in memory and the one in the file hold the records *)
(* of all the blocks they claim.                                           *)
(***************************************************************************)
EXTENDS Session, SequenceFacts

SavePcs == {"save", "save records", "save birthday", "create", "write"}
BatchPcs == {"batch", "scan", "batched"}
ClearPcs == {"clear blocks", "clear records", "initial"}
SyncPcs == {"sync"} \cup BatchPcs \cup SavePcs
StagePcs == {"off", "opened", "ready", "recv", "reply", "quitting", "idle"} \cup ClearPcs \cup SyncPcs

\* Every line that may be typed or asked for.
Names == {"", "info", "height"}
Typed == Lines \cup {Ask(c, 0) : c \in Names} \cup {Ask(c, 1) : c \in Names}
         \cup {Ask(o.command, o.args) : o \in Options}

Wallets ==
  [blocks : Nat, base : Nat, recs : SUBSET TxHeights, sent : SUBSET (Nat \ {0}), made : Nat,
   birthday : Nat, proposal : BOOLEAN, interrupt : BOOLEAN]

Stages ==
  [pc : StagePcs, job : {"none", "command", "create", "startup", "monitor"}, line : Typed,
   goal : Nat, target : Nat, todo : SUBSET TxHeights, buf : Wallets]

UiPcs == {"off", "starting", "info", "infoing", "height", "heighting", "prompt", "typed", "waiting"}

WholeFile(w) == [state |-> "whole", wallet |-> w]
EmptyFile == [state |-> "empty"]

\* The shape of every variable the properties are about.
Shape ==
  /\ tip \in Nat
  /\ mem \in Wallets
  /\ file \in {NoFile, EmptyFile} \cup {WholeFile(w) : w \in Wallets}
  /\ thr \in [Threads -> Stages]
  /\ lock \in Threads \cup {"free"}
  /\ ui \in [pc : UiPcs, known : BOOLEAN, line : Typed, oneshot : BOOLEAN]
  /\ inbox \in Seq(Typed) /\ outbox \in Seq(Typed)
  /\ born \in Nat /\ overlap \in BOOLEAN /\ stray \in BOOLEAN /\ torn \in BOOLEAN

-----------------------------------------------------------------------------
(* What each thread may be doing.                                           *)

\* The command thread: nothing, a startup, or a command.
CliRole ==
  LET c == thr["cli"] IN
  \/ c.job = "none" /\ c.pc \in {"off", "recv", "quitting", "opened"}
  \/ c.job = "create" /\ c.pc \in SavePcs \cup {"opened"}
  \/ c.job = "startup" /\ c.pc \in SyncPcs \cup {"ready"}
  \/ c.job = "command" /\ c.pc \in SyncPcs \cup ClearPcs \cup {"reply"}

\* The monitor waits for a block or syncs.
MonitorRole ==
  LET m == thr["monitor"] IN
  \/ m.job = "none" /\ m.pc = "off"
  \/ m.job = "monitor" /\ m.pc \in SyncPcs \cup {"idle"}

\* Until the prompt is there nobody serves commands and there is no monitor.
Startup ==
  /\ ui.pc = "off" => \A t \in Threads : thr[t].pc = "off"
  /\ ui.pc = "starting" =>
       /\ thr["monitor"].pc = "off"
       /\ thr["cli"].job # "command" /\ thr["cli"].pc \notin {"recv", "quitting"}
  /\ thr["cli"].job \in {"create", "startup"} \/ thr["cli"].pc = "opened" => ui.pc = "starting"

\* Who scans or saves as part of a sync holds the lock.
Holds(t) == thr[t].pc \in BatchPcs \/ (thr[t].pc \in SavePcs /\ thr[t].job # "create")
LockHeld == \A t \in Threads : Holds(t) => lock = t

RolesInv == CliRole /\ MonitorRole /\ Startup /\ LockHeld

\* A command is in one place: in the channel to the loop, with the loop, or its
\* reply is in the channel back.
Working == thr["cli"].job = "command"
OneCommand ==
  /\ ~Waits => inbox = <<>> /\ outbox = <<>> /\ ~Working
  /\ Waits =>
       /\ inbox # <<>> => inbox = <<ui.line>> /\ outbox = <<>> /\ ~Working /\ Alive("cli")
       /\ outbox # <<>> => outbox = <<ui.line>> /\ inbox = <<>> /\ ~Working
       /\ Working => thr["cli"].line = ui.line

-----------------------------------------------------------------------------
(* Records.                                                                 *)

\* A wallet whose blocks and records start where they should: b is the height its
\* history starts at.
Based(w, b) ==
  /\ w.birthday # 0 /\ w.birthday <= b
  /\ w.blocks = 0 => w.base = 0
  /\ w.blocks # 0 => Activation <= w.base /\ w.base <= w.blocks
  /\ \A h \in w.recs : Activation <= h /\ w.base <= h

\* It has the records of its blocks, and, unless a failed batch left some (g), no
\* others.
Full(w, b, g) ==
  /\ \A h \in TxHeights : b < h /\ h <= w.blocks => h \in w.recs
  /\ g \/ \A h \in w.recs : h <= w.blocks

Sound(w, b, g) == Based(w, b) /\ Full(w, b, g)

\* A batch in the middle: what it has not found yet is still to do, and what it
\* found is not above its target.
Midway(w, s, b, g) ==
  /\ LastSynced(w) < s.target
  /\ \A h \in TxHeights : b < h /\ h <= w.blocks => h \in w.recs
  /\ \A h \in s.todo : LastSynced(w) < h /\ h <= s.target
  /\ \A h \in TxHeights : LastSynced(w) < h /\ h <= s.target => h \in w.recs \/ h \in s.todo
  /\ g \/ \A h \in w.recs : h <= s.target

\* The part of a wallet that a save has copied.
Copied(w, s, b, g) ==
  /\ s.pc \in {"save records", "save birthday"} => s.buf.blocks = w.blocks /\ s.buf.base = w.base
  /\ s.pc = "save birthday" => s.buf.recs = w.recs
  /\ s.pc \in {"create", "write"} => Sound(s.buf, b, g)

\* What a thread in the middle of a sync, a clear or a save may rely on; l is the
\* lock.
Duty(w, s, l, b, g) ==
  /\ s.pc = "scan" => Midway(w, s, b, g)
  /\ s.pc \in {"clear records", "initial"} => l = "free" /\ w.blocks = 0 /\ w.base = 0
  /\ s.pc = "initial" => w.recs = {}
  /\ Copied(w, s, b, g)

\* The steps with such a duty.
DutyPcs == {"scan", "clear records", "initial", "save records", "save birthday", "create", "write"}

Quiet == \A t \in Threads : thr[t].pc \notin {"scan", "clear records"}

\* The wallet in memory, between and within the steps of syncs, clears and saves.
MemorySound ==
  /\ Based(mem, born)
  /\ Quiet => Full(mem, born, stray)
  /\ \A t \in Threads : Duty(mem, thr[t], lock, born, stray)

\* Memory and file, as long as no clear and no sync of two threads overlap.
RecordsInv ==
  ~overlap =>
    /\ ui.pc # "off" => MemorySound
    /\ file.state = "whole" => Sound(file.wallet, born, stray)

\* Every wallet is made with the height its history starts at (--birthday with the
\* keys, or a tip above the margin), and has no history below activation, which no
\* sync scans.
HistoryKnown ==
  /\ \A o \in Options : FromKeys(o) => o.birthday # 0
  /\ Margin < FirstTip
  /\ \A h \in TxHeights : Activation <= h

-----------------------------------------------------------------------------
(* Operators.                                                               *)

\* The least of a set of heights.
LEMMA MinOfSet ==
  ASSUME NEW S \in SUBSET Nat, S # {}
  PROVE  Min(S) \in S /\ \A y \in S : Min(S) <= y
<1>1. \E x \in S : \A y \in S : x <= y
  BY LeastNat
<1> QED BY <1>1 DEF Min

\* The least of two heights.
LEMMA MinOfTwo ==
  ASSUME NEW a \in Int, NEW b \in Int
  PROVE  Min({a, b}) = IF a <= b THEN a ELSE b
BY DEF Min

\* The greatest of two heights.
LEMMA MaxOfTwo ==
  ASSUME NEW a \in Int, NEW b \in Int
  PROVE  Max({a, b}) = IF a >= b THEN a ELSE b
BY DEF Max

\* A channel with one message.
LEMMA OneMessage ==
  ASSUME NEW S, NEW x \in S
  PROVE  /\ Len(<<x>>) = 1 /\ <<x>>[1] = x /\ DOMAIN <<x>> = {1}
         /\ Tail(<<x>>) = <<>>
<1>1. <<x>> \in Seq(S) /\ Len(<<x>>) = 1
  OBVIOUS
<1>2. <<x>>[1] = x
  OBVIOUS
<1>3. DOMAIN <<x>> = 1 .. 1
  BY <1>1, LenProperties
<1>4. Tail(<<x>>) \in Seq(S) /\ Len(Tail(<<x>>)) = 0
  BY <1>1
<1>5. Tail(<<x>>) = <<>>
  BY <1>4, EmptySeq
<1> QED BY <1>1, <1>2, <1>3, <1>5

\* What the prompt asks for by itself.
LEMMA AskTyped ==
  ASSUME NEW c \in Names
  PROVE  Ask(c, 0) \in Typed /\ Ask(c, 1) \in Typed
BY DEF Typed

\* What a process that is not running has.
LEMMA NothingYet ==
  /\ NoWallet \in Wallets
  /\ Off.line \in Typed
  /\ Off \in Stages
  /\ UiOff \in [pc : UiPcs, known : BOOLEAN, line : Typed, oneshot : BOOLEAN]
<1>1. NoWallet \in Wallets
  BY DEF NoWallet, Wallets
<1>2. Off.line \in Typed
  <2>1. Off.line = Ask("", 0)
    BY DEF Off, Ask
  <2>2. Ask("", 0) \in Typed
    BY AskTyped DEF Names
  <2> QED BY <2>1, <2>2
<1>3. Off \in Stages
  BY <1>1, <1>2 DEF Off, Stages, StagePcs, ClearPcs, SyncPcs, BatchPcs, SavePcs
<1>4. UiOff \in [pc : UiPcs, known : BOOLEAN, line : Typed, oneshot : BOOLEAN]
  BY <1>2 DEF UiOff, UiPcs
<1> QED BY <1>1, <1>2, <1>3, <1>4

\* last_synced_height is a height.
LEMMA LastSyncedNat ==
  ASSUME NEW w \in Wallets
  PROVE  LastSynced(w) \in Nat
BY SessionAssumption DEF LastSynced, Wallets

\* get_birthday is a height; a birthday that is known is never raised, nor lowered
\* below activation or the first record.
LEMMA BirthdayBounds ==
  ASSUME NEW w \in Wallets
  PROVE  /\ Birthday(w) \in Nat
         /\ w.birthday # 0 => Birthday(w) <= w.birthday
         /\ w.birthday # 0 /\ (\A h \in w.recs : Activation <= h) => Birthday(w) # 0
         /\ Birthday(w) \in Records(w) \cup {w.birthday, Activation}
<1>0. /\ w.birthday \in Nat /\ w.recs \subseteq Nat /\ w.sent \subseteq Nat \ {0}
      /\ Activation \in Nat \ {0}
  BY SessionAssumption DEF Wallets
<1>1. /\ w.birthday \in Nat
      /\ Activation \in Nat \ {0} /\ Records(w) \subseteq Nat
      /\ (\A h \in w.recs : Activation <= h) => 0 \notin Records(w)
  BY <1>0 DEF Records
<1>2. CASE Records(w) = {}
  <2>1. FirstTransaction(w) = IF w.birthday >= Activation THEN w.birthday ELSE Activation
    BY <1>1, <1>2, MaxOfTwo DEF FirstTransaction
  <2>2. CASE w.birthday = 0
    BY <1>1, <1>2, <2>1, <2>2 DEF Birthday
  <2>3. CASE w.birthday # 0
    <3>1. Birthday(w) = Min({FirstTransaction(w), w.birthday})
      BY <2>3 DEF Birthday
    <3>2. Birthday(w) = w.birthday
      BY <1>1, <2>1, <3>1, MinOfTwo
    <3> QED BY <1>1, <3>2, <2>3
  <2> QED BY <2>2, <2>3
<1>3. CASE Records(w) # {}
  <2>1. FirstTransaction(w) \in Records(w)
    BY <1>1, <1>3, MinOfSet DEF FirstTransaction
  <2>2. CASE w.birthday = 0
    BY <1>1, <2>1, <2>2 DEF Birthday
  <2>3. CASE w.birthday # 0
    <3>1. Birthday(w) = Min({FirstTransaction(w), w.birthday})
      BY <2>3 DEF Birthday
    <3>2. FirstTransaction(w) \in Nat
      BY <1>1, <2>1
    <3>3. Birthday(w) = IF FirstTransaction(w) <= w.birthday THEN FirstTransaction(w) ELSE w.birthday
      BY <1>1, <3>1, <3>2, MinOfTwo
    <3> QED BY <1>1, <2>1, <2>3, <3>2, <3>3
  <2> QED BY <2>2, <2>3
<1> QED BY <1>2, <1>3

\* set_initial_block gives a wallet.
LEMMA InitialWallet ==
  ASSUME NEW w \in Wallets, NEW b \in Nat, NEW served
  PROVE  Initial(w, b, served) \in Wallets
BY DEF Initial, Wallets

\* invalidate_block gives a wallet.
LEMMA InvalidatedWallet ==
  ASSUME NEW w \in Wallets
  PROVE  Invalidated(w) \in Wallets
<1>1. /\ {h \in w.recs : h < w.blocks} \in SUBSET TxHeights
      /\ {h \in w.sent : h < w.blocks} \in SUBSET (Nat \ {0})
  BY DEF Wallets
<1>2. w.blocks \in Nat /\ w.base \in Nat /\ (w.blocks > w.base => w.blocks - 1 \in Nat)
  BY DEF Wallets
<1>3. Below(w, w.blocks) \in Wallets
  BY <1>1 DEF Below, Wallets
<1>4. Below(w, w.blocks).blocks = w.blocks /\ Below(w, w.blocks).base = w.base
  BY DEF Below, Wallets
<1> QED BY <1>2, <1>3, <1>4 DEF Invalidated, Wallets

\* A command that is over at once leaves the blocks, the records and the birthday.
LEMMA ChangesWallet ==
  ASSUME NEW line, mem \in Wallets, tip \in Nat, NEW w \in Changes(line)
  PROVE  /\ w \in Wallets
         /\ w.blocks = mem.blocks /\ w.base = mem.base
         /\ w.recs = mem.recs /\ w.birthday = mem.birthday
         /\ w.sent \subseteq mem.sent \cup {tip + 1}
<1>1. \/ w = mem
      \/ w = [mem EXCEPT !.made = @ + 1]
      \/ \E i \in BOOLEAN : w = [mem EXCEPT !.interrupt = i]
      \/ w = [mem EXCEPT !.proposal = TRUE]
      \/ w = [mem EXCEPT !.sent = @ \cup {tip + 1}]
  <2> DEFINE d == Does(line)
  <2>1. w \in {mem} \cup (CASE d = "setting" /\ mem.made < MaxSettings -> {[mem EXCEPT !.made = @ + 1]}
                [] d = "interrupt" -> {[mem EXCEPT !.interrupt = i] : i \in BOOLEAN}
                [] d = "propose" -> {[mem EXCEPT !.proposal = TRUE]}
                [] d = "quick" /\ MaySend -> {[mem EXCEPT !.sent = @ \cup {tip + 1}]}
                [] d = "confirm" /\ mem.proposal /\ MaySend -> {[mem EXCEPT !.sent = @ \cup {tip + 1}]}
                [] OTHER -> {})
    BY DEF Changes
  <2> HIDE DEF d
  <2> QED BY <2>1
<1>2. CASE w = mem
  BY <1>2
<1>3. CASE w = [mem EXCEPT !.made = @ + 1]
  BY <1>3 DEF Wallets
<1>4. CASE \E i \in BOOLEAN : w = [mem EXCEPT !.interrupt = i]
  <2>1. PICK i \in BOOLEAN : w = [mem EXCEPT !.interrupt = i]
    BY <1>4
  <2> QED BY <2>1 DEF Wallets
<1>5. CASE w = [mem EXCEPT !.proposal = TRUE]
  BY <1>5 DEF Wallets
<1>6. CASE w = [mem EXCEPT !.sent = @ \cup {tip + 1}]
  <2>1. tip + 1 \in Nat \ {0}
    OBVIOUS
  <2> QED BY <1>6, <2>1 DEF Wallets
<1> QED BY <1>1, <1>2, <1>3, <1>4, <1>5, <1>6

-----------------------------------------------------------------------------
(* Shapes.                                                                  *)

\* The initial state has the shape.
LEMMA ShapeInit == Init => Shape
<1> SUFFICES ASSUME Init PROVE Shape
  OBVIOUS
<1>1. /\ thr \in [Threads -> Stages] /\ mem \in Wallets
      /\ ui \in [pc : UiPcs, known : BOOLEAN, line : Typed, oneshot : BOOLEAN]
  BY NothingYet DEF Init
<1>2. inbox \in Seq(Typed) /\ outbox \in Seq(Typed)
  BY DEF Init
<1>3. /\ tip \in Nat /\ file = NoFile /\ lock = "free" /\ born \in Nat
      /\ overlap = FALSE /\ stray = FALSE /\ torn = FALSE
  BY SessionAssumption DEF Init
<1> QED BY <1>1, <1>2, <1>3 DEF Shape

\* The end of the process.
LEMMA ExitShape ==
  ASSUME Shape, Exit
  PROVE  /\ thr' \in [Threads -> Stages] /\ mem' \in Wallets
         /\ ui' \in [pc : UiPcs, known : BOOLEAN, line : Typed, oneshot : BOOLEAN]
         /\ inbox' \in Seq(Typed) /\ outbox' \in Seq(Typed)
         /\ lock' \in Threads \cup {"free"} /\ torn' \in BOOLEAN
BY NothingYet DEF Exit, Shape

\* A panic of one thread.
LEMMA PanicsShape ==
  ASSUME NEW t \in Threads, Shape, Panics(t)
  PROVE  /\ thr' \in [Threads -> Stages] /\ inbox' \in Seq(Typed)
         /\ lock' \in Threads \cup {"free"}
BY NothingYet DEF Panics, Shape

\* A thread that is done with its sync.
LEMMA ReturnsShape ==
  ASSUME NEW t \in Threads, Shape, Returns(t)
  PROVE  /\ thr' \in [Threads -> Stages]
         /\ thr'[t].pc = Over(t) /\ thr'[t].job = thr[t].job /\ thr'[t].line = thr[t].line
         /\ thr'[t].todo = {} /\ thr'[t].buf = NoWallet
         /\ \A u \in Threads : u # t => thr'[u] = thr[u]
<1>1. Over(t) \in {"reply", "idle", "opened", "ready"}
  BY DEF Over
<1>2. Over(t) \in StagePcs
  BY <1>1 DEF StagePcs
<1>3. [Off EXCEPT !.pc = Over(t), !.job = thr[t].job, !.line = thr[t].line] \in Stages
  BY <1>2, NothingYet DEF Shape, Stages
<1> QED BY <1>3, NothingYet DEF Returns, Shape, Off

\* A thread that goes to its next step.
LEMMA GoesShape ==
  ASSUME NEW t \in Threads, NEW pc \in StagePcs, Shape, Goes(t, pc)
  PROVE  /\ thr' \in [Threads -> Stages]
         /\ thr'[t].pc = pc /\ thr'[t].job = thr[t].job /\ thr'[t].line = thr[t].line
         /\ thr'[t].todo = thr[t].todo /\ thr'[t].buf = thr[t].buf /\ thr'[t].target = thr[t].target
         /\ \A u \in Threads : u # t => thr'[u] = thr[u]
BY DEF Goes, Shape, Stages

\* A command that is taken.
LEMMA TakesShape ==
  ASSUME NEW pc \in StagePcs, Shape, Takes(pc)
  PROVE  /\ thr' \in [Threads -> Stages] /\ inbox' \in Seq(Typed)
         /\ thr'["cli"].pc = pc /\ thr'["cli"].job = "command" /\ thr'["cli"].line = Head(inbox)
         /\ thr'["monitor"] = thr["monitor"]
         /\ Head(inbox) = inbox[1] /\ thr["cli"].pc = "recv" /\ inbox # <<>> /\ inbox' = Tail(inbox)
<1>1. Head(inbox) \in Typed /\ Tail(inbox) \in Seq(Typed) /\ Head(inbox) = inbox[1]
  BY DEF Takes, Shape
<1>2. [Off EXCEPT !.pc = pc, !.job = "command", !.line = Head(inbox)] \in Stages
  BY <1>1, NothingYet DEF Stages
<1> QED BY <1>1, <1>2 DEF Takes, Shape, Threads, Off, At

\* The shapes are kept when the thread that prompts or the startup moves.
LEMMA ShapePrompt ==
  ASSUME Shape, Mine \/ Prompt \/ TypeBlank \/ Killed
                \/ (\E o \in Options, served \in BOOLEAN : Start(o, served))
                \/ (\E sync \in BOOLEAN : Begin(sync)) \/ (\E line \in Lines : Type(line))
  PROVE  Shape'
<1> USE DEF Shape
<1>1. CASE Mine
  BY <1>1 DEF Mine
<1>2. CASE UiSend
  <2>1. CASE Alive("cli")
    <3> DEFINE line == CASE ui.pc = "info" -> Ask("info", 0)
                         [] ui.pc = "height" -> Ask("height", 1)
                         [] OTHER -> ui.line
               pc == CASE ui.pc = "info" -> "infoing"
                       [] ui.pc = "height" -> "heighting"
                       [] OTHER -> "waiting"
    <3>1. /\ inbox' = Append(inbox, line)
          /\ ui' = [ui EXCEPT !.line = line, !.pc = pc]
          /\ UNCHANGED <<tip, mem, file, thr, lock, outbox, born, overlap, stray, torn>>
      BY <1>2, <2>1 DEF UiSend
    <3>2. line \in Typed
      <4>1. Ask("info", 0) \in Typed /\ Ask("height", 1) \in Typed
        BY AskTyped DEF Names
      <4> QED BY <4>1
    <3>3. pc \in UiPcs
      BY DEF UiPcs
    <3> HIDE DEF line, pc
    <3>4. inbox' \in Seq(Typed)
      BY <3>1, <3>2
    <3>5. ui' \in [pc : UiPcs, known : BOOLEAN, line : Typed, oneshot : BOOLEAN]
      BY <3>1, <3>2, <3>3
    <3> QED BY <3>1, <3>4, <3>5
  <2>2. CASE ~Alive("cli")
    BY <1>2, <2>2, ExitShape DEF UiSend
  <2> QED BY <2>1, <2>2
<1>3. CASE UiReceive
  <2>1. CASE Exit
    BY <1>3, <2>1, ExitShape DEF UiReceive
  <2>2. ASSUME NEW answered \in BOOLEAN, Replied(answered), outbox' \in Seq(Typed)
        PROVE  Shape'
    <3>1. ui' \in [pc : UiPcs, known : BOOLEAN, line : Typed, oneshot : BOOLEAN]
      BY <2>2, NothingYet DEF Replied, Top, UiPcs
    <3> QED BY <1>3, <2>2, <3>1 DEF UiReceive, Replied
  <2>3. CASE outbox # <<>> /\ Replied(TRUE) /\ outbox' = Tail(outbox)
    <3>1. outbox' \in Seq(Typed)
      BY <2>3
    <3> QED BY <2>2, <2>3, <3>1
  <2>4. CASE outbox = <<>> /\ Replied(FALSE) /\ UNCHANGED outbox
    BY <2>2, <2>4
  <2> QED BY <1>3, <2>1, <2>3, <2>4 DEF UiReceive
<1>4. CASE TypeBlank
  BY <1>4 DEF TypeBlank, Top, UiPcs
<1>5. CASE Killed
  BY <1>5, ExitShape DEF Killed
<1>6. ASSUME NEW o \in Options, NEW served \in BOOLEAN, Start(o, served)
      PROVE  Shape'
  <2>1. ui' \in [pc : UiPcs, known : BOOLEAN, line : Typed, oneshot : BOOLEAN]
    <3>2. [cmd |-> o.command, args |-> o.args, exact |-> FALSE] \in Typed
      BY DEF Ask, Typed
    <3>3. (o.command # "none") \in BOOLEAN
      OBVIOUS
    <3> QED BY <1>6, <3>2, <3>3, NothingYet DEF Start, UiPcs
  <2>2. CASE file = NoFile /\ Creates(o, served)
    <3> DEFINE b == IF FromKeys(o) THEN o.birthday ELSE Max({tip - Margin, 0})
               w == [NoWallet EXCEPT !.birthday = b]
    <3>1. /\ mem' = Initial(w, b, served) /\ born' = b /\ overlap' = FALSE /\ stray' = FALSE /\ torn' = FALSE
          /\ thr' = [thr EXCEPT !["cli"] = [Off EXCEPT !.pc = "save", !.job = "create"]]
      BY <2>2 DEF Creates
    <3>2. b \in Nat
      <4>1. CASE FromKeys(o)
        BY <4>1, <1>6, OptionsAssumption DEF Start, Accepted, FromKeys
      <4>2. CASE ~FromKeys(o)
        BY <4>2, MaxOfTwo, SessionAssumption
      <4> QED BY <4>1, <4>2
    <3>3. w \in Wallets
      BY <3>2, NothingYet DEF Wallets
    <3>4. [Off EXCEPT !.pc = "save", !.job = "create"] \in Stages
      BY NothingYet DEF Stages, StagePcs, SyncPcs, SavePcs
    <3> HIDE DEF b, w
    <3>5. mem' \in Wallets
      BY <3>1, <3>2, <3>3, InitialWallet
    <3> QED BY <1>6, <2>1, <3>1, <3>2, <3>4, <3>5 DEF Start
  <2>3. CASE Readable /\ UNCHANGED <<born, overlap, stray, torn>> /\ mem' = ReadInternal
             /\ thr' = [thr EXCEPT !["cli"] = [Off EXCEPT !.pc = "opened"]]
    <3>1. file.wallet \in Wallets
      BY <2>3 DEF Readable, NoFile, EmptyFile, WholeFile
    <3>2. [Off EXCEPT !.pc = "opened"] \in Stages
      BY NothingYet DEF Stages, StagePcs
    <3> QED BY <1>6, <2>1, <2>3, <3>1, <3>2 DEF Start, ReadInternal
  <2> QED BY <1>6, <2>2, <2>3 DEF Start
<1>7. ASSUME NEW sync \in BOOLEAN, Begin(sync)
      PROVE  Shape'
  <2>1. thr' \in [Threads -> Stages]
    <3>1. /\ [Off EXCEPT !.pc = "recv"] \in Stages
          /\ [Off EXCEPT !.pc = "idle", !.job = "monitor"] \in Stages
      BY NothingYet DEF Stages, StagePcs
    <3>2. CASE thr' = [thr EXCEPT !["cli"].pc = "sync", !["cli"].job = "startup"]
      <4>1. "sync" \in StagePcs
        BY DEF StagePcs, SyncPcs
      <4>2. [thr["cli"] EXCEPT !.pc = "sync", !.job = "startup"] \in Stages
        BY <4>1 DEF Stages, Threads
      <4>3. thr' = [thr EXCEPT !["cli"] = [thr["cli"] EXCEPT !.pc = "sync", !.job = "startup"]]
        BY <3>2
      <4> QED BY <4>2, <4>3
    <3>3. CASE thr' = [thr EXCEPT !["cli"] = [Off EXCEPT !.pc = "recv"],
                                  !["monitor"] = [Off EXCEPT !.pc = "idle", !.job = "monitor"]]
      BY <3>1, <3>3
    <3> QED BY <1>7, <3>2, <3>3 DEF Begin
  <2>2. ui' \in [pc : UiPcs, known : BOOLEAN, line : Typed, oneshot : BOOLEAN]
    BY <1>7 DEF Begin, UiPcs
  <2> QED BY <1>7, <2>1, <2>2 DEF Begin
<1>8. ASSUME NEW line \in Lines, Type(line)
      PROVE  Shape'
  BY <1>8 DEF Type, Typed, UiPcs
<1> QED BY <1>1, <1>2, <1>3, <1>4, <1>5, <1>6, <1>7, <1>8 DEF Prompt

\* The shapes are kept when the command thread moves.
LEMMA ShapeLoop ==
  ASSUME Shape, Loop \/ ExecutePanics \/ Clear \/ MonitorWakes
  PROVE  Shape'
<1>1. "cli" \in Threads /\ "monitor" \in Threads
  BY DEF Threads
<1>2. {"sync", "clear blocks", "clear records", "initial", "reply"} \subseteq StagePcs
  BY DEF StagePcs, SyncPcs, ClearPcs
<1>3. CASE Execute
  <2>1. mem' \in Wallets
    BY <1>3, ChangesWallet DEF Execute, Shape
  <2> QED BY <1>2, <1>3, <2>1, TakesShape DEF Execute, Shape
<1>4. CASE ExecuteLong
  BY <1>2, <1>4, TakesShape DEF ExecuteLong, Shape
<1>5. CASE ExecuteDelete
  BY <1>2, <1>5, TakesShape DEF ExecuteDelete, Shape
<1>6. CASE Reply
  <2>1. thr["cli"].line \in Typed
    BY <1>1 DEF Shape, Stages
  <2>2. outbox' \in Seq(Typed)
    BY <1>6, <2>1 DEF Reply, Shape
  <2> DEFINE pc == IF thr["cli"].line.cmd = "quit" THEN "quitting" ELSE "recv"
  <2>3. pc \in StagePcs
    BY DEF StagePcs
  <2>4. thr' = [thr EXCEPT !["cli"] = [Off EXCEPT !.pc = pc]]
    BY <1>6 DEF Reply
  <2> HIDE DEF pc
  <2>5. [Off EXCEPT !.pc = pc] \in Stages
    BY <2>3, NothingYet DEF Stages
  <2>6. thr' \in [Threads -> Stages]
    BY <2>4, <2>5 DEF Shape
  <2> QED BY <1>6, <2>2, <2>6 DEF Reply, Shape
<1>7. CASE Quit
  BY <1>1, <1>7, PanicsShape DEF Quit, Shape
<1>8. CASE ExecutePanics
  BY <1>1, <1>8, PanicsShape DEF ExecutePanics, Shape
<1>9. CASE ClearBlocks("cli")
  <2>1. mem' \in Wallets
    BY <1>9 DEF ClearBlocks, Shape, Wallets
  <2>2. thr' \in [Threads -> Stages]
    BY <1>1, <1>2, <1>9, GoesShape DEF ClearBlocks
  <2>3. overlap' \in BOOLEAN
    BY <1>9 DEF ClearBlocks
  <2> QED BY <1>9, <2>1, <2>2, <2>3 DEF ClearBlocks, Shape
<1>10. CASE ClearRecords("cli")
  <2>1. mem' \in Wallets
    BY <1>10 DEF ClearRecords, Shape, Wallets
  <2>2. thr' \in [Threads -> Stages]
    BY <1>1, <1>2, <1>10, GoesShape DEF ClearRecords
  <2>3. overlap' \in BOOLEAN
    BY <1>10 DEF ClearRecords
  <2> QED BY <1>10, <2>1, <2>2, <2>3 DEF ClearRecords, Shape
<1>11. CASE SetInitial("cli")
  <2>1. mem' \in Wallets
    BY <1>11, InitialWallet, BirthdayBounds DEF SetInitial, Shape
  <2>2. thr' \in [Threads -> Stages]
    BY <1>1, <1>2, <1>11, GoesShape DEF SetInitial
  <2>3. overlap' \in BOOLEAN
    BY <1>11 DEF SetInitial
  <2> QED BY <1>11, <2>1, <2>2, <2>3 DEF SetInitial, Shape
<1>12. CASE MonitorWakes
  BY <1>1, <1>2, <1>12, GoesShape DEF MonitorWakes, Shape
<1> QED BY <1>3, <1>4, <1>5, <1>6, <1>7, <1>8, <1>9, <1>10, <1>11, <1>12 DEF Loop, Clear

\* The shapes are kept by a sync and a save.
LEMMA ShapeSync ==
  ASSUME NEW t \in Threads, Shape, Sync(t) \/ Save(t) \/ Fail(t)
  PROVE  Shape'
<1>1. {"batch", "batched", "scan", "save", "save records", "save birthday", "create", "write"} \subseteq StagePcs
  BY DEF StagePcs, SyncPcs, BatchPcs, SavePcs
<1>2. thr[t] \in Stages /\ thr[t].target \in Nat /\ thr[t].goal \in Nat
      /\ thr[t].todo \subseteq TxHeights /\ thr[t].buf \in Wallets
  BY DEF Shape, Stages
<1>3. LastSynced(mem) \in Nat
  BY LastSyncedNat DEF Shape
<1>4. CASE SyncBegin(t)
  <2>1. overlap' \in BOOLEAN
    BY <1>4 DEF SyncBegin
  <2>2. CASE Returns(t) /\ UNCHANGED lock
    BY <1>4, <2>1, <2>2, ReturnsShape DEF SyncBegin, Shape
  <2>3. CASE ~(Returns(t) /\ UNCHANGED lock)
    <3> DEFINE to == Min({tip, LastSynced(mem) + BatchSize})
    <3>1. to \in Nat
      BY <1>3, MinOfTwo, SessionAssumption DEF Shape
    <3>2. thr' = [thr EXCEPT ![t].pc = "batch", ![t].goal = tip, ![t].target = to] /\ lock' = t
      BY <1>4, <2>3 DEF SyncBegin
    <3> HIDE DEF to
    <3>3. [thr[t] EXCEPT !.pc = "batch", !.goal = tip, !.target = to] \in Stages
      BY <1>1, <1>2, <3>1 DEF Stages, Shape
    <3>4. thr' = [thr EXCEPT ![t] = [thr[t] EXCEPT !.pc = "batch", !.goal = tip, !.target = to]]
      BY <3>2
    <3>5. thr' \in [Threads -> Stages]
      BY <3>3, <3>4 DEF Shape
    <3> QED BY <1>4, <2>1, <3>2, <3>5 DEF SyncBegin, Shape
  <2> QED BY <2>2, <2>3
<1>5. CASE BatchBegin(t)
  <2>1. CASE Goes(t, "batched") /\ UNCHANGED <<lock, inbox>>
    BY <1>1, <1>5, <2>1, GoesShape DEF BatchBegin, Shape
  <2>2. CASE Panics(t)
    BY <1>5, <2>2, PanicsShape DEF BatchBegin, Shape
  <2>3. CASE /\ thr' = [thr EXCEPT ![t].pc = "scan", ![t].todo = {h \in TxHeights : LastSynced(mem) < h /\ h <= thr[t].target}]
             /\ UNCHANGED <<lock, inbox>>
    <3> DEFINE new == {h \in TxHeights : LastSynced(mem) < h /\ h <= thr[t].target}
    <3>1. new \in SUBSET TxHeights
      OBVIOUS
    <3> HIDE DEF new
    <3>2. [thr[t] EXCEPT !.pc = "scan", !.todo = new] \in Stages
      BY <1>1, <1>2, <3>1 DEF Stages
    <3>3. thr' = [thr EXCEPT ![t] = [thr[t] EXCEPT !.pc = "scan", !.todo = new]]
      BY <2>3 DEF new
    <3>4. thr' \in [Threads -> Stages]
      BY <3>2, <3>3 DEF Shape
    <3> QED BY <1>5, <2>3, <3>4 DEF BatchBegin, Shape
  <2> QED BY <1>5, <2>1, <2>2, <2>3 DEF BatchBegin
<1>6. CASE BatchDone(t)
  <2>1. mem' \in Wallets
    BY <1>2, <1>6, SessionAssumption DEF BatchDone, Shape, Wallets
  <2> QED BY <1>1, <1>6, <2>1, GoesShape DEF BatchDone, Shape
<1>7. CASE BatchNext(t)
  <2>1. CASE lock' = "free" /\ Returns(t)
    BY <1>7, <2>1, ReturnsShape DEF BatchNext, Shape
  <2>2. CASE /\ thr' = [thr EXCEPT ![t].pc = "batch", ![t].target = Min({thr[t].goal, @ + BatchSize})]
             /\ UNCHANGED lock
    <3> DEFINE to == Min({thr[t].goal, thr[t].target + BatchSize})
    <3>1. to \in Nat
      BY <1>2, MinOfTwo, SessionAssumption
    <3> HIDE DEF to
    <3>2. [thr[t] EXCEPT !.pc = "batch", !.target = to] \in Stages
      BY <1>1, <1>2, <3>1 DEF Stages
    <3>3. thr' = [thr EXCEPT ![t] = [thr[t] EXCEPT !.pc = "batch", !.target = to]]
      BY <2>2 DEF to, Shape, Stages
    <3>4. thr' \in [Threads -> Stages]
      BY <3>2, <3>3 DEF Shape
    <3> QED BY <1>7, <2>2, <3>4 DEF BatchNext, Shape
  <2> QED BY <1>7, <2>1, <2>2 DEF BatchNext
<1>8. ASSUME NEW h \in TxHeights, Scan(t, h)
      PROVE  Shape'
  <2>1. mem' \in Wallets
    BY <1>8 DEF Scan, Shape, Wallets
  <2>2. thr' \in [Threads -> Stages]
    <3>1. thr[t].todo \ {h} \in SUBSET TxHeights
      BY <1>2
    <3>2. [thr[t] EXCEPT !.todo = thr[t].todo \ {h}] \in Stages
      BY <1>2, <3>1 DEF Stages
    <3>3. thr' = [thr EXCEPT ![t] = [thr[t] EXCEPT !.todo = thr[t].todo \ {h}]]
      BY <1>8 DEF Scan, Shape, Stages
    <3> QED BY <3>2, <3>3 DEF Shape
  <2> QED BY <1>8, <2>1, <2>2 DEF Scan, Shape
<1>9. CASE BatchFails(t)
  BY <1>9, InvalidatedWallet, ReturnsShape DEF BatchFails, Shape
<1>10. CASE WriteBlocks(t)
  <2> DEFINE b == [NoWallet EXCEPT !.made = mem.made, !.blocks = mem.blocks, !.base = mem.base]
  <2>1. b \in Wallets
    BY NothingYet DEF Wallets, Shape
  <2> HIDE DEF b
  <2>2. [thr[t] EXCEPT !.pc = "save records", !.buf = b] \in Stages
    BY <1>1, <1>2, <2>1 DEF Stages
  <2>3. thr' = [thr EXCEPT ![t] = [thr[t] EXCEPT !.pc = "save records", !.buf = b]]
    BY <1>10 DEF WriteBlocks, b
  <2>4. thr' \in [Threads -> Stages]
    BY <2>2, <2>3 DEF Shape
  <2> QED BY <1>10, <2>4 DEF WriteBlocks, Shape
<1>11. CASE WriteRecords(t)
  <2> DEFINE b == [thr[t].buf EXCEPT !.recs = mem.recs, !.sent = mem.sent]
  <2>1. b \in Wallets
    BY <1>2 DEF Wallets, Shape
  <2>2. thr' = [thr EXCEPT ![t] = [thr[t] EXCEPT !.pc = "save birthday", !.buf = b]]
    BY <1>11 DEF WriteRecords
  <2> HIDE DEF b
  <2>3. [thr[t] EXCEPT !.pc = "save birthday", !.buf = b] \in Stages
    BY <1>1, <1>2, <2>1 DEF Stages
  <2>4. thr' \in [Threads -> Stages]
    BY <2>2, <2>3 DEF Shape
  <2> QED BY <1>11, <2>4 DEF WriteRecords, Shape
<1>12. CASE WriteBirthday(t)
  <2> DEFINE b == [thr[t].buf EXCEPT !.birthday = Birthday(mem)]
  <2>1. b \in Wallets
    BY <1>2, BirthdayBounds DEF Wallets, Shape
  <2>2. thr' = [thr EXCEPT ![t] = [thr[t] EXCEPT !.pc = "create", !.buf = b]]
    BY <1>12 DEF WriteBirthday
  <2> HIDE DEF b
  <2>3. [thr[t] EXCEPT !.pc = "create", !.buf = b] \in Stages
    BY <1>1, <1>2, <2>1 DEF Stages
  <2>4. thr' \in [Threads -> Stages]
    BY <2>2, <2>3 DEF Shape
  <2> QED BY <1>12, <2>4 DEF WriteBirthday, Shape
<1>13. CASE CreateFile(t)
  BY <1>1, <1>13, GoesShape DEF CreateFile, Shape, EmptyFile
<1>14. CASE WriteFile(t)
  <2>1. file' \in {NoFile, EmptyFile} \cup {WholeFile(w) : w \in Wallets}
    <3>1. WholeFile(thr[t].buf) \in {WholeFile(w) : w \in Wallets}
      BY <1>2
    <3>2. file' = file \/ file' = WholeFile(thr[t].buf)
      BY <1>14 DEF WriteFile, WholeFile
    <3> QED BY <3>1, <3>2 DEF Shape
  <2>2. CASE Returns(t)
    BY <1>14, <2>1, <2>2, ReturnsShape DEF WriteFile, Shape
  <2>3. CASE thr' = [thr EXCEPT ![t].pc = "batched", ![t].buf = NoWallet]
    <3>1. [thr[t] EXCEPT !.pc = "batched", !.buf = NoWallet] \in Stages
      BY <1>1, <1>2, NothingYet DEF Stages
    <3>2. thr' = [thr EXCEPT ![t] = [thr[t] EXCEPT !.pc = "batched", !.buf = NoWallet]]
      BY <2>3
    <3>3. thr' \in [Threads -> Stages]
      BY <3>1, <3>2 DEF Shape
    <3> QED BY <1>14, <2>1, <3>3 DEF WriteFile, Shape
  <2> QED BY <1>14, <2>2, <2>3 DEF WriteFile
<1>15. CASE CreateFails(t)
  BY <1>15, ExitShape, PanicsShape DEF CreateFails, Shape
<1>16. CASE WriteFails(t)
  BY <1>16, ExitShape, PanicsShape DEF WriteFails, Shape
<1>17. CASE NoBlocksCome(t)
  BY <1>1, <1>17, GoesShape DEF NoBlocksCome, Shape
<1>18. CASE BatchPanics(t)
  <2>1. mem' \in Wallets
    BY <1>2, <1>18 DEF BatchPanics, Shape, Wallets
  <2> QED BY <1>18, <2>1, PanicsShape DEF BatchPanics, Shape
<1> QED BY <1>4, <1>5, <1>6, <1>7, <1>8, <1>9, <1>10, <1>11, <1>12, <1>13, <1>14, <1>15,
           <1>16, <1>17, <1>18 DEF Sync, Save, Fail

\* Every step keeps the shapes.
LEMMA ShapeStep == Shape /\ [Next]_vars => Shape'
<1> SUFFICES ASSUME Shape, [Next]_vars PROVE Shape'
  OBVIOUS
<1>1. CASE UNCHANGED vars
  BY <1>1 DEF vars, Shape
<1>2. CASE Next
  BY <1>2, ShapePrompt, ShapeLoop, ShapeSync DEF Next
<1> QED BY <1>1, <1>2

\* The state of a session always has its shape.
THEOREM SessionShape == Spec => []Shape
BY ShapeInit, ShapeStep, PTL DEF Spec

-----------------------------------------------------------------------------
(* Roles, channels and the file.                                            *)

\* A step of one thread that keeps its job and its line.
Moves(t, pc) ==
  /\ thr'[t].pc = pc /\ thr'[t].job = thr[t].job /\ thr'[t].line = thr[t].line
  /\ \A u \in Threads : u # t => thr'[u] = thr[u]

ControlInv == Shape /\ RolesInv /\ OneCommand /\ FileReadable

\* Where the steps of a sync and of a save go.
LEMMA SyncMoves ==
  ASSUME NEW t \in Threads, Shape
  PROVE  /\ SyncBegin(t) => \/ Moves(t, "batch") /\ lock' = t
                            \/ Moves(t, Over(t)) /\ UNCHANGED lock
         /\ BatchBegin(t) => \/ Moves(t, "batched") /\ UNCHANGED <<lock, inbox>>
                             \/ Moves(t, "scan") /\ UNCHANGED <<lock, inbox>>
                             \/ Panics(t)
         /\ \A h \in TxHeights : Scan(t, h) => Moves(t, "scan")
         /\ BatchDone(t) => Moves(t, "save")
         /\ BatchNext(t) => \/ Moves(t, "batch") /\ UNCHANGED lock
                            \/ Moves(t, Over(t)) /\ lock' = "free"
         /\ BatchFails(t) => Moves(t, Over(t))
         /\ NoBlocksCome(t) => Moves(t, "batched")
         /\ WriteBlocks(t) => Moves(t, "save records")
         /\ WriteRecords(t) => Moves(t, "save birthday")
         /\ WriteBirthday(t) => Moves(t, "create")
         /\ CreateFile(t) => Moves(t, "write")
         /\ WriteFile(t) => IF thr[t].job = "create" THEN Moves(t, Over(t)) ELSE Moves(t, "batched")
<1>1. {"batch", "batched", "scan", "save", "write"} \subseteq StagePcs
  BY DEF StagePcs, SyncPcs, BatchPcs, SavePcs
<1>2. SyncBegin(t) => \/ Moves(t, "batch") /\ lock' = t
                      \/ Moves(t, Over(t)) /\ UNCHANGED lock
  BY ReturnsShape DEF SyncBegin, Moves, Shape, Stages
<1>3. BatchBegin(t) => \/ Moves(t, "batched") /\ UNCHANGED <<lock, inbox>>
                       \/ Moves(t, "scan") /\ UNCHANGED <<lock, inbox>>
                       \/ Panics(t)
  BY <1>1, GoesShape DEF BatchBegin, Moves, Shape, Stages
<1>4. \A h \in TxHeights : Scan(t, h) => Moves(t, "scan")
  BY DEF Scan, Moves, Shape, Stages, At
<1>5. BatchDone(t) => Moves(t, "save")
  BY <1>1, GoesShape DEF BatchDone, Moves
<1>6. BatchNext(t) => \/ Moves(t, "batch") /\ UNCHANGED lock
                      \/ Moves(t, Over(t)) /\ lock' = "free"
  BY ReturnsShape DEF BatchNext, Moves, Shape, Stages
<1>7. BatchFails(t) => Moves(t, Over(t))
  BY ReturnsShape DEF BatchFails, Moves
<1>13. NoBlocksCome(t) => Moves(t, "batched")
  BY <1>1, GoesShape DEF NoBlocksCome, Moves
<1>8. WriteBlocks(t) => Moves(t, "save records")
  <2> SUFFICES ASSUME WriteBlocks(t) PROVE Moves(t, "save records")
    OBVIOUS
  <2> DEFINE b == [NoWallet EXCEPT !.made = mem.made, !.blocks = mem.blocks, !.base = mem.base]
  <2>1. thr' = [thr EXCEPT ![t] = [thr[t] EXCEPT !.pc = "save records", !.buf = b]]
    BY DEF WriteBlocks
  <2> HIDE DEF b
  <2> QED BY <2>1 DEF Moves, Shape, Stages
<1>9. WriteRecords(t) => Moves(t, "save birthday")
  <2> SUFFICES ASSUME WriteRecords(t) PROVE Moves(t, "save birthday")
    OBVIOUS
  <2> DEFINE b == [thr[t].buf EXCEPT !.recs = mem.recs, !.sent = mem.sent]
  <2>1. thr' = [thr EXCEPT ![t] = [thr[t] EXCEPT !.pc = "save birthday", !.buf = b]]
    BY DEF WriteRecords
  <2> HIDE DEF b
  <2> QED BY <2>1 DEF Moves, Shape, Stages
<1>10. WriteBirthday(t) => Moves(t, "create")
  <2> SUFFICES ASSUME WriteBirthday(t) PROVE Moves(t, "create")
    OBVIOUS
  <2> DEFINE b == [thr[t].buf EXCEPT !.birthday = Birthday(mem)]
  <2>1. thr' = [thr EXCEPT ![t] = [thr[t] EXCEPT !.pc = "create", !.buf = b]]
    BY DEF WriteBirthday
  <2> HIDE DEF b
  <2> QED BY <2>1 DEF Moves, Shape, Stages
<1>11. CreateFile(t) => Moves(t, "write")
  BY <1>1, GoesShape DEF CreateFile, Moves
<1>12. WriteFile(t) => IF thr[t].job = "create" THEN Moves(t, Over(t)) ELSE Moves(t, "batched")
  BY ReturnsShape DEF WriteFile, Moves, Shape, Stages
<1> QED BY <1>2, <1>3, <1>4, <1>5, <1>6, <1>7, <1>8, <1>9, <1>10, <1>11, <1>12, <1>13

\* A thread that goes on with its job keeps the roles and the pairing of commands
\* and replies.
LEMMA MovesKeep ==
  ASSUME NEW t \in Threads, NEW pc, Shape, RolesInv, OneCommand, Moves(t, pc),
         UNCHANGED <<ui, inbox, outbox>>,
         thr[t].job # "none",
         thr[t].job = "create" => pc \in SavePcs \cup {"opened"},
         thr[t].job = "startup" => pc \in SyncPcs \cup {"ready"},
         thr[t].job = "command" => pc \in SyncPcs \cup ClearPcs \cup {"reply"},
         thr[t].job = "monitor" => pc \in SyncPcs \cup {"idle"},
         pc \in BatchPcs \/ (pc \in SavePcs /\ thr[t].job # "create") => lock' = t,
         \A u \in Threads : u # t /\ Holds(u) => lock' = u
  PROVE  RolesInv' /\ OneCommand'
<1>1. CliRole'
  BY DEF RolesInv, CliRole, MonitorRole, Moves, Threads
<1>2. MonitorRole'
  BY DEF RolesInv, CliRole, MonitorRole, Moves, Threads
<1>3. pc # "off" /\ pc \notin {"recv", "quitting"}
  BY DEF RolesInv, CliRole, MonitorRole, Threads, SyncPcs, SavePcs, BatchPcs, ClearPcs
<1>4. thr[t].pc # "off"
  BY DEF RolesInv, CliRole, MonitorRole, Threads, SyncPcs, SavePcs, BatchPcs, ClearPcs
<1>5. Startup'
  <2>1. ui.pc # "off"
    BY <1>4 DEF RolesInv, Startup
  <2>2. ui.pc = "starting" => t = "cli"
    BY <1>4 DEF RolesInv, Startup, Threads
  <2>3. pc = "opened" => thr[t].job = "create"
    BY DEF RolesInv, CliRole, MonitorRole, Threads, SyncPcs, SavePcs, BatchPcs, ClearPcs
  <2> QED BY <1>3, <2>1, <2>2, <2>3 DEF RolesInv, Startup, Moves, Threads
<1>6. LockHeld'
  BY DEF RolesInv, LockHeld, Holds, Moves
<1>7. OneCommand'
  BY <1>3 DEF OneCommand, Moves, Working, Waits, Alive, Threads
<1> QED BY <1>1, <1>2, <1>5, <1>6, <1>7 DEF RolesInv

\* The end of the process.
LEMMA ExitKeeps ==
  ASSUME Shape, FileReadable, Exit, UNCHANGED file
  PROVE  RolesInv' /\ OneCommand' /\ FileReadable'
<1>1. /\ thr' = [t \in Threads |-> Off] /\ ui'.pc = "off" /\ inbox' = <<>> /\ outbox' = <<>>
      /\ torn' = (torn \/ \E t \in Threads : At(t, "write"))
      /\ Off.pc = "off" /\ Off.job = "none"
  BY DEF Exit, UiOff, Off
<1>2. RolesInv'
  BY <1>1 DEF RolesInv, CliRole, MonitorRole, Startup, LockHeld, Holds, Threads, BatchPcs, SavePcs
<1>3. OneCommand'
  BY <1>1 DEF OneCommand, Waits, Working, Threads
<1>4. FileReadable'
  BY <1>1 DEF FileReadable
<1> QED BY <1>2, <1>3, <1>4

\* A panic.
LEMMA PanicsKeep ==
  ASSUME NEW t \in Threads, Shape, RolesInv, OneCommand, FileReadable, Panics(t),
         UNCHANGED <<ui, outbox, file>>, ui.pc # "off",
         torn' \/ (~At(t, "write") /\ UNCHANGED torn)
  PROVE  RolesInv' /\ OneCommand' /\ FileReadable'
<1>1. /\ thr'[t].pc = "off" /\ thr'[t].job = "none"
      /\ \A u \in Threads : u # t => thr'[u] = thr[u]
      /\ lock' = (IF lock = t THEN "free" ELSE lock)
      /\ inbox' = (IF t = "cli" THEN <<>> ELSE inbox)
  BY DEF Panics, Off, Shape
<1>2. CliRole' /\ MonitorRole'
  BY <1>1 DEF RolesInv, CliRole, MonitorRole, Threads
<1>3. Startup'
  BY <1>1 DEF RolesInv, Startup, Threads
<1>4. LockHeld'
  BY <1>1 DEF RolesInv, LockHeld, Holds, BatchPcs, SavePcs
<1>5. OneCommand'
  BY <1>1 DEF OneCommand, Waits, Working, Threads, Alive
<1>6. FileReadable'
  BY <1>1 DEF FileReadable, At
<1> QED BY <1>2, <1>3, <1>4, <1>5, <1>6 DEF RolesInv

\* The prompt and the startup keep the roles, the pairing and the file.
LEMMA ControlPrompt ==
  ASSUME ControlInv, Mine \/ Prompt \/ TypeBlank \/ Killed
                     \/ (\E o \in Options, served \in BOOLEAN : Start(o, served))
                     \/ (\E sync \in BOOLEAN : Begin(sync)) \/ (\E line \in Lines : Type(line))
  PROVE  RolesInv' /\ OneCommand' /\ FileReadable'
<1> USE DEF ControlInv
<1>1. CASE Mine
  BY <1>1 DEF Mine, RolesInv, CliRole, MonitorRole, Startup, LockHeld, Holds, OneCommand, FileReadable,
       Waits, Working, Alive, At
<1>2. CASE UiSend
  <2>1. CASE Alive("cli")
    <3> DEFINE line == CASE ui.pc = "info" -> Ask("info", 0)
                         [] ui.pc = "height" -> Ask("height", 1)
                         [] OTHER -> ui.line
               pc == CASE ui.pc = "info" -> "infoing"
                       [] ui.pc = "height" -> "heighting"
                       [] OTHER -> "waiting"
    <3>1. /\ inbox' = Append(inbox, line)
          /\ ui' = [ui EXCEPT !.line = line, !.pc = pc]
          /\ UNCHANGED <<file, thr, lock, outbox, torn>>
      BY <1>2, <2>1 DEF UiSend
    <3>2. pc \in {"infoing", "heighting", "waiting"}
      OBVIOUS
    <3> HIDE DEF line, pc
    <3>3. ui'.pc = pc /\ ui'.line = line
      BY <3>1 DEF Shape
    <3>4. ~Waits /\ ui.pc \notin {"off", "starting"}
      BY <1>2 DEF UiSend, Waits
    <3>5. inbox = <<>> /\ outbox = <<>> /\ ~Working
      BY <3>4 DEF OneCommand
    <3>6. inbox' = <<line>>
      BY <3>1, <3>5
    <3>7. OneCommand'
      BY <2>1, <3>1, <3>2, <3>3, <3>5, <3>6 DEF OneCommand, Waits, Working, Alive
    <3>8. RolesInv'
      BY <3>1, <3>2, <3>3, <3>4 DEF RolesInv, CliRole, MonitorRole, Startup, LockHeld, Holds
    <3> QED BY <3>1, <3>7, <3>8 DEF FileReadable, At
  <2>2. CASE ~Alive("cli")
    BY <1>2, <2>2, ExitKeeps DEF UiSend
  <2> QED BY <2>1, <2>2
<1>3. CASE UiReceive
  <2>1. CASE Exit
    BY <1>3, <2>1, ExitKeeps DEF UiReceive
  <2>2. ASSUME NEW answered \in BOOLEAN, Replied(answered), outbox' = <<>>, inbox = <<>>, ~Working
        PROVE  RolesInv' /\ OneCommand' /\ FileReadable'
    <3>1. /\ ui'.pc \in {"height", "prompt", "info"}
          /\ ui.pc \in {"infoing", "heighting", "waiting"}
          /\ UNCHANGED <<thr, lock, inbox, torn>>
      BY <2>2 DEF Replied, Top, Shape
    <3>2. UNCHANGED file
      BY <1>3 DEF UiReceive
    <3>3. RolesInv'
      BY <3>1 DEF RolesInv, CliRole, MonitorRole, Startup, LockHeld, Holds
    <3>4. OneCommand'
      BY <2>2, <3>1 DEF OneCommand, Waits, Working
    <3> QED BY <3>1, <3>2, <3>3, <3>4 DEF FileReadable, At
  <2>3. CASE outbox # <<>> /\ Replied(TRUE) /\ outbox' = Tail(outbox)
    <3>1. outbox = <<ui.line>> /\ inbox = <<>> /\ ~Working
      BY <1>3, <2>3 DEF OneCommand, UiReceive
    <3>2. outbox' = <<>>
      BY <2>3, <3>1
    <3> QED BY <2>2, <2>3, <3>1, <3>2
  <2>4. CASE outbox = <<>> /\ ~Alive("cli") /\ Replied(FALSE) /\ UNCHANGED outbox
    <3>1. inbox = <<>> /\ ~Working
      BY <1>3, <2>4 DEF OneCommand, UiReceive, Alive, Working, RolesInv, CliRole,
           SyncPcs, SavePcs, BatchPcs, ClearPcs
    <3> QED BY <2>2, <2>4, <3>1
  <2> QED BY <1>3, <2>1, <2>3, <2>4 DEF UiReceive
<1>4. CASE TypeBlank \/ \E line \in Lines : Type(line)
  <2>1. /\ ui.pc = "prompt" /\ ui'.pc \in {"height", "info", "typed"}
        /\ UNCHANGED <<file, thr, lock, inbox, outbox, torn>>
    BY <1>4 DEF TypeBlank, Type, Top, Shape
  <2>2. RolesInv'
    BY <2>1 DEF RolesInv, CliRole, MonitorRole, Startup, LockHeld, Holds
  <2>3. OneCommand'
    BY <2>1 DEF OneCommand, Waits, Working
  <2> QED BY <2>1, <2>2, <2>3 DEF FileReadable, At
<1>5. CASE Killed
  BY <1>5, ExitKeeps DEF Killed
<1>6. ASSUME NEW o \in Options, NEW served \in BOOLEAN, Start(o, served)
      PROVE  RolesInv' /\ OneCommand' /\ FileReadable'
  <2>1. /\ ui.pc = "off" /\ ui'.pc = "starting" /\ UNCHANGED <<file, lock, inbox, outbox>>
    BY <1>6 DEF Start, UiOff
  <2>2. thr["cli"].pc = "off" /\ thr["monitor"].pc = "off"
    BY <2>1 DEF RolesInv, Startup, Threads
  <2>3. thr["monitor"].job = "none"
    BY <2>2 DEF RolesInv, MonitorRole, SyncPcs, SavePcs, BatchPcs
  <2>4. \/ /\ file = NoFile
           /\ thr' = [thr EXCEPT !["cli"] = [Off EXCEPT !.pc = "save", !.job = "create"]]
        \/ /\ file.state = "whole"
           /\ thr' = [thr EXCEPT !["cli"] = [Off EXCEPT !.pc = "opened"]]
    BY <1>6 DEF Start, Creates, Readable
  <2>5. /\ thr'["monitor"] = thr["monitor"]
        /\ \/ thr'["cli"].pc = "save" /\ thr'["cli"].job = "create"
           \/ thr'["cli"].pc = "opened" /\ thr'["cli"].job = "none"
    <3>1. ASSUME NEW c \in Stages, thr' = [thr EXCEPT !["cli"] = c]
          PROVE  thr'["monitor"] = thr["monitor"] /\ thr'["cli"] = c
      BY <3>1 DEF Shape, Threads
    <3>2. /\ [Off EXCEPT !.pc = "save", !.job = "create"] \in Stages
          /\ [Off EXCEPT !.pc = "opened"] \in Stages
      BY NothingYet DEF Stages, StagePcs, SyncPcs, SavePcs
    <3> QED BY <2>4, <3>1, <3>2 DEF Off
  <2>6. RolesInv'
    BY <2>1, <2>2, <2>3, <2>5 DEF RolesInv, CliRole, MonitorRole, Startup, LockHeld, Holds, Threads,
         SavePcs, BatchPcs
  <2>7. OneCommand'
    BY <2>1, <2>5 DEF OneCommand, Waits, Working
  <2>8. file.state # "empty"
    BY <2>4 DEF NoFile
  <2> QED BY <2>1, <2>6, <2>7, <2>8 DEF FileReadable
<1>7. ASSUME NEW sync \in BOOLEAN, Begin(sync)
      PROVE  RolesInv' /\ OneCommand' /\ FileReadable'
  <2>1. thr["cli"].pc \in {"opened", "ready"} /\ UNCHANGED <<file, lock, inbox, outbox, torn>>
    BY <1>7 DEF Begin, At
  <2>2. ui.pc = "starting" /\ thr["monitor"].pc = "off"
    BY <2>1 DEF RolesInv, Startup, CliRole, SyncPcs, SavePcs, BatchPcs, ClearPcs
  <2>3. inbox = <<>> /\ outbox = <<>> /\ ~Working
    BY <2>2 DEF OneCommand, Waits
  <2>4. ~At("cli", "write") /\ ~At("monitor", "write")
    BY <2>1, <2>2 DEF At
  <2>5. FileReadable'
    BY <2>1, <2>4 DEF FileReadable, Threads
  <2>6. CASE UNCHANGED ui /\ thr' = [thr EXCEPT !["cli"].pc = "sync", !["cli"].job = "startup"]
    <3>1. /\ thr'["cli"].pc = "sync" /\ thr'["cli"].job = "startup"
          /\ thr'["monitor"] = thr["monitor"]
      BY <2>6 DEF Shape, Stages, Threads
    <3>2. RolesInv'
      BY <2>1, <2>2, <2>6, <3>1 DEF RolesInv, CliRole, MonitorRole, Startup, LockHeld, Holds, Threads,
           SyncPcs, SavePcs, BatchPcs
    <3>3. OneCommand'
      BY <2>1, <2>2, <2>3, <2>6, <3>1 DEF OneCommand, Waits, Working
    <3> QED BY <2>5, <3>2, <3>3
  <2>7. CASE /\ ui' = [ui EXCEPT !.pc = IF ui.oneshot THEN "typed" ELSE "info"]
             /\ thr' = [thr EXCEPT !["cli"] = [Off EXCEPT !.pc = "recv"],
                              !["monitor"] = [Off EXCEPT !.pc = "idle", !.job = "monitor"]]
    <3>1. /\ thr'["cli"].pc = "recv" /\ thr'["cli"].job = "none"
          /\ thr'["monitor"].pc = "idle" /\ thr'["monitor"].job = "monitor"
      BY <2>7 DEF Shape, Threads, Off
    <3>2. ui'.pc \in {"typed", "info"}
      BY <2>7 DEF Shape
    <3>3. RolesInv'
      BY <3>1, <3>2 DEF RolesInv, CliRole, MonitorRole, Startup, LockHeld, Holds, Threads,
           SavePcs, BatchPcs
    <3>4. OneCommand'
      BY <2>1, <2>3, <3>1, <3>2 DEF OneCommand, Waits, Working
    <3> QED BY <2>5, <3>3, <3>4
  <2> QED BY <1>7, <2>6, <2>7 DEF Begin
<1> QED BY <1>1, <1>2, <1>3, <1>4, <1>5, <1>6, <1>7 DEF Prompt

\* The command loop keeps them.
LEMMA ControlLoop ==
  ASSUME ControlInv, Loop \/ ExecutePanics \/ Clear \/ MonitorWakes
  PROVE  RolesInv' /\ OneCommand' /\ FileReadable'
<1> USE DEF ControlInv
<1>1. "cli" \in Threads /\ "monitor" \in Threads
  BY DEF Threads
<1>2. {"sync", "clear blocks", "clear records", "initial", "reply"} \subseteq StagePcs
  BY DEF StagePcs, SyncPcs, ClearPcs
<1>3. ASSUME NEW pc \in {"sync", "clear blocks", "reply"}, Takes(pc), UNCHANGED <<lock, ui, outbox, torn>>,
             file' = file \/ file' = NoFile
      PROVE  RolesInv' /\ OneCommand' /\ FileReadable'
  <2>1. /\ thr'["cli"].pc = pc /\ thr'["cli"].job = "command" /\ thr'["cli"].line = inbox[1]
        /\ thr'["monitor"] = thr["monitor"]
        /\ thr["cli"].pc = "recv" /\ inbox # <<>> /\ inbox' = Tail(inbox)
    BY <1>2, <1>3, TakesShape
  <2>2. Waits /\ inbox = <<ui.line>> /\ outbox = <<>>
    BY <2>1 DEF OneCommand
  <2>3. inbox' = <<>> /\ inbox[1] = ui.line
    <3>1. ui.line \in Typed
      BY DEF Shape
    <3>2. Tail(<<ui.line>>) = <<>> /\ <<ui.line>>[1] = ui.line
      BY <3>1, OneMessage
    <3> QED BY <2>1, <2>2, <3>2
  <2>4. RolesInv'
    BY <1>3, <2>1, <2>2 DEF RolesInv, CliRole, MonitorRole, Startup, LockHeld, Holds, Threads,
         SyncPcs, SavePcs, BatchPcs, ClearPcs, Waits
  <2>5. OneCommand'
    BY <1>3, <2>1, <2>2, <2>3 DEF OneCommand, Waits, Working
  <2>6. FileReadable'
    <3>1. NoFile.state = "none"
      BY DEF NoFile
    <3>2. CASE file' = file
      BY <1>3, <2>1, <3>2 DEF FileReadable, At, Threads
    <3>3. CASE file' = NoFile
      BY <3>1, <3>3 DEF FileReadable
    <3> QED BY <1>3, <3>2, <3>3
  <2> QED BY <2>4, <2>5, <2>6
<1>4. CASE Execute
  BY <1>3, <1>4 DEF Execute
<1>5. CASE ExecuteLong
  BY <1>3, <1>5 DEF ExecuteLong
<1>6. CASE ExecuteDelete
  BY <1>3, <1>6 DEF ExecuteDelete
<1>7. CASE Reply
  <2>1. /\ thr["cli"].pc = "reply" /\ outbox' = Append(outbox, thr["cli"].line)
        /\ thr'["cli"].pc \in {"quitting", "recv"} /\ thr'["cli"].job = "none"
        /\ thr'["monitor"] = thr["monitor"]
        /\ UNCHANGED <<file, lock, ui, inbox, torn>>
    BY <1>7 DEF Reply, Shape, Threads, Off, At
  <2>2. Working
    BY <2>1 DEF Working, RolesInv, CliRole, SyncPcs, SavePcs, BatchPcs, ClearPcs
  <2>3. Waits /\ inbox = <<>> /\ outbox = <<>> /\ thr["cli"].line = ui.line
    BY <2>2 DEF OneCommand
  <2>4. outbox' = <<ui.line>>
    BY <2>1, <2>3
  <2>5. OneCommand'
    BY <2>1, <2>3, <2>4 DEF OneCommand, Waits, Working
  <2>6. RolesInv'
    BY <2>1, <2>3 DEF RolesInv, CliRole, MonitorRole, Startup, LockHeld, Holds, Threads,
         SyncPcs, SavePcs, BatchPcs, ClearPcs, Waits
  <2>7. FileReadable'
    BY <2>1 DEF FileReadable, At, Threads
  <2> QED BY <2>5, <2>6, <2>7
<1>8. CASE Quit \/ ExecutePanics
  <2>1. /\ thr["cli"].pc \in {"quitting", "recv"} /\ Panics("cli")
        /\ UNCHANGED <<ui, outbox, file, torn>>
    BY <1>8 DEF Quit, ExecutePanics, At
  <2>2. ui.pc # "off" /\ ~At("cli", "write")
    BY <1>1, <2>1 DEF RolesInv, Startup, At
  <2> QED BY <1>1, <2>1, <2>2, PanicsKeep
<1>9. CASE Clear
  <2> DEFINE pc == IF ClearBlocks("cli") THEN "clear records"
                   ELSE IF ClearRecords("cli") THEN "initial"
                   ELSE IF Does(thr["cli"].line) = "rescan" THEN "sync" ELSE "reply"
  <2>1. pc \in {"clear records", "initial", "sync", "reply"}
    OBVIOUS
  <2>2. /\ thr["cli"].pc \in ClearPcs /\ Goes("cli", pc)
        /\ UNCHANGED <<file, lock, ui, inbox, outbox, torn>>
    BY <1>9 DEF Clear, ClearBlocks, ClearRecords, SetInitial, At, ClearPcs
  <2> HIDE DEF pc
  <2>3. Moves("cli", pc)
    BY <1>1, <1>2, <2>1, <2>2, GoesShape DEF Moves
  <2>4. thr["cli"].job = "command"
    BY <2>2 DEF RolesInv, CliRole, SyncPcs, SavePcs, BatchPcs, ClearPcs
  <2>5. pc \in SyncPcs \cup ClearPcs \cup {"reply"} /\ pc \notin BatchPcs \cup SavePcs
    BY <2>1 DEF SyncPcs, SavePcs, BatchPcs, ClearPcs
  <2>6. \A u \in Threads : u # "cli" /\ Holds(u) => lock' = u
    BY <2>2 DEF RolesInv, LockHeld
  <2>7. RolesInv' /\ OneCommand'
    BY <1>1, <2>2, <2>3, <2>4, <2>5, <2>6, MovesKeep
  <2>8. FileReadable'
    BY <2>2, <2>3 DEF FileReadable, At, Moves, ClearPcs
  <2> QED BY <2>7, <2>8
<1>10. CASE MonitorWakes
  <2>1. /\ thr["monitor"].pc = "idle" /\ Moves("monitor", "sync")
        /\ UNCHANGED <<file, lock, ui, inbox, outbox, torn>>
    BY <1>1, <1>2, <1>10, GoesShape DEF MonitorWakes, At, Moves
  <2>2. thr["monitor"].job = "monitor"
    BY <2>1 DEF RolesInv, MonitorRole
  <2>3. "sync" \in SyncPcs /\ "sync" \notin BatchPcs \cup SavePcs
    BY DEF SyncPcs, SavePcs, BatchPcs
  <2>4. \A u \in Threads : u # "monitor" /\ Holds(u) => lock' = u
    BY <2>1 DEF RolesInv, LockHeld
  <2>5. RolesInv' /\ OneCommand'
    BY <1>1, <2>1, <2>2, <2>3, <2>4, MovesKeep
  <2>6. FileReadable'
    BY <2>1 DEF FileReadable, At, Moves
  <2> QED BY <2>5, <2>6
<1> QED BY <1>4, <1>5, <1>6, <1>7, <1>8, <1>9, <1>10 DEF Loop

\* Syncs and saves keep them.
LEMMA ControlSync ==
  ASSUME NEW t \in Threads, ControlInv, Sync(t) \/ Save(t) \/ Fail(t)
  PROVE  RolesInv' /\ OneCommand' /\ FileReadable'
<1> USE DEF ControlInv
<1>1. /\ thr[t].pc \in SyncPcs
      /\ thr[t].job \in {"create", "startup", "command", "monitor"}
      /\ ui.pc # "off"
  <2>1. thr[t].pc \in SyncPcs
    BY DEF Sync, SyncBegin, BatchBegin, BatchDone, BatchNext, Scan, Save, WriteBlocks, WriteRecords,
           WriteBirthday, CreateFile, WriteFile, Fail, NoBlocksCome, BatchFails, BatchPanics, CreateFails,
           WriteFails, At, SyncPcs, BatchPcs, SavePcs
  <2>2. thr[t].pc \notin {"off", "recv", "quitting", "opened"}
    BY <2>1 DEF SyncPcs, BatchPcs, SavePcs
  <2> QED BY <2>1, <2>2 DEF RolesInv, CliRole, MonitorRole, Startup, Threads
<1>2. thr[t].job = "create" => thr[t].pc \in SavePcs
  BY <1>1 DEF RolesInv, CliRole, MonitorRole, Threads, SyncPcs, BatchPcs, SavePcs
<1>3. /\ thr[t].job = "create" => Over(t) = "opened"
      /\ thr[t].job = "startup" => Over(t) = "ready"
      /\ thr[t].job = "command" => Over(t) = "reply"
      /\ thr[t].job = "monitor" => Over(t) = "idle"
      /\ Over(t) \in {"opened", "ready", "reply", "idle"}
  BY <1>1 DEF Over
<1>4. \A u \in Threads : u # t /\ Holds(u) => lock = u
  BY DEF RolesInv, LockHeld
\* Over.
<1>5. ASSUME Moves(t, Over(t)), UNCHANGED <<ui, inbox, outbox>>,
             lock' = lock \/ Holds(t)
      PROVE  RolesInv' /\ OneCommand'
  <2>1. Over(t) \notin BatchPcs \cup SavePcs
    BY <1>3 DEF BatchPcs, SavePcs
  <2>2. \A u \in Threads : u # t /\ Holds(u) => lock' = u
    BY <1>4, <1>5 DEF RolesInv, LockHeld
  <2> DEFINE pc == Over(t)
  <2> HIDE DEF pc
  <2>3. /\ Moves(t, pc) /\ pc \notin BatchPcs \cup SavePcs
        /\ thr[t].job = "create" => pc \in SavePcs \cup {"opened"}
        /\ thr[t].job = "startup" => pc \in SyncPcs \cup {"ready"}
        /\ thr[t].job = "command" => pc \in SyncPcs \cup ClearPcs \cup {"reply"}
        /\ thr[t].job = "monitor" => pc \in SyncPcs \cup {"idle"}
    BY <1>3, <1>5, <2>1 DEF pc
  <2> QED BY <1>1, <1>5, <2>2, <2>3, MovesKeep
\* Onwards.
<1>6. ASSUME NEW pc \in BatchPcs \cup SavePcs, Moves(t, pc), UNCHANGED <<ui, inbox, outbox>>,
             pc \in BatchPcs => thr[t].job # "create",
             thr[t].job # "create" => lock' = t,
             \A u \in Threads : u # t /\ Holds(u) => lock' = u
      PROVE  RolesInv' /\ OneCommand'
  <2>1. pc \in SyncPcs
    BY DEF SyncPcs
  <2> QED BY <1>1, <1>6, <2>1, MovesKeep
<1>7. /\ Holds(t) => lock = t
      /\ thr[t].pc \in BatchPcs \/ (thr[t].pc \in SavePcs /\ thr[t].job # "create") => Holds(t)
      /\ thr[t].pc \in BatchPcs \cup {"sync"} => thr[t].job # "create"
  BY <1>2 DEF RolesInv, LockHeld, Holds, BatchPcs, SavePcs
<1>8. ASSUME NEW pc, Moves(t, pc), ~At(t, "write"), UNCHANGED <<file, torn>>
      PROVE  FileReadable'
  BY <1>8 DEF FileReadable, At, Moves
<1>9. CASE SyncBegin(t)
  <2>1. /\ thr[t].pc = "sync" /\ lock = "free" /\ UNCHANGED <<file, ui, inbox, outbox, torn>>
    BY <1>9 DEF SyncBegin, At
  <2>2. \A u \in Threads : ~(u # t /\ Holds(u))
    BY <2>1, <1>4 DEF Threads
  <2>3. CASE Moves(t, "batch") /\ lock' = t
    BY <1>6, <1>7, <1>8, <2>1, <2>2, <2>3 DEF BatchPcs, At
  <2>4. CASE Moves(t, Over(t)) /\ UNCHANGED lock
    BY <1>5, <1>8, <2>1, <2>4 DEF At
  <2> QED BY <1>9, <2>3, <2>4, SyncMoves
<1>10. CASE BatchBegin(t)
  <2>1. /\ thr[t].pc = "batch" /\ UNCHANGED <<file, ui, outbox, torn>>
    BY <1>10 DEF BatchBegin, At
  <2>2. lock = t /\ thr[t].job # "create"
    BY <1>7, <2>1 DEF BatchPcs
  <2>3. CASE Panics(t)
    BY <1>1, <2>1, <2>3, PanicsKeep DEF At
  <2>4. CASE Moves(t, "batched") /\ UNCHANGED <<lock, inbox>>
    BY <1>4, <1>6, <1>8, <2>1, <2>2, <2>4 DEF BatchPcs, At
  <2>5. CASE Moves(t, "scan") /\ UNCHANGED <<lock, inbox>>
    BY <1>4, <1>6, <1>8, <2>1, <2>2, <2>5 DEF BatchPcs, At
  <2> QED BY <1>10, <2>3, <2>4, <2>5, SyncMoves
<1>11. ASSUME NEW h \in TxHeights, Scan(t, h)
       PROVE  RolesInv' /\ OneCommand' /\ FileReadable'
  <2>1. /\ thr[t].pc = "scan" /\ Moves(t, "scan") /\ UNCHANGED <<file, lock, ui, inbox, outbox, torn>>
    BY <1>11, SyncMoves DEF Scan, At
  <2>2. lock = t /\ thr[t].job # "create"
    BY <1>7, <2>1 DEF BatchPcs
  <2> QED BY <1>4, <1>6, <1>8, <2>1, <2>2 DEF BatchPcs, At
<1>12. CASE BatchDone(t)
  <2>1. /\ thr[t].pc = "scan" /\ Moves(t, "save") /\ UNCHANGED <<file, lock, ui, inbox, outbox, torn>>
    BY <1>12, SyncMoves DEF BatchDone, At
  <2>2. lock = t /\ thr[t].job # "create"
    BY <1>7, <2>1 DEF BatchPcs
  <2>3. "save" \in SavePcs
    BY DEF SavePcs
  <2> QED BY <1>4, <1>6, <1>8, <2>1, <2>2, <2>3 DEF At
<1>13. CASE BatchNext(t)
  <2>1. /\ thr[t].pc = "batched" /\ UNCHANGED <<file, ui, inbox, outbox, torn>>
    BY <1>13 DEF BatchNext, At
  <2>2. lock = t /\ thr[t].job # "create" /\ Holds(t)
    BY <1>7, <2>1 DEF BatchPcs
  <2>3. CASE Moves(t, "batch") /\ UNCHANGED lock
    BY <1>4, <1>6, <1>8, <2>1, <2>2, <2>3 DEF BatchPcs, At
  <2>4. CASE Moves(t, Over(t)) /\ lock' = "free"
    BY <1>5, <1>8, <2>1, <2>2, <2>4 DEF At
  <2> QED BY <1>13, <2>3, <2>4, SyncMoves
<1>14. CASE BatchFails(t)
  <2>1. /\ thr[t].pc = "scan" /\ Moves(t, Over(t)) /\ UNCHANGED <<file, ui, inbox, outbox, torn>>
    BY <1>14, SyncMoves DEF BatchFails, At
  <2>2. Holds(t)
    BY <1>7, <2>1 DEF BatchPcs
  <2> QED BY <1>5, <1>8, <2>1, <2>2 DEF At
<1>15. ASSUME NEW pc \in SavePcs, Moves(t, pc), thr[t].pc \in SavePcs, UNCHANGED <<lock, ui, inbox, outbox>>
       PROVE  RolesInv' /\ OneCommand'
  <2>1. thr[t].job # "create" => lock = t
    BY <1>7, <1>15
  <2>2. pc \notin BatchPcs
    BY <1>15 DEF SavePcs, BatchPcs
  <2> QED BY <1>4, <1>6, <1>15, <2>1, <2>2
<1>16. CASE WriteBlocks(t)
  <2>1. /\ thr[t].pc = "save" /\ Moves(t, "save records") /\ UNCHANGED <<file, lock, ui, inbox, outbox, torn>>
    BY <1>16, SyncMoves DEF WriteBlocks, At
  <2> QED BY <1>8, <1>15, <2>1 DEF At, SavePcs
<1>17. CASE WriteRecords(t)
  <2>1. /\ thr[t].pc = "save records" /\ Moves(t, "save birthday")
        /\ UNCHANGED <<file, lock, ui, inbox, outbox, torn>>
    BY <1>17, SyncMoves DEF WriteRecords, At
  <2> QED BY <1>8, <1>15, <2>1 DEF At, SavePcs
<1>18. CASE WriteBirthday(t)
  <2>1. /\ thr[t].pc = "save birthday" /\ Moves(t, "create")
        /\ UNCHANGED <<file, lock, ui, inbox, outbox, torn>>
    BY <1>18, SyncMoves DEF WriteBirthday, At
  <2> QED BY <1>8, <1>15, <2>1 DEF At, SavePcs
<1>19. CASE CreateFile(t)
  <2>1. /\ thr[t].pc = "create" /\ Moves(t, "write") /\ UNCHANGED <<lock, ui, inbox, outbox, torn>>
    BY <1>19, SyncMoves DEF CreateFile, At
  <2>2. FileReadable'
    BY <2>1 DEF FileReadable, At, Moves
  <2> QED BY <1>15, <2>1, <2>2 DEF SavePcs
<1>20. CASE WriteFile(t)
  <2>1. /\ thr[t].pc = "write" /\ UNCHANGED <<lock, ui, inbox, outbox>>
        /\ file' = IF file = NoFile THEN file ELSE [state |-> "whole", wallet |-> thr[t].buf]
    BY <1>20 DEF WriteFile, At
  <2>2. file'.state # "empty"
    <3>1. CASE file = NoFile
      <4>1. file' = NoFile
        BY <2>1, <3>1
      <4> QED BY <4>1 DEF NoFile
    <3>2. CASE file # NoFile
      <4>1. file' = [state |-> "whole", wallet |-> thr[t].buf]
        BY <2>1, <3>2
      <4> QED BY <4>1
    <3> QED BY <3>1, <3>2
  <2>3. FileReadable'
    BY <2>2 DEF FileReadable
  <2>4. CASE thr[t].job = "create"
    BY <1>5, <1>20, <2>1, <2>3, <2>4, SyncMoves
  <2>5. CASE thr[t].job # "create"
    <3>1. lock = t /\ Moves(t, "batched")
      BY <1>7, <1>20, <2>1, <2>5, SyncMoves DEF SavePcs
    <3> QED BY <1>4, <1>6, <2>1, <2>3, <2>5, <3>1 DEF BatchPcs
  <2> QED BY <2>4, <2>5
<1>21. CASE CreateFails(t)
  <2>1. CASE ui.pc = "starting"
    BY <1>21, <2>1, ExitKeeps DEF CreateFails
  <2>2. CASE ui.pc # "starting"
    BY <1>1, <1>21, <2>2, PanicsKeep DEF CreateFails, At
  <2> QED BY <2>1, <2>2
<1>22. CASE WriteFails(t)
  <2>1. CASE ui.pc = "starting"
    BY <1>22, <2>1, ExitKeeps DEF WriteFails
  <2>2. CASE ui.pc # "starting"
    BY <1>1, <1>22, <2>2, PanicsKeep DEF WriteFails
  <2> QED BY <2>1, <2>2
<1>23. CASE NoBlocksCome(t)
  <2>1. /\ thr[t].pc = "batch" /\ Moves(t, "batched") /\ UNCHANGED <<file, lock, ui, inbox, outbox, torn>>
    BY <1>23, SyncMoves DEF NoBlocksCome, At
  <2>2. lock = t /\ thr[t].job # "create"
    BY <1>7, <2>1 DEF BatchPcs
  <2> QED BY <1>4, <1>6, <1>8, <2>1, <2>2 DEF BatchPcs, At
<1>24. CASE BatchPanics(t)
  BY <1>1, <1>24, PanicsKeep DEF BatchPanics, At
<1> QED BY <1>9, <1>10, <1>11, <1>12, <1>13, <1>14, <1>16, <1>17, <1>18, <1>19, <1>20, <1>21,
           <1>22, <1>23, <1>24 DEF Sync, Save, Fail

\* Roles, pairing and the file from the start.
LEMMA ControlInit == Init => ControlInv
<1> SUFFICES ASSUME Init PROVE ControlInv
  OBVIOUS
<1>1. /\ \A t \in Threads : thr[t].pc = "off" /\ thr[t].job = "none"
      /\ ui.pc = "off" /\ inbox = <<>> /\ outbox = <<>> /\ file.state = "none"
  BY DEF Init, Off, UiOff, NoFile
<1>2. RolesInv
  BY <1>1 DEF RolesInv, CliRole, MonitorRole, Startup, LockHeld, Holds, Threads, BatchPcs, SavePcs
<1>3. OneCommand /\ FileReadable
  BY <1>1 DEF OneCommand, FileReadable, Waits, Working, Threads
<1> QED BY <1>2, <1>3, ShapeInit DEF ControlInv

\* Every step keeps them.
LEMMA ControlStep == ControlInv /\ [Next]_vars => ControlInv'
<1> SUFFICES ASSUME ControlInv, [Next]_vars PROVE ControlInv'
  OBVIOUS
<1>1. Shape'
  BY ShapeStep DEF ControlInv
<1>2. CASE UNCHANGED vars
  BY <1>1, <1>2 DEF vars, ControlInv, RolesInv, CliRole, MonitorRole, Startup, LockHeld, Holds, OneCommand,
       FileReadable, Waits, Working, Alive, At
<1>3. CASE Next
  BY <1>1, <1>3, ControlPrompt, ControlLoop, ControlSync DEF Next, ControlInv
<1> QED BY <1>2, <1>3

\* Threads keep to their roles, a command is in one place, and the file is cut
\* short only while it is written or since a write was cut off.
THEOREM SessionControl == Spec => []ControlInv
BY ControlInit, ControlStep, PTL DEF Spec

\* The pairing of commands and replies gives the promise of the prompt.
LEMMA PairingGivesReplies == ControlInv => RepliesMatch
<1> SUFFICES ASSUME ControlInv PROVE RepliesMatch
  OBVIOUS
<1> USE DEF ControlInv
<1>1. ui.line \in Typed
  BY DEF Shape
<1>2. /\ Len(<<ui.line>>) = 1
      /\ DOMAIN <<ui.line>> = {1} /\ <<ui.line>>[1] = ui.line
  BY <1>1, OneMessage
<1>3. inbox = <<>> \/ (outbox = <<>> /\ inbox = <<ui.line>> /\ Waits)
  BY DEF OneCommand
<1>4. outbox = <<>> \/ (inbox = <<>> /\ outbox = <<ui.line>> /\ Waits)
  BY DEF OneCommand
<1>5. Len(inbox) + Len(outbox) <= IF Waits THEN 1 ELSE 0
  <2>1. Len(<<>>) = 0
    OBVIOUS
  <2>2. /\ Len(inbox) = 0 \/ (Len(outbox) = 0 /\ Len(inbox) = 1 /\ Waits)
        /\ Len(outbox) = 0 \/ (Len(inbox) = 0 /\ Len(outbox) = 1 /\ Waits)
    BY <1>2, <1>3, <1>4, <2>1
  <2>3. Len(inbox) \in {0, 1} /\ Len(outbox) \in {0, 1}
    BY <2>2
  <2> DEFINE m == Len(inbox)
             n == Len(outbox)
  <2>4. m \in {0, 1} /\ n \in {0, 1} /\ (m = 0 \/ n = 0) /\ (~Waits => m = 0 /\ n = 0)
    BY <2>2, <2>3
  <2> HIDE DEF m, n
  <2>5. m + n <= IF Waits THEN 1 ELSE 0
    BY <2>4
  <2> QED BY <2>5 DEF m, n
<1>6. ASSUME NEW i \in DOMAIN outbox PROVE outbox[i] = ui.line
  <2>1. outbox # <<>>
    BY <1>6
  <2>2. outbox = <<ui.line>>
    BY <1>4, <2>1
  <2> QED BY <1>2, <1>6, <2>2
<1> QED BY <1>5, <1>6 DEF RepliesMatch

\* A reply the prompt takes belongs to the command it sent last (send_command,
\* command_loop), whatever is typed, killed, interrupted or started again.
THEOREM RepliesAreMatched == Spec => []RepliesMatch
BY SessionControl, PairingGivesReplies, PTL

\* The wallet file is cut short only while somebody writes it, or since a write was
\* cut off by the end of the process or by an error of write_all (write_to_file).
THEOREM FileStaysReadable == Spec => []FileReadable
<1>1. ControlInv => FileReadable
  BY DEF ControlInv
<1> QED BY <1>1, SessionControl, PTL

-----------------------------------------------------------------------------
(* Records.                                                                 *)

\* Wallets that differ only in what no record depends on.
Alike(v, w) ==
  v.blocks = w.blocks /\ v.base = w.base /\ v.recs = w.recs /\ v.birthday = w.birthday

\* The records say the same of wallets that are alike.
LEMMA AlikeSound ==
  ASSUME NEW v, NEW w, Alike(v, w), NEW s, NEW l, NEW b, NEW g
  PROVE  /\ Based(w, b) => Based(v, b)
         /\ Full(w, b, g) => Full(v, b, g)
         /\ Duty(w, s, l, b, g) => Duty(v, s, l, b, g)
<1>1. LastSynced(v) = LastSynced(w)
  BY DEF Alike, LastSynced
<1>2. (Based(w, b) => Based(v, b)) /\ (Full(w, b, g) => Full(v, b, g))
  BY DEF Alike, Based, Full
<1>3. Midway(w, s, b, g) => Midway(v, s, b, g)
  BY <1>1 DEF Alike, Midway
<1>4. Copied(w, s, b, g) => Copied(v, s, b, g)
  BY DEF Alike, Copied
<1> QED BY <1>2, <1>3, <1>4 DEF Duty, Alike

\* A thread outside of those steps relies on nothing.
LEMMA NoDuty ==
  ASSUME NEW w, NEW s, NEW l, NEW b, NEW g, s.pc \notin DutyPcs
  PROVE  Duty(w, s, l, b, g)
BY DEF Duty, Copied, DutyPcs

\* A wallet that pops its last block still has the records of the blocks it keeps.
LEMMA InvalidatedSound ==
  ASSUME NEW w \in Wallets, NEW b \in Nat, NEW g, Based(w, b), w.blocks = 0 => g,
         \A h \in TxHeights : b < h /\ h <= w.blocks => h \in w.recs
  PROVE  Sound(Invalidated(w), b, g)
<1> DEFINE v == Invalidated(w)
<1>1. w.blocks = 0 => v = w
  BY DEF Invalidated
<1>2. w.blocks # 0 =>
        /\ v.recs = {h \in w.recs : h < w.blocks}
        /\ v.blocks = (IF w.blocks > w.base THEN w.blocks - 1 ELSE 0)
        /\ v.base = (IF w.blocks > w.base THEN w.base ELSE 0)
        /\ v.birthday = w.birthday
  BY DEF Invalidated, Below, Wallets
<1>3. /\ w.blocks \in Nat /\ w.base \in Nat /\ w.birthday \in Nat
      /\ w.recs \subseteq Nat /\ TxHeights \subseteq Nat /\ w.recs \subseteq TxHeights
      /\ Activation \in Nat /\ Activation # 0
  BY SessionAssumption DEF Wallets
<1> HIDE DEF v
<1>4. CASE w.blocks = 0
  BY <1>1, <1>4 DEF Sound, Full, v
<1>5. CASE w.blocks # 0 /\ w.blocks > w.base
  <2>1. v.recs = {h \in w.recs : h < w.blocks} /\ v.blocks = w.blocks - 1 /\ v.base = w.base
    BY <1>2, <1>5
  <2>2. /\ \A h \in TxHeights : b < h /\ h <= v.blocks => h \in v.recs
        /\ \A h \in v.recs : h <= v.blocks
    BY <1>3, <1>5, <2>1
  <2>3. w.base # 0
    BY <1>3, <1>5 DEF Based
  <2>4. v.blocks # 0 /\ v.base <= v.blocks
    BY <1>3, <1>5, <2>1, <2>3
  <2>5. Based(v, b)
    BY <1>2, <1>3, <1>5, <2>1, <2>4 DEF Based
  <2> QED BY <2>2, <2>5 DEF Sound, Full, v
<1>6. CASE w.blocks # 0 /\ ~(w.blocks > w.base)
  <2>1. w.base = w.blocks
    BY <1>3, <1>6 DEF Based
  <2>2. v.recs = {} /\ v.blocks = 0 /\ v.base = 0
    BY <1>2, <1>3, <1>6, <2>1 DEF Based
  <2>3. Based(v, b)
    BY <1>2, <1>3, <1>6, <2>2 DEF Based
  <2>4. /\ \A h \in TxHeights : ~(b < h /\ h <= v.blocks)
        /\ \A h \in v.recs : h <= v.blocks
    BY <1>3, <2>2
  <2> QED BY <2>3, <2>4 DEF Sound, Full, v
<1> QED BY <1>4, <1>5, <1>6

\* A wallet without records may start at or below the height its history starts at.
LEMMA InitialSound ==
  ASSUME NEW w \in Wallets, NEW b \in Nat, NEW g, NEW n \in Nat, NEW served,
         w.recs = {}, w.blocks = 0, w.base = 0, w.birthday # 0, w.birthday <= b, n <= b
  PROVE  /\ Sound(Initial(w, n, served), b, g)
         /\ Initial(w, n, served).recs = {}
<1>1. /\ w.birthday \in Nat /\ TxHeights \subseteq Nat /\ Activation \in Nat
  BY SessionAssumption DEF Wallets
<1>2. CASE Initial(w, n, served) = w
  BY <1>1, <1>2 DEF Sound, Based, Full
<1>3. CASE n > Activation /\ Initial(w, n, served) = [w EXCEPT !.blocks = n, !.base = n]
  <2> DEFINE v == Initial(w, n, served)
  <2>1. v.blocks = n /\ v.base = n /\ v.recs = {} /\ v.birthday = w.birthday
    BY <1>3 DEF Wallets
  <2> HIDE DEF v
  <2> QED BY <1>1, <1>3, <2>1 DEF Sound, Based, Full, v
<1> QED BY <1>2, <1>3 DEF Initial

\* A wallet without blocks and records.
LEMMA ClearedFull ==
  ASSUME NEW v, NEW b \in Nat, NEW g, v.blocks = 0, v.recs = {}
  PROVE  Full(v, b, g)
<1>1. \A h \in TxHeights : ~(b < h /\ h <= v.blocks)
  BY SessionAssumption
<1> QED BY <1>1 DEF Full

\* A wallet whose blocks were cleared.
LEMMA ClearedBased ==
  ASSUME NEW w \in Wallets, NEW b, Based(w, b),
         NEW v, v.blocks = 0, v.base = 0, v.recs \subseteq w.recs, v.birthday = w.birthday
  PROVE  Based(v, b)
<1>1. w.recs \subseteq Nat
  BY SessionAssumption DEF Wallets
<1> QED BY <1>1 DEF Based

\* Nobody else is in the middle of anything while a thread scans or saves.
LEMMA Alone ==
  ASSUME NEW t \in Threads, NEW u \in Threads, u # t, RolesInv,
         thr[t].pc \in BatchPcs \cup SavePcs, Duty(mem, thr[u], lock, born, stray)
  PROVE  thr[u].pc \notin DutyPcs
<1>1. thr[u].pc \notin BatchPcs \cup SavePcs
  BY DEF RolesInv, CliRole, MonitorRole, Startup, LockHeld, Holds, Threads, SyncPcs, BatchPcs, SavePcs, ClearPcs
<1>2. thr[u].pc \notin {"clear records", "initial"}
  <2>1. CASE Holds(t)
    <3>1. lock # "free"
      BY <2>1 DEF RolesInv, LockHeld, Threads
    <3> QED BY <3>1 DEF Duty
  <2>2. CASE ~Holds(t)
    BY <2>2 DEF RolesInv, CliRole, MonitorRole, Startup, Holds, Threads, SyncPcs, BatchPcs, SavePcs, ClearPcs
  <2> QED BY <2>1, <2>2
<1> QED BY <1>1, <1>2 DEF DutyPcs, BatchPcs, SavePcs

\* While a thread saves or is between batches the wallet is complete.
LEMMA SavesFull ==
  ASSUME NEW t \in Threads, RolesInv, MemorySound,
         thr[t].pc \in SavePcs \cup {"batch", "batched"}
  PROVE  Full(mem, born, stray)
<1>1. ASSUME NEW u \in Threads PROVE thr[u].pc \notin {"scan", "clear records"}
  <2>1. CASE u = t
    BY <2>1 DEF SavePcs
  <2>2. CASE u # t
    <3>1. thr[u].pc \notin DutyPcs
      BY <2>2, Alone DEF MemorySound, BatchPcs
    <3> QED BY <3>1 DEF DutyPcs
  <2> QED BY <2>1, <2>2
<1> QED BY <1>1 DEF MemorySound, Quiet

\* A step of one thread that leaves the records alone and relies on nothing after it.
LEMMA QuietStep ==
  ASSUME NEW t \in Threads, MemorySound, Alike(mem', mem), born' = born, stray' = stray,
         \A u \in Threads : u # t => thr'[u] = thr[u],
         thr'[t].pc \notin DutyPcs, thr[t].pc \notin {"scan", "clear records"},
         \A u \in Threads : u # t /\ thr[u].pc \in {"clear records", "initial"} => lock' \in {lock, "free"}
  PROVE  MemorySound'
<1>1. Based(mem', born')
  BY AlikeSound DEF MemorySound
<1>2. Quiet' => Full(mem', born', stray')
  <2>1. Quiet' => Quiet
    BY DEF Quiet
  <2> QED BY <2>1, AlikeSound DEF MemorySound
<1>3. ASSUME NEW u \in Threads PROVE Duty(mem', thr'[u], lock', born', stray')
  <2>1. CASE u = t
    BY <2>1, NoDuty
  <2>2. CASE u # t
    <3>1. Duty(mem, thr[u], lock, born, stray) /\ thr'[u] = thr[u]
      BY <2>2 DEF MemorySound
    <3>2. Duty(mem, thr[u], lock', born, stray)
      BY <2>2, <3>1 DEF Duty
    <3> QED BY <3>1, <3>2, AlikeSound
  <2> QED BY <2>1, <2>2
<1> QED BY <1>1, <1>2, <1>3 DEF MemorySound

\* A step of a thread that scans or saves: nobody else relies on anything, so only its
\* own duty counts.
LEMMA AloneStep ==
  ASSUME NEW t \in Threads, RolesInv, MemorySound, thr[t].pc \in BatchPcs \cup SavePcs,
         \A u \in Threads : u # t => thr'[u] = thr[u],
         Based(mem', born'),
         thr'[t].pc \notin {"scan", "clear records"} => Full(mem', born', stray'),
         Duty(mem', thr'[t], lock', born', stray')
  PROVE  MemorySound'
<1>1. ASSUME NEW u \in Threads, u # t PROVE thr'[u].pc \notin DutyPcs
  <2>1. thr[u].pc \notin DutyPcs
    BY <1>1, Alone DEF MemorySound
  <2> QED BY <1>1, <2>1
<1>2. \A u \in Threads : Duty(mem', thr'[u], lock', born', stray')
  BY <1>1, NoDuty
<1>3. Quiet' => Full(mem', born', stray')
  BY DEF Quiet
<1> QED BY <1>2, <1>3 DEF MemorySound

\* The records of a wallet that has scanned all its blocks, at the start of a batch.
LEMMA BatchMidway ==
  ASSUME NEW w \in Wallets, NEW s \in Stages, NEW b \in Nat, NEW g, Sound(w, b, g),
         LastSynced(w) < s.target,
         s.todo = {h \in TxHeights : LastSynced(w) < h /\ h <= s.target}
  PROVE  Midway(w, s, b, g)
<1>1. /\ w.blocks \in Nat /\ w.recs \subseteq Nat /\ s.target \in Nat
      /\ Activation \in Nat /\ Activation # 0 /\ TxHeights \subseteq Nat
  BY SessionAssumption DEF Wallets, Stages
<1>2. g \/ \A h \in w.recs : h <= s.target
  BY <1>1 DEF Sound, Based, Full, LastSynced
<1> QED BY <1>2 DEF Midway, Sound, Full

\* One more record of a batch.
LEMMA ScanMidway ==
  ASSUME NEW w \in Wallets, NEW s \in Stages, NEW b \in Nat, NEW g, Based(w, b), Midway(w, s, b, g),
         NEW h \in s.todo, NEW v, NEW r,
         v = [w EXCEPT !.recs = @ \cup {h}], r = [s EXCEPT !.todo = @ \ {h}]
  PROVE  Based(v, b) /\ Midway(v, r, b, g)
<1>1. /\ v.blocks = w.blocks /\ v.base = w.base /\ v.birthday = w.birthday
      /\ v.recs = w.recs \cup {h}
  BY DEF Wallets
<1>2. r.target = s.target /\ r.todo = s.todo \ {h} /\ r.pc = s.pc
  BY DEF Stages
<1>3. LastSynced(v) = LastSynced(w)
  BY <1>1 DEF LastSynced
<1>4. /\ w.blocks \in Nat /\ w.base \in Nat /\ s.target \in Nat /\ h \in Nat
      /\ Activation \in Nat /\ Activation # 0
  BY SessionAssumption DEF Wallets, Stages
<1>5. Activation <= h /\ w.base <= h /\ h <= s.target
  BY <1>4 DEF Midway, Based, LastSynced
<1>6. Based(v, b)
  BY <1>1, <1>5 DEF Based
<1>7. Midway(v, r, b, g)
  BY <1>1, <1>2, <1>3, <1>5 DEF Midway
<1> QED BY <1>6, <1>7

\* The end of a batch.
LEMMA DoneSound ==
  ASSUME NEW w \in Wallets, NEW s \in Stages, NEW b \in Nat, NEW g, Based(w, b), Midway(w, s, b, g), s.todo = {},
         NEW v, v = [w EXCEPT !.blocks = s.target, !.base = IF @ = 0 THEN Activation ELSE @],
         \A h \in TxHeights : Activation <= h
  PROVE  Sound(v, b, g)
<1>1. /\ v.blocks = s.target /\ v.base = (IF w.base = 0 THEN Activation ELSE w.base)
      /\ v.birthday = w.birthday /\ v.recs = w.recs
  BY DEF Wallets
<1>2. /\ w.blocks \in Nat /\ w.base \in Nat /\ s.target \in Nat /\ TxHeights \subseteq Nat
      /\ Activation \in Nat /\ Activation # 0 /\ w.recs \subseteq Nat
  BY SessionAssumption DEF Wallets, Stages
<1>3. Full(v, b, g)
  <2>1. ASSUME NEW h \in TxHeights, b < h, h <= v.blocks PROVE h \in v.recs
    <3>1. CASE h <= LastSynced(w)
      <4>1. CASE w.blocks # 0
        BY <1>1, <2>1, <3>1, <4>1 DEF Midway, LastSynced
      <4>2. CASE w.blocks = 0
        <5>1. h <= Activation - 1 /\ h \in Nat
          BY <1>2, <3>1, <4>2 DEF LastSynced
        <5> QED BY <1>2, <5>1
      <4> QED BY <4>1, <4>2
    <3>2. CASE ~(h <= LastSynced(w))
      <4>1. LastSynced(w) < h
        BY <1>2, <3>2, LastSyncedNat
      <4> QED BY <1>1, <2>1, <4>1 DEF Midway
    <3> QED BY <3>1, <3>2
  <2> QED BY <1>1, <2>1 DEF Full, Midway
<1>4. Based(v, b)
  BY <1>1, <1>2 DEF Based, Midway, LastSynced
<1> QED BY <1>3, <1>4 DEF Sound

\* The inductive invariant of a session.
SessionInv == ControlInv /\ RecordsInv /\ FirstTip <= tip

\* A file that is as it was, gone or empty is no worse.
LEMMA FileKept ==
  ASSUME RecordsInv, ~overlap, born' = born, stray => stray',
         file' = file \/ file' = NoFile \/ file' = EmptyFile,
         ui'.pc # "off" => MemorySound'
  PROVE  RecordsInv'
<1>1. NoFile.state = "none" /\ EmptyFile.state = "empty"
  BY DEF NoFile, EmptyFile
<1>2. file'.state = "whole" => Sound(file'.wallet, born', stray')
  BY <1>1 DEF RecordsInv, Sound, Full
<1> QED BY <1>2 DEF RecordsInv

\* After the process has ended only the file counts.
LEMMA ExitRecords ==
  ASSUME RecordsInv, Exit, UNCHANGED <<file, born, overlap, stray>>
  PROVE  RecordsInv'
<1>1. ui'.pc = "off"
  BY DEF Exit, UiOff
<1> QED BY <1>1 DEF RecordsInv

\* A panic leaves the records.
LEMMA PanicsRecords ==
  ASSUME NEW t \in Threads, ControlInv, RecordsInv, Panics(t),
         UNCHANGED <<mem, file, ui, born, overlap, stray>>, thr[t].pc \notin {"scan", "clear records"}
  PROVE  RecordsInv'
<1> SUFFICES ASSUME ~overlap' PROVE RecordsInv'
  BY DEF RecordsInv
<1>1. /\ thr'[t].pc = "off"
      /\ \A u \in Threads : u # t => thr'[u] = thr[u]
      /\ lock' \in {lock, "free"}
  BY DEF Panics, Off, ControlInv, Shape
<1>2. thr'[t].pc \notin DutyPcs
  BY <1>1 DEF DutyPcs
<1>3. Alike(mem', mem) /\ born' = born /\ stray' = stray
  BY DEF Alike
<1>4. ui'.pc # "off" => MemorySound'
  <2>1. ui.pc # "off" => MemorySound
    BY DEF RecordsInv
  <2> QED BY <1>1, <1>2, <1>3, <2>1, QuietStep
<1> QED BY <1>4, FileKept

\* The prompt and the startup keep the records.
LEMMA RecordsPrompt ==
  ASSUME HistoryKnown, SessionInv, Mine \/ Prompt \/ TypeBlank \/ Killed
                \/ (\E o \in Options, served \in BOOLEAN : Start(o, served))
                \/ (\E sync \in BOOLEAN : Begin(sync)) \/ (\E line \in Lines : Type(line))
  PROVE  RecordsInv'
<1> USE DEF SessionInv
<1>1. ASSUME UNCHANGED <<mem, file, thr, lock, born, overlap, stray>>, (ui'.pc = "off") <=> (ui.pc = "off")
      PROVE  RecordsInv'
  BY <1>1 DEF RecordsInv, MemorySound, Quiet
<1>2. CASE Mine
  BY <1>1, <1>2 DEF Mine
<1>3. CASE UiSend
  <2>1. CASE Alive("cli")
    <3> DEFINE pc == CASE ui.pc = "info" -> "infoing"
                       [] ui.pc = "height" -> "heighting"
                       [] OTHER -> "waiting"
    <3>1. pc # "off"
      OBVIOUS
    <3>2. ui'.pc = pc
      BY <1>3, <2>1 DEF UiSend, ControlInv, Shape
    <3>3. ui.pc # "off" /\ UNCHANGED <<mem, file, thr, lock, born, overlap, stray>>
      BY <1>3, <2>1 DEF UiSend
    <3> HIDE DEF pc
    <3> QED BY <1>1, <3>1, <3>2, <3>3
  <2>2. CASE ~Alive("cli")
    BY <1>3, <2>2, ExitRecords DEF UiSend
  <2> QED BY <2>1, <2>2
<1>4. CASE UiReceive
  <2>1. CASE Exit
    BY <1>4, <2>1, ExitRecords DEF UiReceive
  <2>2. ASSUME NEW answered \in BOOLEAN, Replied(answered)
        PROVE  RecordsInv'
    <3>1. /\ ui'.pc \in {"height", "prompt", "info"}
          /\ ui.pc \in {"infoing", "heighting", "waiting"}
          /\ UNCHANGED <<mem, thr, lock>>
      BY <2>2 DEF Replied, Top, ControlInv, Shape
    <3> QED BY <1>1, <1>4, <3>1 DEF UiReceive
  <2> QED BY <1>4, <2>1, <2>2 DEF UiReceive
<1>5. CASE TypeBlank \/ \E line \in Lines : Type(line)
  <2>1. /\ ui.pc = "prompt" /\ ui'.pc \in {"height", "info", "typed"}
        /\ UNCHANGED <<mem, file, thr, lock, born, overlap, stray>>
    BY <1>5 DEF TypeBlank, Type, Top, ControlInv, Shape
  <2> QED BY <1>1, <2>1
<1>6. CASE Killed
  BY <1>6, ExitRecords DEF Killed
<1>7. ASSUME NEW o \in Options, NEW served \in BOOLEAN, Start(o, served)
      PROVE  RecordsInv'
  <2>1. ui.pc = "off" /\ UNCHANGED <<file, lock>>
    BY <1>7 DEF Start
  <2>2. thr["cli"].pc = "off" /\ thr["monitor"].pc = "off"
    BY <2>1 DEF ControlInv, RolesInv, Startup, Threads
  <2>3. ASSUME NEW c \in Stages, thr' = [thr EXCEPT !["cli"] = c], c.pc \in {"save", "opened"}
        PROVE  \A t \in Threads : thr'[t].pc \notin DutyPcs
    <3>1. thr'["monitor"] = thr["monitor"] /\ thr'["cli"] = c
      BY <2>3 DEF ControlInv, Shape, Threads
    <3> QED BY <2>2, <2>3, <3>1 DEF Threads, DutyPcs
  <2>4. ASSUME Sound(mem', born', stray'), \A t \in Threads : thr'[t].pc \notin DutyPcs
        PROVE  MemorySound'
    BY <2>4, NoDuty DEF MemorySound, Sound
  <2>5. CASE file = NoFile /\ Creates(o, served)
    <3> DEFINE b == IF FromKeys(o) THEN o.birthday ELSE Max({tip - Margin, 0})
               w == [NoWallet EXCEPT !.birthday = b]
    <3>1. /\ mem' = Initial(w, b, served) /\ born' = b
          /\ thr' = [thr EXCEPT !["cli"] = [Off EXCEPT !.pc = "save", !.job = "create"]]
      BY <2>5 DEF Creates
    <3>2. b \in Nat /\ b # 0
      <4>1. CASE FromKeys(o)
        BY <4>1, <1>7, OptionsAssumption DEF Start, Accepted, FromKeys, HistoryKnown
      <4>2. CASE ~FromKeys(o)
        <5>1. tip - Margin > 0 /\ tip - Margin \in Int
          BY SessionAssumption DEF HistoryKnown, ControlInv, Shape
        <5> QED BY <4>2, <5>1, MaxOfTwo
      <4> QED BY <4>1, <4>2
    <3>3. w \in Wallets
      BY <3>2, NothingYet DEF Wallets
    <3>4. w.recs = {} /\ w.blocks = 0 /\ w.base = 0 /\ w.birthday = b
      BY DEF NoWallet
    <3>5. [Off EXCEPT !.pc = "save", !.job = "create"] \in Stages
      BY NothingYet DEF Stages, StagePcs, SyncPcs, SavePcs
    <3>6. [Off EXCEPT !.pc = "save", !.job = "create"].pc = "save"
      BY DEF Off
    <3> HIDE DEF b, w
    <3>7. Sound(mem', born', stray')
      BY <3>1, <3>2, <3>3, <3>4, InitialSound
    <3>8. MemorySound'
      BY <2>3, <2>4, <3>1, <3>5, <3>6, <3>7
    <3>9. file'.state = "none"
      BY <2>1, <2>5 DEF NoFile
    <3> QED BY <3>8, <3>9 DEF RecordsInv
  <2>6. CASE Readable /\ UNCHANGED <<born, overlap, stray, torn>> /\ mem' = ReadInternal
             /\ thr' = [thr EXCEPT !["cli"] = [Off EXCEPT !.pc = "opened"]]
    <3> SUFFICES ASSUME ~overlap' PROVE RecordsInv'
      BY DEF RecordsInv
    <3>1. Sound(mem', born', stray')
      BY <2>6 DEF RecordsInv, Readable, ReadInternal
    <3>2. [Off EXCEPT !.pc = "opened"] \in Stages
      BY NothingYet DEF Stages, StagePcs
    <3>3. [Off EXCEPT !.pc = "opened"].pc = "opened"
      BY DEF Off
    <3>4. MemorySound'
      BY <2>3, <2>4, <2>6, <3>1, <3>2, <3>3
    <3> QED BY <2>1, <2>6, <3>4, FileKept
  <2> QED BY <1>7, <2>5, <2>6 DEF Start
<1>8. ASSUME NEW sync \in BOOLEAN, Begin(sync)
      PROVE  RecordsInv'
  <2> SUFFICES ASSUME ~overlap' PROVE RecordsInv'
    BY DEF RecordsInv
  <2>1. thr["cli"].pc \in {"opened", "ready"} /\ UNCHANGED <<mem, file, lock, born, overlap, stray>>
    BY <1>8 DEF Begin, At
  <2>2. ui.pc = "starting" /\ thr["monitor"].pc = "off"
    BY <2>1 DEF ControlInv, RolesInv, Startup, CliRole, SyncPcs, SavePcs, BatchPcs, ClearPcs
  <2>3. MemorySound /\ Quiet
    BY <2>1, <2>2 DEF RecordsInv, Quiet, Threads
  <2>4. \A t \in Threads : thr'[t].pc \notin DutyPcs
    <3>1. CASE thr' = [thr EXCEPT !["cli"].pc = "sync", !["cli"].job = "startup"]
      <4>1. thr'["cli"].pc = "sync" /\ thr'["monitor"] = thr["monitor"]
        BY <3>1 DEF ControlInv, Shape, Stages, Threads
      <4> QED BY <2>2, <4>1 DEF Threads, DutyPcs
    <3>2. CASE thr' = [thr EXCEPT !["cli"] = [Off EXCEPT !.pc = "recv"],
                              !["monitor"] = [Off EXCEPT !.pc = "idle", !.job = "monitor"]]
      <4>1. thr'["cli"].pc = "recv" /\ thr'["monitor"].pc = "idle"
        BY <3>2 DEF ControlInv, Shape, Threads, Off
      <4> QED BY <4>1 DEF Threads, DutyPcs
    <3> QED BY <1>8, <3>1, <3>2 DEF Begin
  <2>5. MemorySound'
    BY <2>1, <2>3, <2>4, NoDuty DEF MemorySound
  <2> QED BY <2>1, <2>5, FileKept
<1> QED BY <1>2, <1>3, <1>4, <1>5, <1>6, <1>7, <1>8 DEF Prompt

\* The command loop and the clears keep the records.
LEMMA RecordsLoop ==
  ASSUME HistoryKnown, SessionInv, Loop \/ ExecutePanics \/ Clear \/ MonitorWakes
  PROVE  RecordsInv'
<1> USE DEF SessionInv
<1>1. "cli" \in Threads /\ "monitor" \in Threads
  BY DEF Threads
<1>2. {"sync", "clear blocks", "clear records", "initial", "reply"} \subseteq StagePcs
  BY DEF StagePcs, SyncPcs, ClearPcs
<1>3. Shape /\ RolesInv
  BY DEF ControlInv
<1>4. ASSUME NEW t \in Threads, thr[t].pc # "off" PROVE ui.pc # "off"
  BY <1>3, <1>4 DEF RolesInv, Startup
\* Steps that touch no record.
<1>5. ASSUME NEW t \in Threads, thr[t].pc # "off", Alike(mem', mem), UNCHANGED <<lock, born, overlap, stray>>,
             file' = file \/ file' = NoFile,
             \A u \in Threads : u # t => thr'[u] = thr[u],
             thr'[t].pc \notin DutyPcs, thr[t].pc \notin {"scan", "clear records"}
      PROVE  RecordsInv'
  <2> SUFFICES ASSUME ~overlap' PROVE RecordsInv'
    BY DEF RecordsInv
  <2>1. MemorySound
    BY <1>4, <1>5 DEF RecordsInv
  <2>2. MemorySound'
    BY <1>5, <2>1, QuietStep
  <2> QED BY <1>5, <2>2, FileKept
<1>6. ASSUME NEW pc \in {"sync", "clear blocks", "reply"}, Takes(pc), Alike(mem', mem),
             UNCHANGED <<lock, born, overlap, stray>>, file' = file \/ file' = NoFile
      PROVE  RecordsInv'
  <2>1. thr'["cli"].pc = pc /\ thr'["monitor"] = thr["monitor"] /\ thr["cli"].pc = "recv"
    BY <1>2, <1>3, <1>6, TakesShape
  <2>2. \A u \in Threads : u # "cli" => thr'[u] = thr[u]
    BY <2>1 DEF Threads
  <2>3. thr'["cli"].pc \notin DutyPcs
    BY <1>6, <2>1 DEF DutyPcs
  <2> QED BY <1>1, <1>5, <1>6, <2>1, <2>2, <2>3
<1>7. CASE Execute
  <2>1. Alike(mem', mem)
    BY <1>3, <1>7, ChangesWallet DEF Execute, Alike, Shape
  <2> QED BY <1>6, <1>7, <2>1 DEF Execute
<1>8. CASE ExecuteLong
  BY <1>6, <1>8 DEF ExecuteLong, Alike
<1>9. CASE ExecuteDelete
  BY <1>6, <1>9 DEF ExecuteDelete, Alike
<1>10. CASE Reply
  <2>1. /\ thr["cli"].pc = "reply" /\ thr'["cli"].pc \in {"quitting", "recv"}
        /\ thr'["monitor"] = thr["monitor"]
        /\ UNCHANGED <<mem, file, lock, born, overlap, stray>>
    BY <1>3, <1>10 DEF Reply, Shape, Threads, Off, At
  <2>2. \A u \in Threads : u # "cli" => thr'[u] = thr[u]
    BY <2>1 DEF Threads
  <2>3. thr'["cli"].pc \notin DutyPcs
    BY <2>1 DEF DutyPcs
  <2> QED BY <1>1, <1>5, <2>1, <2>2, <2>3 DEF Alike
<1>11. CASE Quit \/ ExecutePanics
  <2>1. /\ thr["cli"].pc \in {"quitting", "recv"} /\ Panics("cli")
        /\ UNCHANGED <<mem, file, ui, born, overlap, stray>>
    BY <1>11 DEF Quit, ExecutePanics, At
  <2> QED BY <1>1, <2>1, PanicsRecords
<1>12. CASE MonitorWakes
  <2>1. /\ thr["monitor"].pc = "idle" /\ thr'["monitor"].pc = "sync"
        /\ \A u \in Threads : u # "monitor" => thr'[u] = thr[u]
        /\ UNCHANGED <<mem, file, lock, born, overlap, stray>>
    BY <1>1, <1>2, <1>3, <1>12, GoesShape DEF MonitorWakes, At
  <2>2. thr'["monitor"].pc \notin DutyPcs
    BY <2>1 DEF DutyPcs
  <2> QED BY <1>1, <1>5, <2>1, <2>2 DEF Alike
\* A clear, while nobody syncs.
<1>13. ASSUME lock = "free", MemorySound, thr["cli"].pc \in ClearPcs
       PROVE  thr["monitor"].pc \notin DutyPcs
  <2>1. ~Holds("monitor")
    BY <1>1, <1>3, <1>13 DEF RolesInv, LockHeld
  <2>2. thr["monitor"].pc \in SavePcs => thr["monitor"].job # "create"
    BY <1>3 DEF RolesInv, MonitorRole, SavePcs
  <2> QED BY <1>3, <2>1, <2>2 DEF RolesInv, MonitorRole, Holds, DutyPcs, SyncPcs, BatchPcs, SavePcs
<1>14. ASSUME lock' = "free", thr'["monitor"] = thr["monitor"], thr["monitor"].pc \notin DutyPcs,
              Based(mem', born'), thr'["cli"].pc # "clear records" => Full(mem', born', stray'),
              thr'["cli"].pc \in {"clear records", "initial"} => mem'.blocks = 0 /\ mem'.base = 0,
              thr'["cli"].pc = "initial" => mem'.recs = {},
              thr'["cli"].pc \in {"clear records", "initial", "sync", "reply"}
       PROVE  MemorySound'
  <2>1. Duty(mem', thr'["cli"], lock', born', stray')
    BY <1>14 DEF Duty, Copied
  <2>2. Duty(mem', thr'["monitor"], lock', born', stray')
    BY <1>14, NoDuty
  <2>3. Quiet' => Full(mem', born', stray')
    BY <1>1, <1>14 DEF Quiet
  <2> QED BY <1>14, <2>1, <2>2, <2>3 DEF MemorySound, Threads
<1>15. CASE ClearBlocks("cli")
  <2> SUFFICES ASSUME ~overlap' PROVE RecordsInv'
    BY DEF RecordsInv
  <2>1. /\ thr["cli"].pc = "clear blocks" /\ lock = "free" /\ ~overlap
        /\ mem' = [mem EXCEPT !.blocks = 0, !.base = 0] /\ UNCHANGED <<file, lock, ui, born, stray>>
    BY <1>15 DEF ClearBlocks, At
  <2>2. thr'["cli"].pc = "clear records" /\ thr'["monitor"] = thr["monitor"]
    BY <1>1, <1>2, <1>3, <1>15, GoesShape DEF ClearBlocks, Threads
  <2>3. MemorySound /\ thr["monitor"].pc \notin DutyPcs
    BY <1>1, <1>4, <1>13, <2>1 DEF RecordsInv, ClearPcs
  <2>4. /\ mem'.blocks = 0 /\ mem'.base = 0 /\ mem'.recs = mem.recs /\ mem'.birthday = mem.birthday
        /\ mem.recs \subseteq Nat
    BY <1>3, <2>1, SessionAssumption DEF Shape, Wallets
  <2>5. Based(mem', born')
    BY <1>3, <2>1, <2>3, <2>4, ClearedBased DEF MemorySound, Shape
  <2>6. MemorySound'
    BY <1>14, <2>1, <2>2, <2>3, <2>4, <2>5
  <2> QED BY <2>1, <2>6, FileKept
<1>16. CASE ClearRecords("cli")
  <2> SUFFICES ASSUME ~overlap' PROVE RecordsInv'
    BY DEF RecordsInv
  <2>1. /\ thr["cli"].pc = "clear records" /\ lock = "free" /\ ~overlap
        /\ mem' = [mem EXCEPT !.recs = {}, !.sent = {}] /\ UNCHANGED <<file, lock, ui, born, stray>>
    BY <1>16 DEF ClearRecords, At
  <2>2. thr'["cli"].pc = "initial" /\ thr'["monitor"] = thr["monitor"]
    BY <1>1, <1>2, <1>3, <1>16, GoesShape DEF ClearRecords, Threads
  <2>3. MemorySound /\ thr["monitor"].pc \notin DutyPcs
    BY <1>1, <1>4, <1>13, <2>1 DEF RecordsInv, ClearPcs
  <2>4. mem.blocks = 0 /\ mem.base = 0
    BY <1>1, <2>1, <2>3 DEF MemorySound, Duty
  <2>5. /\ mem'.blocks = 0 /\ mem'.base = 0 /\ mem'.recs = {} /\ mem'.birthday = mem.birthday
        /\ TxHeights \subseteq Nat /\ born \in Nat
    BY <1>3, <2>1, <2>4, SessionAssumption DEF Shape, Wallets
  <2>6. Based(mem', born')
    BY <1>3, <2>1, <2>3, <2>5, ClearedBased DEF MemorySound, Shape
  <2>7. Full(mem', born', stray')
    BY <2>1, <2>5, ClearedFull
  <2>8. MemorySound'
    BY <1>14, <2>1, <2>2, <2>3, <2>5, <2>6, <2>7
  <2> QED BY <2>1, <2>8, FileKept
<1>17. CASE SetInitial("cli")
  <2> SUFFICES ASSUME ~overlap' PROVE RecordsInv'
    BY DEF RecordsInv
  <2>1. /\ thr["cli"].pc = "initial" /\ lock = "free" /\ ~overlap
        /\ \E served \in BOOLEAN : mem' = Initial(mem, Birthday(mem), served)
        /\ UNCHANGED <<file, lock, ui, born, stray>>
    BY <1>17 DEF SetInitial, At
  <2>2. thr'["cli"].pc \in {"sync", "reply"} /\ thr'["monitor"] = thr["monitor"]
    BY <1>1, <1>2, <1>3, <1>17, GoesShape DEF SetInitial, Threads
  <2>3. MemorySound /\ thr["monitor"].pc \notin DutyPcs
    BY <1>1, <1>4, <1>13, <2>1 DEF RecordsInv, ClearPcs
  <2>4. mem.blocks = 0 /\ mem.base = 0 /\ mem.recs = {}
    BY <1>1, <2>1, <2>3 DEF MemorySound, Duty
  <2>5. /\ mem \in Wallets /\ born \in Nat /\ mem.birthday \in Nat
        /\ mem.birthday # 0 /\ mem.birthday <= born
    BY <1>3, <2>3 DEF Shape, Wallets, MemorySound, Based
  <2>6. Birthday(mem) \in Nat /\ Birthday(mem) <= born
    BY <2>5, BirthdayBounds
  <2>7. Sound(mem', born', stray')
    BY <2>1, <2>4, <2>5, <2>6, InitialSound
  <2>8. MemorySound'
    BY <1>14, <2>1, <2>2, <2>3, <2>7 DEF Sound
  <2> QED BY <2>1, <2>8, FileKept
<1> QED BY <1>7, <1>8, <1>9, <1>10, <1>11, <1>12, <1>15, <1>16, <1>17 DEF Loop, Clear

\* Syncs and saves keep the records.
LEMMA RecordsSync ==
  ASSUME HistoryKnown, NEW t \in Threads, SessionInv, Sync(t) \/ Save(t) \/ Fail(t)
  PROVE  RecordsInv'
<1> USE DEF SessionInv
<1>1. Shape /\ RolesInv
  BY DEF ControlInv
<1>2. ui.pc # "off"
  <2>1. thr[t].pc # "off"
    BY DEF Sync, SyncBegin, BatchBegin, BatchDone, BatchNext, Scan, Save, WriteBlocks, WriteRecords,
           WriteBirthday, CreateFile, WriteFile, Fail, NoBlocksCome, BatchFails, BatchPanics, CreateFails,
           WriteFails, At
  <2> QED BY <1>1, <2>1 DEF RolesInv, Startup
<1>3. /\ mem \in Wallets /\ thr[t] \in Stages /\ born \in Nat /\ thr[t].buf \in Wallets
  BY <1>1 DEF Shape, Stages
<1>4. {"batched", "save", "write"} \subseteq StagePcs
  BY DEF StagePcs, SyncPcs, BatchPcs, SavePcs
<1>5. Over(t) \notin DutyPcs
  BY DEF Over, DutyPcs
<1>6. CASE SyncBegin(t)
  <2> SUFFICES ASSUME ~overlap' PROVE RecordsInv'
    BY DEF RecordsInv
  <2>1. /\ thr[t].pc = "sync" /\ ~overlap /\ ~Clears(Other(t))
        /\ UNCHANGED <<mem, file, ui, born, stray>>
    BY <1>6 DEF SyncBegin, At
  <2>2. \A u \in Threads : u # t => thr[u].pc \notin {"clear records", "initial"}
    BY <2>1 DEF Clears, Other, Threads
  <2>3. /\ thr'[t].pc \notin DutyPcs
        /\ \A u \in Threads : u # t => thr'[u] = thr[u]
    BY <1>1, <1>5, <1>6, SyncMoves DEF Moves, DutyPcs
  <2>4. MemorySound
    BY <1>2, <2>1 DEF RecordsInv
  <2>5. MemorySound'
    BY <2>1, <2>2, <2>3, <2>4, QuietStep DEF Alike
  <2> QED BY <2>1, <2>5, FileKept
<1>7. CASE CreateFails(t)
  <2>1. CASE ui.pc = "starting"
    BY <1>7, <2>1, ExitRecords DEF CreateFails
  <2>2. CASE ui.pc # "starting"
    BY <1>7, <2>2, PanicsRecords DEF CreateFails, At
  <2> QED BY <2>1, <2>2
<1>8. CASE BatchBegin(t) /\ Panics(t)
  BY <1>8, PanicsRecords DEF BatchBegin, At
<1>24. CASE WriteFails(t)
  <2>1. CASE ui.pc = "starting"
    BY <1>24, <2>1, ExitRecords DEF WriteFails
  <2>2. CASE ui.pc # "starting"
    BY <1>24, <2>2, PanicsRecords DEF WriteFails, At
  <2> QED BY <2>1, <2>2
<1>25. CASE BatchPanics(t)
  BY <1>25 DEF BatchPanics, RecordsInv
\* A batch that fails on a wallet without blocks leaves what it recorded.
<1>15. CASE BatchFails(t)
  <2> SUFFICES ASSUME ~overlap' PROVE RecordsInv'
    BY DEF RecordsInv
  <2>1. /\ thr[t].pc = "scan" /\ ~overlap /\ UNCHANGED <<file, ui, born>> /\ mem' = Invalidated(mem)
        /\ stray => stray'
        /\ mem.blocks = 0 => stray'
    BY <1>15 DEF BatchFails, At
  <2>2. thr'[t].pc = Over(t) /\ \A u \in Threads : u # t => thr'[u] = thr[u]
    BY <1>1, <1>15, SyncMoves DEF Moves
  <2>3. MemorySound /\ Based(mem, born) /\ Duty(mem, thr[t], lock, born, stray)
    BY <1>2, <2>1 DEF RecordsInv, MemorySound
  <2>4. Sound(mem', born', stray')
    BY <1>3, <2>1, <2>3, InvalidatedSound DEF Duty, Midway
  <2>5. Duty(mem', thr'[t], lock', born', stray')
    BY <1>5, <2>2, NoDuty
  <2>6. MemorySound'
    BY <1>1, <2>1, <2>2, <2>3, <2>4, <2>5, AloneStep DEF BatchPcs, Sound
  <2> QED BY <2>1, <2>6, FileKept
<1> SUFFICES ASSUME ~(BatchBegin(t) /\ Panics(t)), ~SyncBegin(t), ~overlap',
                    ~CreateFails(t), ~WriteFails(t), ~BatchPanics(t), ~BatchFails(t)
             PROVE  RecordsInv'
  BY <1>6, <1>7, <1>8, <1>15, <1>24, <1>25 DEF RecordsInv
<1>9. ~overlap /\ UNCHANGED <<ui, born, stray>>
  <2>1. CASE Sync(t)
    <3>1. BatchBegin(t) \/ BatchDone(t) \/ BatchNext(t) \/ \E h \in TxHeights : Scan(t, h)
      BY <2>1 DEF Sync
    <3> QED BY <3>1 DEF BatchBegin, BatchDone, BatchNext, Scan
  <2>2. CASE Save(t)
    <3>1. CASE WriteBlocks(t)
      BY <3>1 DEF WriteBlocks
    <3>2. CASE WriteRecords(t)
      BY <3>2 DEF WriteRecords
    <3>3. CASE WriteBirthday(t)
      BY <3>3 DEF WriteBirthday
    <3>4. CASE CreateFile(t) \/ WriteFile(t)
      BY <3>4 DEF CreateFile, WriteFile
    <3> QED BY <2>2, <3>1, <3>2, <3>3, <3>4 DEF Save
  <2>3. CASE NoBlocksCome(t)
    BY <2>3 DEF NoBlocksCome
  <2> QED BY <2>1, <2>2, <2>3 DEF Fail
<1>10. MemorySound
  BY <1>2, <1>9 DEF RecordsInv
<1>11. Based(mem, born) /\ Duty(mem, thr[t], lock, born, stray)
  BY <1>10 DEF MemorySound
<1>12. CASE BatchBegin(t)
  <2>1. /\ thr[t].pc = "batch" /\ UNCHANGED <<mem, file, born, stray>>
    BY <1>12 DEF BatchBegin, At
  <2>2. thr[t].pc \in BatchPcs \cup SavePcs /\ Full(mem, born, stray)
    BY <1>1, <1>10, <2>1, SavesFull DEF BatchPcs
  <2>3. CASE Goes(t, "batched")
    <3>1. thr'[t].pc = "batched" /\ \A u \in Threads : u # t => thr'[u] = thr[u]
      BY <1>1, <1>4, <2>3, GoesShape
    <3>2. Duty(mem', thr'[t], lock', born', stray')
      BY <3>1, NoDuty DEF DutyPcs
    <3>3. MemorySound'
      BY <1>1, <1>10, <1>11, <2>1, <2>2, <3>1, <3>2, AloneStep
    <3> QED BY <1>9, <2>1, <3>3, FileKept
  <2>4. CASE /\ LastSynced(mem) < thr[t].target
             /\ thr' = [thr EXCEPT ![t].pc = "scan", ![t].todo = {h \in TxHeights : LastSynced(mem) < h /\ h <= thr[t].target}]
    <3> DEFINE new == {h \in TxHeights : LastSynced(mem) < h /\ h <= thr[t].target}
    <3>1. thr' = [thr EXCEPT ![t].pc = "scan", ![t].todo = new]
      BY <2>4
    <3>2. new \in SUBSET TxHeights
      OBVIOUS
    <3> HIDE DEF new
    <3>3. /\ thr'[t].pc = "scan" /\ thr'[t].todo = new /\ thr'[t].target = thr[t].target
          /\ \A u \in Threads : u # t => thr'[u] = thr[u]
      BY <1>1, <3>1 DEF Shape, Stages
    <3>4. thr'[t] \in Stages
      BY ShapeSync, <1>1 DEF Shape
    <3>5. Midway(mem, thr'[t], born, stray)
      BY <1>3, <1>11, <2>2, <2>4, <3>3, <3>4, BatchMidway DEF Sound, new
    <3>6. Duty(mem', thr'[t], lock', born', stray')
      BY <2>1, <3>3, <3>5 DEF Duty, Copied
    <3>7. MemorySound'
      BY <1>1, <1>10, <1>11, <2>1, <2>2, <3>3, <3>6, AloneStep
    <3> QED BY <1>9, <2>1, <3>7, FileKept
  <2> QED BY <1>12, <2>3, <2>4 DEF BatchBegin
<1>23. CASE NoBlocksCome(t)
  <2>1. /\ thr[t].pc = "batch" /\ UNCHANGED <<mem, file>> /\ Goes(t, "batched")
    BY <1>23 DEF NoBlocksCome, At
  <2>2. thr[t].pc \in BatchPcs \cup SavePcs /\ Full(mem, born, stray)
    BY <1>1, <1>10, <2>1, SavesFull DEF BatchPcs
  <2>3. thr'[t].pc = "batched" /\ \A u \in Threads : u # t => thr'[u] = thr[u]
    BY <1>1, <1>4, <2>1, GoesShape
  <2>4. Duty(mem', thr'[t], lock', born', stray')
    BY <2>3, NoDuty DEF DutyPcs
  <2>5. MemorySound'
    BY <1>1, <1>9, <1>10, <1>11, <2>1, <2>2, <2>3, <2>4, AloneStep
  <2> QED BY <1>9, <2>1, <2>5, FileKept
<1>13. ASSUME NEW h \in TxHeights, Scan(t, h)
       PROVE  RecordsInv'
  <2>1. /\ thr[t].pc = "scan" /\ h \in thr[t].todo /\ UNCHANGED <<file, lock, born, stray>>
        /\ mem' = [mem EXCEPT !.recs = @ \cup {h}]
        /\ thr' = [thr EXCEPT ![t].todo = @ \ {h}]
    BY <1>13 DEF Scan, At
  <2>2. /\ thr'[t] = [thr[t] EXCEPT !.todo = @ \ {h}]
        /\ \A u \in Threads : u # t => thr'[u] = thr[u]
    BY <1>1, <2>1 DEF Shape, Stages
  <2>3. Midway(mem, thr[t], born, stray)
    BY <1>11, <2>1 DEF Duty
  <2>4. Based(mem', born) /\ Midway(mem', thr'[t], born, stray)
    BY <1>3, <1>11, <2>1, <2>2, <2>3, ScanMidway
  <2>5. thr'[t].pc = "scan"
    BY <1>3, <2>1, <2>2 DEF Stages
  <2>6. Duty(mem', thr'[t], lock', born', stray')
    BY <2>1, <2>4, <2>5 DEF Duty, Copied
  <2>7. MemorySound'
    BY <1>1, <1>10, <2>1, <2>2, <2>4, <2>5, <2>6, AloneStep DEF BatchPcs
  <2> QED BY <1>9, <2>1, <2>7, FileKept
<1>14. CASE BatchDone(t)
  <2>1. /\ thr[t].pc = "scan" /\ thr[t].todo = {} /\ UNCHANGED <<file, lock, born, stray>>
        /\ mem' = [mem EXCEPT !.blocks = thr[t].target, !.base = IF @ = 0 THEN Activation ELSE @]
    BY <1>14 DEF BatchDone, At
  <2>2. thr'[t].pc = "save" /\ \A u \in Threads : u # t => thr'[u] = thr[u]
    BY <1>1, <1>4, <1>14, GoesShape DEF BatchDone
  <2>3. Sound(mem', born', stray')
    BY <1>3, <1>11, <2>1, DoneSound DEF Duty, HistoryKnown
  <2>4. Duty(mem', thr'[t], lock', born', stray')
    BY <2>2, NoDuty DEF DutyPcs
  <2>5. MemorySound'
    BY <1>1, <1>10, <2>1, <2>2, <2>3, <2>4, AloneStep DEF BatchPcs, Sound
  <2> QED BY <1>9, <2>1, <2>5, FileKept
\* The other steps leave memory alone.
<1>16. ASSUME UNCHANGED mem, thr[t].pc \in SavePcs \cup {"batched"},
              \A u \in Threads : u # t => thr'[u] = thr[u],
              thr'[t].pc \notin {"scan", "clear records", "initial"}, Copied(mem, thr'[t], born, stray)
       PROVE  MemorySound'
  <2>1. Full(mem, born, stray)
    BY <1>1, <1>10, <1>16, SavesFull
  <2>2. Duty(mem', thr'[t], lock', born', stray')
    BY <1>9, <1>16 DEF Duty
  <2> QED BY <1>1, <1>9, <1>10, <1>11, <1>16, <2>1, <2>2, AloneStep DEF BatchPcs
<1>17. CASE BatchNext(t)
  <2>1. /\ thr[t].pc = "batched" /\ UNCHANGED <<mem, file>>
    BY <1>17 DEF BatchNext, At
  <2>2. /\ thr'[t].pc \notin DutyPcs
        /\ \A u \in Threads : u # t => thr'[u] = thr[u]
    BY <1>1, <1>5, <1>17, SyncMoves DEF Moves, DutyPcs
  <2>3. MemorySound'
    BY <1>16, <2>1, <2>2 DEF DutyPcs, Copied
  <2> QED BY <1>9, <2>1, <2>3, FileKept
<1>18. CASE WriteBlocks(t)
  <2> DEFINE b == [NoWallet EXCEPT !.made = mem.made, !.blocks = mem.blocks, !.base = mem.base]
  <2>1. /\ thr' = [thr EXCEPT ![t] = [thr[t] EXCEPT !.pc = "save records", !.buf = b]]
        /\ thr[t].pc = "save" /\ UNCHANGED <<mem, file>>
    BY <1>18 DEF WriteBlocks, At
  <2>2. b.blocks = mem.blocks /\ b.base = mem.base
    BY DEF NoWallet
  <2> HIDE DEF b
  <2>3. /\ thr'[t].pc = "save records" /\ thr'[t].buf = b
        /\ \A u \in Threads : u # t => thr'[u] = thr[u]
    BY <1>1, <2>1 DEF Shape, Stages
  <2>4. Copied(mem, thr'[t], born, stray)
    BY <2>2, <2>3 DEF Copied
  <2>5. MemorySound'
    BY <1>16, <2>1, <2>3, <2>4 DEF SavePcs
  <2> QED BY <1>9, <2>1, <2>5, FileKept
<1>19. CASE WriteRecords(t)
  <2> DEFINE b == [thr[t].buf EXCEPT !.recs = mem.recs, !.sent = mem.sent]
  <2>1. /\ thr' = [thr EXCEPT ![t] = [thr[t] EXCEPT !.pc = "save birthday", !.buf = b]]
        /\ thr[t].pc = "save records" /\ UNCHANGED <<mem, file>>
    BY <1>19 DEF WriteRecords, At
  <2>2. b.blocks = mem.blocks /\ b.base = mem.base /\ b.recs = mem.recs
    BY <1>3, <1>11, <2>1 DEF Duty, Copied, Wallets
  <2> HIDE DEF b
  <2>3. /\ thr'[t].pc = "save birthday" /\ thr'[t].buf = b
        /\ \A u \in Threads : u # t => thr'[u] = thr[u]
    BY <1>1, <2>1 DEF Shape, Stages
  <2>4. Copied(mem, thr'[t], born, stray)
    BY <2>2, <2>3 DEF Copied
  <2>5. MemorySound'
    BY <1>16, <2>1, <2>3, <2>4 DEF SavePcs
  <2> QED BY <1>9, <2>1, <2>5, FileKept
<1>20. CASE WriteBirthday(t)
  <2> DEFINE b == [thr[t].buf EXCEPT !.birthday = Birthday(mem)]
  <2>1. /\ thr' = [thr EXCEPT ![t] = [thr[t] EXCEPT !.pc = "create", !.buf = b]]
        /\ thr[t].pc = "save birthday" /\ UNCHANGED <<mem, file>>
    BY <1>20 DEF WriteBirthday, At
  <2>2. b.blocks = mem.blocks /\ b.base = mem.base /\ b.recs = mem.recs /\ b.birthday = Birthday(mem)
    BY <1>3, <1>11, <2>1 DEF Duty, Copied, Wallets
  <2> HIDE DEF b
  <2>3. /\ thr'[t].pc = "create" /\ thr'[t].buf = b
        /\ \A u \in Threads : u # t => thr'[u] = thr[u]
    BY <1>1, <2>1 DEF Shape, Stages
  <2>4. Full(mem, born, stray)
    BY <1>1, <1>10, <2>1, SavesFull DEF SavePcs
  <2>5. Birthday(mem) # 0 /\ Birthday(mem) <= born
    <3>1. mem.birthday # 0 /\ mem.birthday <= born /\ \A h \in mem.recs : Activation <= h
      BY <1>11 DEF Based
    <3>2. Birthday(mem) \in Nat /\ mem.birthday \in Nat
      BY <1>3, BirthdayBounds DEF Wallets
    <3>3. Birthday(mem) # 0 /\ Birthday(mem) <= mem.birthday
      BY <1>3, <3>1, BirthdayBounds
    <3> QED BY <1>3, <3>1, <3>2, <3>3
  <2>6. Sound(b, born, stray)
    BY <1>11, <2>2, <2>4, <2>5 DEF Sound, Based, Full
  <2>7. Copied(mem, thr'[t], born, stray)
    BY <2>3, <2>6 DEF Copied
  <2>8. MemorySound'
    BY <1>16, <2>1, <2>3, <2>7 DEF SavePcs
  <2> QED BY <1>9, <2>1, <2>8, FileKept
<1>21. CASE CreateFile(t)
  <2>1. thr[t].pc = "create" /\ UNCHANGED mem /\ file' = EmptyFile
    BY <1>21 DEF CreateFile, At, EmptyFile
  <2>2. /\ thr'[t].pc = "write" /\ thr'[t].buf = thr[t].buf
        /\ \A u \in Threads : u # t => thr'[u] = thr[u]
    BY <1>1, <1>4, <1>21, GoesShape DEF CreateFile
  <2>3. Copied(mem, thr'[t], born, stray)
    BY <1>11, <2>1, <2>2 DEF Duty, Copied
  <2>4. MemorySound'
    BY <1>16, <2>1, <2>2, <2>3 DEF SavePcs
  <2> QED BY <1>9, <2>1, <2>4, FileKept
<1>22. CASE WriteFile(t)
  <2>1. /\ thr[t].pc = "write" /\ UNCHANGED mem
        /\ file' = file \/ file' = WholeFile(thr[t].buf)
    BY <1>22 DEF WriteFile, At, WholeFile
  <2>2. /\ thr'[t].pc \notin DutyPcs
        /\ \A u \in Threads : u # t => thr'[u] = thr[u]
    BY <1>1, <1>5, <1>22, SyncMoves DEF Moves, DutyPcs
  <2>3. MemorySound'
    BY <1>16, <2>1, <2>2 DEF DutyPcs, Copied, SavePcs
  <2>4. Sound(thr[t].buf, born, stray)
    BY <1>11, <2>1 DEF Duty, Copied
  <2>5. CASE file' = file
    BY <1>9, <2>3, <2>5, FileKept
  <2>6. CASE file' = WholeFile(thr[t].buf)
    <3>1. file'.wallet = thr[t].buf
      BY <2>6 DEF WholeFile
    <3> QED BY <1>9, <2>3, <2>4, <3>1 DEF RecordsInv
  <2> QED BY <2>1, <2>5, <2>6
<1> QED BY <1>12, <1>13, <1>14, <1>17, <1>18, <1>19, <1>20, <1>21, <1>22, <1>23 DEF Sync, Save, Fail

\* The invariant holds at the start and is kept by every step.
THEOREM SessionInvariant == HistoryKnown => (Spec => []SessionInv)
<1> SUFFICES ASSUME HistoryKnown PROVE Spec => []SessionInv
  OBVIOUS
<1>1. Init => SessionInv
  <2> SUFFICES ASSUME Init PROVE SessionInv
    OBVIOUS
  <2>1. ui.pc = "off" /\ file.state = "none" /\ tip = FirstTip
    BY DEF Init, UiOff, NoFile
  <2>2. RecordsInv
    BY <2>1 DEF RecordsInv
  <2>3. FirstTip <= tip
    BY <2>1, SessionAssumption
  <2> QED BY <2>2, <2>3, ControlInit DEF SessionInv
<1>2. SessionInv /\ [Next]_vars => SessionInv'
  <2> SUFFICES ASSUME SessionInv, [Next]_vars PROVE SessionInv'
    OBVIOUS
  <2>1. ControlInv'
    BY ControlStep DEF SessionInv
  <2>2. CASE UNCHANGED vars
    <3>1. RecordsInv'
      BY <2>2 DEF vars, SessionInv, RecordsInv, MemorySound, Quiet
    <3> QED BY <2>1, <2>2, <3>1 DEF vars, SessionInv
  <2>3. CASE Next
    <3>1. RecordsInv'
      BY <2>3, RecordsPrompt, RecordsLoop, RecordsSync DEF Next
    <3>2. tip' = tip \/ tip' = tip + 1
      BY <2>3 DEF Next, Mine, Start, Begin, Prompt, UiSend, UiReceive, TypeBlank, Killed, Type, Loop, Execute,
           ExecuteLong, ExecuteDelete, Reply, Quit, ExecutePanics, Clear, ClearBlocks, ClearRecords, SetInitial,
           MonitorWakes, Sync, SyncBegin, BatchBegin, BatchDone, BatchNext, Scan, Save, WriteBlocks,
           WriteRecords, WriteBirthday, CreateFile, WriteFile, Fail, NoBlocksCome, BatchFails, BatchPanics,
           CreateFails, WriteFails
    <3>3. FirstTip <= tip'
      BY <3>2, SessionAssumption DEF SessionInv, ControlInv, Shape
    <3> QED BY <2>1, <3>1, <3>3 DEF SessionInv
  <2> QED BY <2>2, <2>3
<1> QED BY <1>1, <1>2, PTL DEF Spec

\* The wallet in memory has the records of all the blocks it has scanned since its
\* birthday, whatever is cleared, scanned again, failed, interrupted, killed or started
\* again (clear_all, sync_nth_batch, invalidate_block, read_internal), and no others
\* unless a batch failed on a wallet without blocks; nothing is said after a clear ran
\* into a sync of another thread or a batch panicked.
THEOREM MemoryIsComplete == HistoryKnown => (Spec => []RecordsComplete)
<1>1. SessionInv => RecordsComplete
  <2> SUFFICES ASSUME SessionInv, ui.pc # "off", ~Scanning, ~overlap PROVE Complete(mem)
    BY DEF RecordsComplete
  <2>1. Quiet /\ MemorySound
    BY DEF Scanning, Quiet, SessionInv, RecordsInv
  <2> QED BY <2>1 DEF MemorySound, Full, Complete
<1> QED BY <1>1, SessionInvariant, PTL

\* The same of the wallet file: the blocks and the records that a save writes belong
\* together (LightWallet::write).
THEOREM FileIsComplete == HistoryKnown => (Spec => []FileComplete)
<1>1. SessionInv => FileComplete
  <2> SUFFICES ASSUME SessionInv, file.state = "whole", ~overlap PROVE Complete(file.wallet)
    BY DEF FileComplete
  <2>1. Sound(file.wallet, born, stray)
    BY DEF SessionInv, RecordsInv
  <2> QED BY <2>1 DEF Sound, Full, Complete
<1> QED BY <1>1, SessionInvariant, PTL

-----------------------------------------------------------------------------
(* Heights.                                                                 *)

\* Heights up to the one a transaction is sent at when the chain is at its last.
Highest == MaxTip + 1
Within(w) ==
  /\ w.blocks <= Highest /\ \A h \in Records(w) : h <= Highest
  /\ w.birthday <= Highest \/ w.birthday <= Activation

ThreadWithin(s) ==
  /\ Within(s.buf) /\ s.goal <= Highest /\ s.target <= Highest
  /\ \A h \in s.todo : h <= Highest

HeightsInv ==
  /\ Shape
  /\ tip <= MaxTip
  /\ Within(mem)
  /\ file.state = "whole" => Within(file.wallet)
  /\ \A t \in Threads : ThreadWithin(thr[t])

\* The chain starts below its last height, and no birthday is above it.
HeightsGiven ==
  /\ FirstTip <= MaxTip
  /\ \A o \in Options : o.birthday <= MaxTip

\* The highest height.
LEMMA HighestNat == Highest \in Nat /\ MaxTip \in Nat /\ MaxTip < Highest /\ MaxTip + 1 <= Highest
BY SessionAssumption DEF Highest

\* Nothing has heights within bounds.
LEMMA NothingWithin ==
  /\ Within(NoWallet) /\ ThreadWithin(Off)
  /\ \A s : s.buf = NoWallet /\ s.goal = 0 /\ s.target = 0 /\ s.todo = {} => ThreadWithin(s)
<1>1. NoWallet.blocks = 0 /\ Records(NoWallet) = {} /\ NoWallet.birthday = 0
  BY DEF NoWallet, Records
<1>2. Within(NoWallet)
  BY <1>1, SessionAssumption, HighestNat DEF Within
<1>3. Off.buf = NoWallet /\ Off.goal = 0 /\ Off.target = 0 /\ Off.todo = {}
  BY DEF Off
<1> QED BY <1>2, <1>3, SessionAssumption, HighestNat DEF ThreadWithin

\* The initial block of a wallet is within bounds.
LEMMA InitialWithin ==
  ASSUME NEW w \in Wallets, Within(w), NEW n \in Nat, n <= Highest \/ n <= Activation, NEW served
  PROVE  Within(Initial(w, n, served))
<1>1. Highest \in Nat /\ Activation \in Nat
  BY SessionAssumption, HighestNat
<1>2. CASE Initial(w, n, served) = w
  BY <1>2
<1>3. CASE n > Activation /\ Initial(w, n, served) = [w EXCEPT !.blocks = n, !.base = n]
  <2> DEFINE v == Initial(w, n, served)
  <2>1. v.blocks = n /\ Records(v) = Records(w) /\ v.birthday = w.birthday
    BY <1>3 DEF Wallets, Records
  <2> HIDE DEF v
  <2> QED BY <1>1, <1>3, <2>1 DEF Within, v
<1> QED BY <1>2, <1>3 DEF Initial

\* So is the birthday that is written.
LEMMA BirthdayWithin ==
  ASSUME NEW w \in Wallets, Within(w)
  PROVE  Birthday(w) \in Nat /\ (Birthday(w) <= Highest \/ Birthday(w) <= Activation)
<1>1. Activation \in Nat
  BY SessionAssumption, HighestNat
<1> QED BY <1>1, BirthdayBounds DEF Within

\* A step of one thread.
LEMMA ThreadKeepsHeights ==
  ASSUME NEW t \in Threads, HeightsInv, Shape', UNCHANGED tip,
         Within(mem'), file'.state = "whole" => Within(file'.wallet),
         \A u \in Threads : u # t => thr'[u] = thr[u],
         ThreadWithin(thr'[t])
  PROVE  HeightsInv'
BY DEF HeightsInv

\* The prompt, the startup and the end of the process keep the heights.
LEMMA HeightsPrompt ==
  ASSUME HeightsGiven, HeightsInv, Shape', Mine \/ Prompt \/ TypeBlank \/ Killed
                \/ (\E o \in Options, served \in BOOLEAN : Start(o, served))
                \/ (\E sync \in BOOLEAN : Begin(sync)) \/ (\E line \in Lines : Type(line))
  PROVE  HeightsInv'
<1>1. ASSUME UNCHANGED <<tip, mem, file, thr>> PROVE HeightsInv'
  BY <1>1 DEF HeightsInv
<1>2. ASSUME Exit, UNCHANGED <<tip, file>> PROVE HeightsInv'
  BY <1>2, NothingWithin DEF HeightsInv, Exit
<1>3. CASE Mine
  BY <1>3, SessionAssumption, HighestNat DEF Mine, HeightsInv, Shape
<1>4. CASE Prompt
  BY <1>1, <1>2, <1>4 DEF Prompt, UiSend, UiReceive, Replied
<1>5. CASE TypeBlank \/ \E line \in Lines : Type(line)
  BY <1>1, <1>5 DEF TypeBlank, Type
<1>6. CASE Killed
  BY <1>2, <1>6 DEF Killed
<1>7. ASSUME NEW o \in Options, NEW served \in BOOLEAN, Start(o, served)
      PROVE  HeightsInv'
  <2>1. "cli" \in Threads /\ UNCHANGED <<tip, file>>
    BY <1>7 DEF Threads, Start
  <2>2. ASSUME NEW c \in Stages, thr' = [thr EXCEPT !["cli"] = c], ThreadWithin(c), Within(mem')
        PROVE  HeightsInv'
    BY <2>1, <2>2, ThreadKeepsHeights DEF HeightsInv, Shape
  <2>3. CASE file = NoFile /\ Creates(o, served)
    <3> DEFINE b == IF FromKeys(o) THEN o.birthday ELSE Max({tip - Margin, 0})
               w == [NoWallet EXCEPT !.birthday = b]
               c == [Off EXCEPT !.pc = "save", !.job = "create"]
    <3>1. mem' = Initial(w, b, served) /\ thr' = [thr EXCEPT !["cli"] = c]
      BY <2>3 DEF Creates
    <3>2. b \in Nat /\ b <= Highest
      <4>1. CASE FromKeys(o)
        <5>1. o.birthday \in Nat /\ o.birthday <= MaxTip
          BY <4>1, <1>7, OptionsAssumption DEF Start, Accepted, FromKeys, HeightsGiven
        <5> QED BY <4>1, <5>1, HighestNat
      <4>2. CASE ~FromKeys(o)
        <5>1. tip \in Nat /\ Margin \in Nat /\ Highest \in Nat /\ tip <= Highest
          BY SessionAssumption, HighestNat DEF HeightsInv, Shape
        <5>2. b = IF tip - Margin >= 0 THEN tip - Margin ELSE 0
          BY <4>2, <5>1, MaxOfTwo
        <5> QED BY <5>1, <5>2
      <4> QED BY <4>1, <4>2
    <3>3. w \in Wallets
      BY <3>2, NothingYet DEF Wallets
    <3>4. Records(w) = {} /\ w.blocks = 0 /\ w.birthday = b
      BY DEF NoWallet, Records
    <3>5. c \in Stages /\ c.buf = NoWallet /\ c.goal = 0 /\ c.target = 0 /\ c.todo = {}
      BY NothingYet DEF Stages, StagePcs, SyncPcs, SavePcs, Off
    <3> HIDE DEF b, w, c
    <3>6. Within(w)
      BY <3>2, <3>4, SessionAssumption, HighestNat DEF Within
    <3>7. Within(mem')
      BY <3>1, <3>2, <3>3, <3>6, InitialWithin
    <3> QED BY <2>2, <3>1, <3>5, <3>7, NothingWithin
  <2>4. CASE Readable /\ mem' = ReadInternal /\ thr' = [thr EXCEPT !["cli"] = [Off EXCEPT !.pc = "opened"]]
    <3> DEFINE c == [Off EXCEPT !.pc = "opened"]
    <3>1. c \in Stages /\ c.buf = NoWallet /\ c.goal = 0 /\ c.target = 0 /\ c.todo = {}
      BY NothingYet DEF Stages, StagePcs, Off
    <3>2. thr' = [thr EXCEPT !["cli"] = c]
      BY <2>4
    <3> HIDE DEF c
    <3>3. Within(mem')
      BY <2>4 DEF HeightsInv, Readable, ReadInternal
    <3> QED BY <2>2, <3>1, <3>2, <3>3, NothingWithin
  <2> QED BY <1>7, <2>3, <2>4 DEF Start
<1>8. ASSUME NEW sync \in BOOLEAN, Begin(sync)
      PROVE  HeightsInv'
  <2>1. UNCHANGED <<tip, mem, file>>
    BY <1>8 DEF Begin
  <2>2. CASE thr' = [thr EXCEPT !["cli"].pc = "sync", !["cli"].job = "startup"]
    <3>1. /\ thr'["cli"].buf = thr["cli"].buf /\ thr'["cli"].goal = thr["cli"].goal
          /\ thr'["cli"].target = thr["cli"].target /\ thr'["cli"].todo = thr["cli"].todo
          /\ thr'["monitor"] = thr["monitor"]
      BY <2>2 DEF HeightsInv, Shape, Stages, Threads
    <3>2. ThreadWithin(thr'["cli"]) /\ ThreadWithin(thr'["monitor"])
      BY <3>1 DEF HeightsInv, ThreadWithin, Threads
    <3> QED BY <2>1, <3>2 DEF HeightsInv, Threads
  <2>3. CASE thr' = [thr EXCEPT !["cli"] = [Off EXCEPT !.pc = "recv"],
                              !["monitor"] = [Off EXCEPT !.pc = "idle", !.job = "monitor"]]
    <3>1. \A t \in Threads : thr'[t].buf = NoWallet /\ thr'[t].goal = 0 /\ thr'[t].target = 0 /\ thr'[t].todo = {}
      BY <2>3 DEF HeightsInv, Shape, Off, Threads
    <3> QED BY <2>1, <3>1, NothingWithin DEF HeightsInv
  <2> QED BY <1>8, <2>2, <2>3 DEF Begin
<1> QED BY <1>3, <1>4, <1>5, <1>6, <1>7, <1>8

\* The command loop keeps the heights.
LEMMA HeightsLoop ==
  ASSUME HeightsInv, Shape', Loop \/ ExecutePanics \/ Clear \/ MonitorWakes
  PROVE  HeightsInv'
<1> USE DEF HeightsInv
<1>1. "cli" \in Threads /\ "monitor" \in Threads /\ mem \in Wallets
  BY DEF Threads, Shape
<1>2. {"sync", "clear blocks", "clear records", "initial", "reply"} \subseteq StagePcs
  BY DEF StagePcs, SyncPcs, ClearPcs
<1>3. ASSUME NEW c, thr' = [thr EXCEPT !["cli"] = c], c.buf = NoWallet, c.goal = 0, c.target = 0, c.todo = {},
             UNCHANGED tip, Within(mem'), file' = file \/ file' = NoFile
      PROVE  HeightsInv'
  <2>1. thr'["cli"] = c /\ \A u \in Threads : u # "cli" => thr'[u] = thr[u]
    BY <1>1, <1>3 DEF Shape
  <2>2. ThreadWithin(c)
    BY <1>3, NothingWithin
  <2>3. file'.state = "whole" => Within(file'.wallet)
    <3>1. NoFile.state = "none"
      BY DEF NoFile
    <3> QED BY <1>3, <3>1
  <2> QED BY <1>1, <1>3, <2>1, <2>2, <2>3, ThreadKeepsHeights
<1>4. ASSUME NEW pc, Takes(pc), UNCHANGED tip, Within(mem'), file' = file \/ file' = NoFile
      PROVE  HeightsInv'
  <2> DEFINE c == [Off EXCEPT !.pc = pc, !.job = "command", !.line = Head(inbox)]
  <2>1. thr' = [thr EXCEPT !["cli"] = c]
    BY <1>4 DEF Takes
  <2>2. c.buf = NoWallet /\ c.goal = 0 /\ c.target = 0 /\ c.todo = {}
    BY DEF Off
  <2> HIDE DEF c
  <2> QED BY <1>3, <1>4, <2>1, <2>2
<1>5. CASE Execute
  <2>1. Within(mem')
    <3>1. /\ mem'.blocks = mem.blocks /\ mem'.birthday = mem.birthday
          /\ Records(mem') \subseteq Records(mem) \cup {tip + 1}
      BY <1>1, <1>5, ChangesWallet DEF Execute, Records, Shape
    <3>2. tip + 1 <= Highest
      BY HighestNat DEF Shape
    <3> QED BY <3>1, <3>2 DEF Within
  <2> QED BY <1>4, <1>5, <2>1 DEF Execute
<1>6. CASE ExecuteLong
  BY <1>4, <1>6 DEF ExecuteLong
<1>7. CASE ExecuteDelete
  BY <1>4, <1>7 DEF ExecuteDelete
<1>8. CASE Reply
  <2> DEFINE c == [Off EXCEPT !.pc = IF thr["cli"].line.cmd = "quit" THEN "quitting" ELSE "recv"]
  <2>1. thr' = [thr EXCEPT !["cli"] = c] /\ UNCHANGED <<tip, mem, file>>
    BY <1>8 DEF Reply
  <2>2. c.buf = NoWallet /\ c.goal = 0 /\ c.target = 0 /\ c.todo = {}
    BY DEF Off
  <2> HIDE DEF c
  <2> QED BY <1>3, <2>1, <2>2
<1>9. CASE Quit \/ ExecutePanics
  <2>1. thr' = [thr EXCEPT !["cli"] = Off] /\ UNCHANGED <<tip, mem, file>>
    BY <1>9 DEF Quit, ExecutePanics, Panics
  <2>2. Off.buf = NoWallet /\ Off.goal = 0 /\ Off.target = 0 /\ Off.todo = {}
    BY DEF Off
  <2> QED BY <1>3, <2>1, <2>2
<1>10. ASSUME NEW t \in Threads, NEW pc, Goes(t, pc), UNCHANGED <<tip, file>>, Within(mem')
       PROVE  HeightsInv'
  <2>1. /\ thr'[t].buf = thr[t].buf /\ thr'[t].goal = thr[t].goal
        /\ thr'[t].target = thr[t].target /\ thr'[t].todo = thr[t].todo
        /\ \A u \in Threads : u # t => thr'[u] = thr[u]
    BY <1>10 DEF Goes, Shape, Stages
  <2>2. ThreadWithin(thr'[t])
    BY <2>1 DEF ThreadWithin
  <2> QED BY <1>10, <2>1, <2>2, ThreadKeepsHeights
<1>11. CASE ClearBlocks("cli")
  <2>1. mem'.blocks = 0 /\ Records(mem') = Records(mem) /\ mem'.birthday = mem.birthday
    BY <1>1, <1>11 DEF ClearBlocks, Wallets, Records
  <2>2. Within(mem')
    BY <2>1, SessionAssumption, HighestNat DEF Within
  <2> QED BY <1>1, <1>10, <1>11, <2>2 DEF ClearBlocks
<1>12. CASE ClearRecords("cli")
  <2>1. mem'.blocks = mem.blocks /\ Records(mem') = {} /\ mem'.birthday = mem.birthday
    BY <1>1, <1>12 DEF ClearRecords, Wallets, Records
  <2>2. Within(mem')
    BY <2>1, SessionAssumption, HighestNat DEF Within
  <2> QED BY <1>1, <1>10, <1>12, <2>2 DEF ClearRecords
<1>13. CASE SetInitial("cli")
  <2>1. Within(mem')
    BY <1>1, <1>13, InitialWithin, BirthdayWithin DEF SetInitial
  <2> QED BY <1>1, <1>10, <1>13, <2>1 DEF SetInitial
<1>14. CASE MonitorWakes
  BY <1>1, <1>10, <1>14 DEF MonitorWakes
<1> QED BY <1>5, <1>6, <1>7, <1>8, <1>9, <1>11, <1>12, <1>13, <1>14 DEF Loop, Clear

\* Syncs and saves keep the heights.
LEMMA HeightsSync ==
  ASSUME NEW t \in Threads, HeightsInv, Shape', Sync(t) \/ Save(t) \/ Fail(t)
  PROVE  HeightsInv'
<1> USE DEF HeightsInv
<1>1. /\ mem \in Wallets /\ Within(mem) /\ ThreadWithin(thr[t]) /\ thr[t] \in Stages
      /\ tip \in Nat /\ LastSynced(mem) \in Nat
  BY LastSyncedNat DEF Shape
<1>2. /\ Highest \in Nat /\ BatchSize \in Nat /\ Activation \in Nat /\ TxHeights \subseteq Nat
      /\ thr[t].target \in Nat /\ thr[t].goal \in Nat
  BY <1>1, SessionAssumption, HighestNat DEF Stages
\* A thread that ends or panics forgets its heights.
<1>3. ASSUME Returns(t) \/ Panics(t), UNCHANGED <<tip, file>>, Within(mem')
      PROVE  HeightsInv'
  <2>1. /\ thr'[t].buf = NoWallet /\ thr'[t].goal = 0 /\ thr'[t].target = 0 /\ thr'[t].todo = {}
        /\ \A u \in Threads : u # t => thr'[u] = thr[u]
    <3>1. CASE Returns(t)
      <4> DEFINE c == [Off EXCEPT !.pc = Over(t), !.job = thr[t].job, !.line = thr[t].line]
      <4>1. thr' = [thr EXCEPT ![t] = c]
        BY <3>1 DEF Returns
      <4>2. c.buf = NoWallet /\ c.goal = 0 /\ c.target = 0 /\ c.todo = {}
        BY DEF Off
      <4> HIDE DEF c
      <4> QED BY <4>1, <4>2 DEF Shape
    <3>2. CASE Panics(t)
      BY <3>2 DEF Panics, Off, Shape
    <3> QED BY <1>3, <3>1, <3>2
  <2> QED BY <1>3, <2>1, NothingWithin, ThreadKeepsHeights
<1>4. ASSUME NEW pc, Goes(t, pc), UNCHANGED tip, Within(mem'), file' = file \/ file' = EmptyFile
      PROVE  HeightsInv'
  <2>1. /\ thr'[t].buf = thr[t].buf /\ thr'[t].goal = thr[t].goal
        /\ thr'[t].target = thr[t].target /\ thr'[t].todo = thr[t].todo
        /\ \A u \in Threads : u # t => thr'[u] = thr[u]
    BY <1>4 DEF Goes, Shape, Stages
  <2>2. ThreadWithin(thr'[t])
    BY <1>1, <2>1 DEF ThreadWithin
  <2>3. EmptyFile.state = "empty"
    BY DEF EmptyFile
  <2> QED BY <1>4, <2>1, <2>2, <2>3, ThreadKeepsHeights
<1>5. CASE SyncBegin(t)
  <2>1. UNCHANGED <<tip, mem, file>>
    BY <1>5 DEF SyncBegin
  <2>2. CASE Returns(t)
    BY <1>1, <1>3, <2>1, <2>2
  <2>3. CASE ~Returns(t)
    <3> DEFINE to == Min({tip, LastSynced(mem) + BatchSize})
    <3>1. to <= Highest
      <4>1. to = IF tip <= LastSynced(mem) + BatchSize THEN tip ELSE LastSynced(mem) + BatchSize
        BY <1>1, <1>2, MinOfTwo
      <4>2. tip <= Highest
        BY <1>1, HighestNat
      <4> QED BY <1>1, <1>2, <4>1, <4>2
    <3>2. thr' = [thr EXCEPT ![t].pc = "batch", ![t].goal = tip, ![t].target = to]
      BY <1>5, <2>3 DEF SyncBegin
    <3> HIDE DEF to
    <3>3. /\ thr'[t].buf = thr[t].buf /\ thr'[t].goal = tip
          /\ thr'[t].target = to /\ thr'[t].todo = thr[t].todo
          /\ \A u \in Threads : u # t => thr'[u] = thr[u]
      BY <3>2 DEF Shape, Stages
    <3>4. ThreadWithin(thr'[t])
      BY <1>1, <3>1, <3>3, HighestNat DEF ThreadWithin
    <3> QED BY <1>1, <2>1, <3>3, <3>4, ThreadKeepsHeights
  <2> QED BY <2>2, <2>3
<1>6. CASE BatchBegin(t)
  <2>1. UNCHANGED <<tip, mem, file>>
    BY <1>6 DEF BatchBegin
  <2>2. CASE Panics(t)
    BY <1>1, <1>3, <2>1, <2>2
  <2>3. CASE Goes(t, "batched")
    BY <1>1, <1>4, <2>1, <2>3
  <2>4. CASE thr' = [thr EXCEPT ![t].pc = "scan", ![t].todo = {h \in TxHeights : LastSynced(mem) < h /\ h <= thr[t].target}]
    <3> DEFINE new == {h \in TxHeights : LastSynced(mem) < h /\ h <= thr[t].target}
    <3>1. \A h \in new : h <= Highest
      <4>1. thr[t].target <= Highest
        BY <1>1 DEF ThreadWithin
      <4>2. ASSUME NEW h \in new PROVE h <= Highest
        <5>1. h \in Nat /\ h <= thr[t].target
          BY <1>2
        <5> QED BY <1>2, <4>1, <5>1
      <4> QED BY <4>2
    <3>2. thr' = [thr EXCEPT ![t].pc = "scan", ![t].todo = new]
      BY <2>4
    <3> HIDE DEF new
    <3>3. /\ thr'[t].buf = thr[t].buf /\ thr'[t].goal = thr[t].goal
          /\ thr'[t].target = thr[t].target /\ thr'[t].todo = new
          /\ \A u \in Threads : u # t => thr'[u] = thr[u]
      BY <3>2 DEF Shape, Stages
    <3>4. ThreadWithin(thr'[t])
      BY <1>1, <3>1, <3>3 DEF ThreadWithin
    <3> QED BY <1>1, <2>1, <3>3, <3>4, ThreadKeepsHeights
  <2> QED BY <1>6, <2>2, <2>3, <2>4 DEF BatchBegin
<1>7. ASSUME NEW h \in TxHeights, Scan(t, h)
      PROVE  HeightsInv'
  <2>1. /\ h \in thr[t].todo /\ UNCHANGED <<tip, file>>
        /\ mem' = [mem EXCEPT !.recs = @ \cup {h}]
        /\ thr' = [thr EXCEPT ![t].todo = @ \ {h}]
    BY <1>7 DEF Scan
  <2>2. mem'.blocks = mem.blocks /\ Records(mem') = Records(mem) \cup {h} /\ mem'.birthday = mem.birthday
    BY <1>1, <2>1 DEF Wallets, Records
  <2>3. Within(mem')
    BY <1>1, <2>1, <2>2 DEF Within, ThreadWithin
  <2>4. /\ thr'[t].buf = thr[t].buf /\ thr'[t].goal = thr[t].goal
        /\ thr'[t].target = thr[t].target /\ thr'[t].todo = thr[t].todo \ {h}
        /\ \A u \in Threads : u # t => thr'[u] = thr[u]
    BY <2>1 DEF Shape, Stages
  <2>5. ThreadWithin(thr'[t])
    BY <1>1, <2>4 DEF ThreadWithin
  <2> QED BY <2>1, <2>3, <2>4, <2>5, ThreadKeepsHeights
<1>8. CASE BatchDone(t)
  <2>1. mem'.blocks = thr[t].target /\ Records(mem') = Records(mem) /\ mem'.birthday = mem.birthday
    BY <1>1, <1>8 DEF BatchDone, Wallets, Records
  <2>2. Within(mem')
    BY <1>1, <2>1 DEF Within, ThreadWithin
  <2> QED BY <1>4, <1>8, <2>2 DEF BatchDone
<1>9. CASE BatchFails(t)
  <2>1. /\ Records(mem') \subseteq Records(mem) /\ mem'.birthday = mem.birthday
        /\ mem'.blocks \in {mem.blocks, mem.blocks - 1, 0}
    <3>1. CASE mem.blocks = 0
      BY <1>9, <3>1 DEF BatchFails, Invalidated
    <3>2. CASE mem.blocks # 0
      BY <1>1, <1>9, <3>2 DEF BatchFails, Invalidated, Below, Records, Wallets
    <3> QED BY <3>1, <3>2
  <2>2. mem.blocks \in Nat
    BY <1>1 DEF Wallets
  <2>3. Within(mem')
    BY <1>1, <1>2, <2>1, <2>2 DEF Within
  <2> QED BY <1>3, <1>9, <2>3 DEF BatchFails
<1>10. CASE BatchNext(t)
  <2>1. UNCHANGED <<tip, mem, file>>
    BY <1>10 DEF BatchNext
  <2>2. CASE Returns(t)
    BY <1>1, <1>3, <2>1, <2>2
  <2>3. CASE thr' = [thr EXCEPT ![t].pc = "batch", ![t].target = Min({thr[t].goal, @ + BatchSize})]
    <3> DEFINE to == Min({thr[t].goal, thr[t].target + BatchSize})
    <3>1. to <= Highest
      BY <1>1, <1>2, MinOfTwo DEF ThreadWithin
    <3>2. thr' = [thr EXCEPT ![t].pc = "batch", ![t].target = to]
      BY <2>3 DEF Shape, Stages
    <3> HIDE DEF to
    <3>3. /\ thr'[t].buf = thr[t].buf /\ thr'[t].goal = thr[t].goal
          /\ thr'[t].target = to /\ thr'[t].todo = thr[t].todo
          /\ \A u \in Threads : u # t => thr'[u] = thr[u]
      BY <3>2 DEF Shape, Stages
    <3>4. ThreadWithin(thr'[t])
      BY <1>1, <3>1, <3>3 DEF ThreadWithin
    <3> QED BY <1>1, <2>1, <3>3, <3>4, ThreadKeepsHeights
  <2> QED BY <1>10, <2>2, <2>3 DEF BatchNext
\* A save copies heights of the wallet.
<1>11. ASSUME NEW b, NEW pc, Within(b), UNCHANGED <<tip, mem, file>>,
              thr' = [thr EXCEPT ![t] = [thr[t] EXCEPT !.pc = pc, !.buf = b]]
       PROVE  HeightsInv'
  <2>1. /\ thr'[t].buf = b /\ thr'[t].goal = thr[t].goal
        /\ thr'[t].target = thr[t].target /\ thr'[t].todo = thr[t].todo
        /\ \A u \in Threads : u # t => thr'[u] = thr[u]
    BY <1>1, <1>11 DEF Shape, Stages
  <2>2. ThreadWithin(thr'[t])
    BY <1>1, <1>11, <2>1 DEF ThreadWithin
  <2> QED BY <1>1, <1>11, <2>1, <2>2, ThreadKeepsHeights
<1>12. thr[t].buf \in Wallets /\ Within(thr[t].buf)
  BY <1>1 DEF Stages, ThreadWithin
<1>13. CASE WriteBlocks(t)
  <2> DEFINE b == [NoWallet EXCEPT !.made = mem.made, !.blocks = mem.blocks, !.base = mem.base]
  <2>1. /\ thr' = [thr EXCEPT ![t] = [thr[t] EXCEPT !.pc = "save records", !.buf = b]]
        /\ UNCHANGED <<tip, mem, file>>
    BY <1>13 DEF WriteBlocks
  <2>2. b.blocks = mem.blocks /\ Records(b) = {} /\ b.birthday = 0
    BY DEF NoWallet, Records
  <2> HIDE DEF b
  <2>3. Within(b)
    BY <1>1, <1>2, <2>2 DEF Within
  <2> QED BY <1>11, <2>1, <2>3
<1>14. CASE WriteRecords(t)
  <2> DEFINE b == [thr[t].buf EXCEPT !.recs = mem.recs, !.sent = mem.sent]
  <2>1. /\ thr' = [thr EXCEPT ![t] = [thr[t] EXCEPT !.pc = "save birthday", !.buf = b]]
        /\ UNCHANGED <<tip, mem, file>>
    BY <1>14 DEF WriteRecords
  <2>2. b.blocks = thr[t].buf.blocks /\ Records(b) = Records(mem) /\ b.birthday = thr[t].buf.birthday
    BY <1>12 DEF Wallets, Records
  <2> HIDE DEF b
  <2>3. Within(b)
    BY <1>1, <1>12, <2>2 DEF Within
  <2> QED BY <1>11, <2>1, <2>3
<1>15. CASE WriteBirthday(t)
  <2> DEFINE b == [thr[t].buf EXCEPT !.birthday = Birthday(mem)]
  <2>1. /\ thr' = [thr EXCEPT ![t] = [thr[t] EXCEPT !.pc = "create", !.buf = b]]
        /\ UNCHANGED <<tip, mem, file>>
    BY <1>15 DEF WriteBirthday
  <2>2. b.blocks = thr[t].buf.blocks /\ Records(b) = Records(thr[t].buf) /\ b.birthday = Birthday(mem)
    BY <1>12 DEF Wallets, Records
  <2> HIDE DEF b
  <2>3. Within(b)
    BY <1>1, <1>12, <2>2, BirthdayWithin DEF Within
  <2> QED BY <1>11, <2>1, <2>3
<1>16. CASE CreateFile(t)
  BY <1>1, <1>4, <1>16 DEF CreateFile, EmptyFile
<1>17. CASE CreateFails(t)
  <2>1. CASE Exit /\ UNCHANGED <<tip, file>>
    BY <2>1, NothingWithin DEF Exit
  <2>2. CASE Panics(t) /\ UNCHANGED <<tip, file, mem>>
    BY <1>1, <1>3, <2>2
  <2> QED BY <1>17, <2>1, <2>2 DEF CreateFails
<1>18. CASE WriteFile(t)
  <2>1. UNCHANGED <<tip, mem>> /\ (file' = file \/ file' = WholeFile(thr[t].buf))
    BY <1>18 DEF WriteFile, WholeFile
  <2>2. WholeFile(thr[t].buf).wallet = thr[t].buf
    BY DEF WholeFile
  <2>3. file'.state = "whole" => Within(file'.wallet)
    BY <1>12, <2>1, <2>2
  <2>4. CASE Returns(t)
    <3>1. /\ thr'[t].buf = NoWallet /\ thr'[t].goal = 0 /\ thr'[t].target = 0 /\ thr'[t].todo = {}
          /\ \A u \in Threads : u # t => thr'[u] = thr[u]
      BY <2>4 DEF Returns, Off, Shape
    <3> QED BY <1>1, <2>1, <2>3, <3>1, NothingWithin, ThreadKeepsHeights
  <2>5. CASE thr' = [thr EXCEPT ![t].pc = "batched", ![t].buf = NoWallet]
    <3>1. /\ thr'[t].buf = NoWallet /\ thr'[t].goal = thr[t].goal
          /\ thr'[t].target = thr[t].target /\ thr'[t].todo = thr[t].todo
          /\ \A u \in Threads : u # t => thr'[u] = thr[u]
      BY <2>5 DEF Shape, Stages
    <3>2. ThreadWithin(thr'[t])
      BY <1>1, <3>1, NothingWithin DEF ThreadWithin
    <3> QED BY <1>1, <2>1, <2>3, <3>1, <3>2, ThreadKeepsHeights
  <2> QED BY <1>18, <2>4, <2>5 DEF WriteFile
<1>19. CASE WriteFails(t)
  <2>1. CASE Exit /\ UNCHANGED <<tip, file>>
    BY <2>1, NothingWithin DEF Exit
  <2>2. CASE Panics(t) /\ UNCHANGED <<tip, file, mem>>
    BY <1>1, <1>3, <2>2
  <2> QED BY <1>19, <2>1, <2>2 DEF WriteFails
<1>20. CASE NoBlocksCome(t)
  BY <1>1, <1>4, <1>20 DEF NoBlocksCome
<1>21. CASE BatchPanics(t)
  <2>1. PICK found \in SUBSET thr[t].todo : mem' = [mem EXCEPT !.recs = @ \cup found]
    BY <1>21 DEF BatchPanics
  <2>2. mem'.blocks = mem.blocks /\ Records(mem') = Records(mem) \cup found /\ mem'.birthday = mem.birthday
    BY <1>1, <2>1 DEF Wallets, Records
  <2>3. Within(mem')
    BY <1>1, <2>1, <2>2 DEF Within, ThreadWithin
  <2> QED BY <1>3, <1>21, <2>3 DEF BatchPanics
<1> QED BY <1>5, <1>6, <1>7, <1>8, <1>9, <1>10, <1>13, <1>14, <1>15, <1>16, <1>17, <1>18, <1>19, <1>20,
           <1>21 DEF Sync, Save, Fail

\* Types, and heights never above the block after the last, for every chain that
\* starts below that and birthdays that are not above it (startup, start_sync).
THEOREM SessionTypes == HeightsGiven => (Spec => []TypeOK)
<1> SUFFICES ASSUME HeightsGiven PROVE Spec => []TypeOK
  OBVIOUS
<1>1. Init => HeightsInv
  <2> SUFFICES ASSUME Init PROVE HeightsInv
    OBVIOUS
  <2>1. tip = FirstTip /\ mem = NoWallet /\ file.state = "none" /\ \A t \in Threads : thr[t] = Off
    BY DEF Init, NoFile
  <2> QED BY <2>1, ShapeInit, NothingWithin DEF HeightsInv, HeightsGiven
<1>2. HeightsInv /\ [Next]_vars => HeightsInv'
  <2> SUFFICES ASSUME HeightsInv, [Next]_vars PROVE HeightsInv'
    OBVIOUS
  <2>1. Shape'
    BY ShapeStep DEF HeightsInv
  <2>2. CASE UNCHANGED vars
    BY <2>1, <2>2 DEF vars, HeightsInv
  <2>3. CASE Next
    BY <2>1, <2>3, HeightsPrompt, HeightsLoop, HeightsSync DEF Next
  <2> QED BY <2>2, <2>3
<1>3. HeightsInv => TypeOK
  <2> SUFFICES ASSUME HeightsInv PROVE TypeOK
    OBVIOUS
  <2>1. mem.blocks \in Nat /\ mem.blocks <= Highest /\ mem.recs \subseteq TxHeights
    BY DEF HeightsInv, Shape, Wallets, Within
  <2>2. mem.blocks \in 0 .. MaxTip + 1
    BY <2>1, SessionAssumption DEF Highest
  <2>3. file.state \in {"none", "empty", "whole"}
    <3>1. NoFile.state = "none" /\ EmptyFile.state = "empty" /\ \A w \in Wallets : WholeFile(w).state = "whole"
      BY DEF NoFile, EmptyFile, WholeFile
    <3> QED BY <3>1 DEF HeightsInv, Shape
  <2>4. ui.pc \in UiPcs /\ lock \in Threads \cup {"free"} /\ tip \in Nat
    BY DEF HeightsInv, Shape
  <2> QED BY <2>1, <2>2, <2>3, <2>4 DEF TypeOK, UiPcs
<1> QED BY <1>1, <1>2, <1>3, PTL DEF Spec
=============================================================================
