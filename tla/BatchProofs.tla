------------------------------ MODULE BatchProofs ------------------------------
(***************************************************************************)
(* Proofs about BatchSync, for every chain, window and batch size.         *)
(*                                                                         *)
(* BatchInv is about the two channels between the fetcher and the block    *)
(* manager: at each moment the blocks received, those under way and the    *)
(* next one to fetch have heights without gap (Stacked), and the height    *)
(* the manager waits for is the end of the range the fetcher works on      *)
(* (RangesAgree).  It holds with failing servers and changes of branch at  *)
(* any moment.                                                             *)
(*                                                                         *)
(* CalmInv is about what was recorded, for a server that changes its       *)
(* branch between batches and a batch that meets no failure.               *)
(***************************************************************************)
EXTENDS BatchSync, SequenceFacts

\* The block at height h of branch b, when the branches part above f.
At(f, h, b) == [height |-> h, branch |-> IF h =< f THEN 0 ELSE b]

\* The blocks of s go down one by one from the height top.
Stack(s, top) == \A i \in 1..Len(s) : s[i].height = top + 1 - i

\* The same for the compact blocks of a channel.
StackIn(s, top) == \A i \in 1..Len(s) : s[i].block.height = top + 1 - i

\* The height of the block that was fetched last.
LowOf(f, e) == IF f.pc = "done" THEN e ELSE f.next + 1

\* What has been received and is under way has no gap, down to the block
\* fetched last; the manager ends after the fetcher.
Stacked(c, s, f, e) ==
  /\ Stack(c, LowOf(f, e) + Len(s) + Len(c) - 1)
  /\ StackIn(s, LowOf(f, e) + Len(s) - 1)
  /\ (c # << >> \/ s # << >>) /\ f.pc # "done" => f.next + 1 >= f.end

\* An answer of the manager is under way to the fetcher, which has sent all of
\* its range; or the manager waits for the last block of that range.
RangesAgree(c, s, f, e, r) ==
  IF r = << >> THEN f.pc \in {"range", "wait"} => f.end = e
  ELSE /\ Len(r) = 1 /\ s = << >> /\ f.pc # "done" /\ f.next + 1 = f.end
       /\ c # << >>
       /\ f.end = (IF r[1] = 0 THEN e ELSE e + 1)
       /\ r[1] # 0 => r[1] = e

RunInv ==
  pc = "run" =>
    /\ expecting > 0
    /\ Stacked(current, incoming, fetcher, expecting)
    /\ RangesAgree(current, incoming, fetcher, expecting, reorgs)
    /\ fetcher.pc = "done" => incoming = << >>
    /\ manager = "done" => incoming = << >> /\ fetcher.pc \in {"done", "failed"}

\* The heights of the wallet's blocks, of the existing blocks of the batch, and
\* the server's.
HeightInv ==
  /\ Birthday =< fork /\ Birthday =< tip
  /\ blocks # << >> => Stack(blocks, blocks[1].height)
  /\ Stack(existing, expecting - 1)
  /\ \A i \in 1..Len(blocks) : blocks[i].height > 0
  /\ \A i \in 1..Len(existing) : existing[i].height > 0
  /\ fetcher.end > 0

\* The conjuncts of TypeOK but for the two flags, and these.
Types ==
  /\ fork \in Nat /\ tip \in Nat /\ active \in Branches /\ flips \in Nat
  /\ blocks \in Seq(Blocks) /\ scanned \subseteq Blocks
  /\ pc \in {"idle", "next", "run", "panicked"}
  /\ batches \in Seq(Nat)
  /\ outcome \in {"none", "success", "no success", "err"}
  /\ existing \in Seq(Blocks) /\ current \in Seq(Blocks)
  /\ expecting \in Nat
  /\ incoming \in Seq(CompactBlocks)
  /\ decrypt \subseteq Blocks
  /\ manager \in {"run", "done"}
  /\ fetcher \in [pc : {"range", "wait", "done", "failed"}, next : Nat, end : Nat]
  /\ reorgs \in Seq(Nat)

Flags == stable \in BOOLEAN /\ failed \in BOOLEAN

BatchInv == Types /\ HeightInv /\ RunInv
-----------------------------------------------------------------------------
\* All blocks of s are on branch b.
OnBranch(f, s, b) == \A i \in 1..Len(s) : s[i] = At(f, s[i].height, b)

\* Every block of branch b above the birthday and up to height h is recorded.
ScannedTo(f, sc, h, b) == \A k \in Nat : k > Birthday /\ k =< h => At(f, k, b) \in sc

\* The server can no longer leave its branch.
Deep(f, t) == t > f + MaxReorg

\* The blocks s down from the height h, on a branch b whose blocks are recorded:
\* those of the list reach down to where the branches part, unless the branch is final.
Held(f, t, a, s, sc, h, b) ==
  /\ OnBranch(f, s, b)
  /\ ScannedTo(f, sc, h, b)
  /\ h - Len(s) =< f \/ (Deep(f, t) /\ b = a)

\* A record comes from a block that both branches share, that the list s or c
\* holds, or that is final.
Accounted(f, t, a, s, c, sc) ==
  \A x \in sc : \/ x.height =< f /\ x.branch = 0
                \/ \E i \in 1..Len(s) : x = s[i]
                \/ \E i \in 1..Len(c) : x = c[i]
                \/ Deep(f, t) /\ x = At(f, x.height, a)

\* What a batch has fetched is on the server's branch, not above its tip, and waits
\* for the trial decryption; a batch whose first block is missing stays empty.
Fetched(f, t, a, c, s, d, sc, ft) ==
  /\ \A i \in 1..Len(c) : /\ c[i] = At(f, c[i].height, a) /\ c[i].height =< t
                          /\ c[i] \in d \/ (ft.pc = "done" /\ c[i] \in sc)
  /\ \A i \in 1..Len(s) : /\ s[i].block = At(f, s[i].block.height, a)
                          /\ s[i].prev = At(f, s[i].block.height - 1, a)
                          /\ s[i].block.height =< t /\ s[i].block \in d
  /\ \A x \in d : \/ \E i \in 1..Len(c) : x = c[i]
                  \/ \E i \in 1..Len(s) : x = s[i].block
  /\ ft.pc = "failed" => c = << >> /\ s = << >>
  /\ ft.pc = "range" => ft.next =< t \/ (c = << >> /\ s = << >>)

\* The top existing block is the server's, once the manager has said so.
Linked(f, a, s, ft, r) ==
  (ft.pc = "done" \/ (r # << >> /\ r[1] = 0)) /\ s # << >> => s[1] = At(f, s[1].height, a)

\* Between batches.
QuietInv ==
  pc \in {"idle", "next"} =>
    /\ \E b \in Branches : Held(fork, tip, active, blocks, scanned, LastSynced, b)
    /\ Accounted(fork, tip, active, blocks, << >>, scanned)
    /\ stable /\ outcome = "success" => OnBranch(fork, blocks, active)

\* In a batch.
InBatchInv ==
  pc = "run" =>
    /\ \E b \in Branches : Held(fork, tip, active, existing, scanned, expecting - 1, b)
    /\ Accounted(fork, tip, active, existing, current, scanned)
    /\ Fetched(fork, tip, active, current, incoming, decrypt, scanned, fetcher)
    /\ Linked(fork, active, existing, fetcher, reorgs)
    /\ current = << >> => existing = blocks /\ expecting = LastSynced + 1
    /\ ~failed

\* A sync does not end on the wallet's own height unless its blocks are the server's.
WorkLeft ==
  pc \in {"next", "run"} /\ stable =>
    \/ OnBranch(fork, blocks, active)
    \/ \A i \in 1..Len(batches) : batches[i] > LastSynced

CalmInv == QuietInv /\ InBatchInv /\ WorkLeft

\* A batch meets no failure, and the server changes its branch between batches only
\* and tells the hash of its latest block.
Calm == ~ MidBatch /\ ~ Faults /\ HashKnown
-----------------------------------------------------------------------------
(* Lemmas about blocks and batches *)

\* The assumptions about the constants that are numbers.
LEMMA Sizes ==
  /\ Activation \in Nat \ {0} /\ Birthday \in Nat \ {0} /\ BatchSize \in Nat \ {0}
  /\ MaxReorg \in Nat \ {0} /\ MaxHeight \in Nat /\ MaxFlips \in Nat /\ Activation =< Birthday
BY BatchAssumption


\* The quotient of two naturals.
LEMMA DivIsNat ==
  ASSUME NEW n \in Nat, NEW d \in Nat \ {0}
  PROVE  n \div d \in Nat
OBVIOUS

\* A positive multiple is at least as large.
LEMMA MultipleGrows ==
  ASSUME NEW i \in Nat \ {0}, NEW d \in Nat \ {0}
  PROVE  i * d \in Nat /\ i * d >= 1
OBVIOUS

\* The tops of the batches are heights, and above the height they start from
\* unless the wallet is at the server's tip.
LEMMA TopsAreHeights ==
  ASSUME tip \in Nat, NEW h \in Nat, h =< tip
  PROVE  /\ BatchTops(h) \in Seq(Nat)
         /\ tip # h => \A i \in 1..Len(BatchTops(h)) : BatchTops(h)[i] > h
<1> DEFINE n == IF tip = h THEN 1 ELSE (tip - h + BatchSize - 1) \div BatchSize
           top(i) == IF h + i * BatchSize =< tip THEN h + i * BatchSize ELSE tip
<1>0. BatchSize \in Nat \ {0}
  BY Sizes
<1>1. n \in Nat
  <2>1. CASE tip = h
    BY <2>1
  <2>2. CASE tip # h
    <3>1. tip - h + BatchSize - 1 \in Nat
      BY <1>0
    <3> QED BY <1>0, <2>2, <3>1, DivIsNat
  <2> QED BY <2>1, <2>2
<1>2. BatchTops(h) = [i \in 1..n |-> top(i)]
  BY DEF BatchTops
<1>3. ASSUME NEW i \in 1..n
      PROVE  top(i) \in Nat /\ (tip # h => top(i) > h)
  <2>1. i * BatchSize \in Nat /\ i * BatchSize >= 1
    BY <1>0, <1>1, MultipleGrows
  <2> DEFINE k == i * BatchSize
  <2> HIDE DEF k
  <2>2. top(i) = IF h + k =< tip THEN h + k ELSE tip
    BY DEF k
  <2>3. k \in Nat /\ k >= 1
    BY <2>1 DEF k
  <2> QED BY <2>2, <2>3
<1> HIDE DEF n, top
<1>4. BatchTops(h) \in Seq(Nat) /\ Len(BatchTops(h)) = n
  BY <1>1, <1>2, <1>3
<1> QED BY <1>1, <1>2, <1>3, <1>4

\* Popping a block.
LEMMA StackTail ==
  ASSUME NEW S, NEW s \in Seq(S), s # << >>, NEW t \in Int, Stack(s, t)
  PROVE  /\ Tail(s) \in Seq(S) /\ Len(Tail(s)) = Len(s) - 1
         /\ \A i \in 1..Len(Tail(s)) : Tail(s)[i] = s[i + 1]
         /\ Stack(Tail(s), t - 1)
         /\ s[1] \in S /\ Head(s) = s[1] /\ s[1].height = t
<1>1. /\ Tail(s) \in Seq(S) /\ Len(Tail(s)) = Len(s) - 1
      /\ \A i \in 1..(Len(s) - 1) : Tail(s)[i] = s[i + 1]
      /\ s[1] \in S /\ Head(s) = s[1] /\ Len(s) \in Nat \ {0}
  OBVIOUS
<1>2. ASSUME NEW i \in 1..Len(Tail(s))
      PROVE  Tail(s)[i].height = t - 1 + 1 - i
  <2>1. i + 1 \in 1..Len(s) /\ Tail(s)[i] = s[i + 1]
    BY <1>1
  <2>2. s[i + 1].height = t + 1 - (i + 1)
    BY <2>1 DEF Stack
  <2> QED BY <2>1, <2>2
<1> QED BY <1>1, <1>2 DEF Stack

\* Where a wallet has got to, before and after a block is popped.
LEMMA LastSyncedOf ==
  ASSUME Types, HeightInv
  PROVE  /\ LastSynced \in Nat
         /\ blocks # << >> => Head(blocks) = blocks[1] /\ LastSynced = blocks[1].height
         /\ blocks = << >> => LastSynced = Activation - 1
         /\ Stack(blocks, LastSynced)
<1>1. Activation - 1 \in Nat
  BY Sizes
<1>2. ASSUME blocks # << >>
      PROVE  Head(blocks) = blocks[1] /\ blocks[1].height \in Nat
  <2>0. blocks \in Seq(Blocks)
    BY DEF Types
  <2>1. blocks[1] \in Blocks /\ Head(blocks) = blocks[1]
    BY <1>2, <2>0
  <2> QED BY <2>1 DEF Blocks
<1>3. CASE blocks = << >>
  BY <1>1, <1>3 DEF LastSynced, Stack
<1>4. CASE blocks # << >>
  BY <1>2, <1>4 DEF LastSynced, HeightInv
<1> QED BY <1>3, <1>4
\* invalidate_block keeps the wallet's blocks in line, and takes one away.
LEMMA PoppedWallet ==
  ASSUME Types, HeightInv, InvalidateTop
  PROVE  /\ blocks' \in Seq(Blocks) /\ scanned' \subseteq Blocks
         /\ blocks' # << >> => Stack(blocks', blocks'[1].height)
         /\ \A i \in 1..Len(blocks') : blocks'[i].height > 0
         /\ blocks' # << >> => LastSynced' = blocks'[1].height /\ LastSynced' = LastSynced - 1
         /\ blocks' = << >> => LastSynced' = Activation - 1
         /\ LastSynced' \in Nat
<1>0. blocks \in Seq(Blocks) /\ scanned \subseteq Blocks
  BY DEF Types
<1>1. CASE blocks = << >>
  <2>1. blocks' = blocks /\ scanned' = scanned
    BY <1>1 DEF InvalidateTop, wallet
  <2>2. LastSynced' = LastSynced
    BY <2>1 DEF LastSynced
  <2> QED BY <1>0, <1>1, <2>1, <2>2, LastSyncedOf DEF HeightInv
<1>2. CASE blocks # << >>
  <2>1. blocks' = Tail(blocks) /\ scanned' \subseteq scanned
    BY <1>2 DEF InvalidateTop, Below
  <2>2. LastSynced \in Nat /\ Stack(blocks, LastSynced)
    BY LastSyncedOf
  <2>3. /\ Tail(blocks) \in Seq(Blocks) /\ Len(Tail(blocks)) = Len(blocks) - 1
        /\ \A i \in 1..Len(Tail(blocks)) : Tail(blocks)[i] = blocks[i + 1]
        /\ Stack(Tail(blocks), LastSynced - 1)
    BY <1>0, <1>2, <2>2, StackTail
  <2>4. ASSUME NEW i \in 1..Len(blocks')
        PROVE  blocks'[i].height > 0
    <3>1. i + 1 \in 1..Len(blocks) /\ blocks'[i] = blocks[i + 1]
      BY <1>0, <2>1, <2>3
    <3> QED BY <3>1 DEF HeightInv
  <2>5. Activation - 1 \in Nat
    BY Sizes
  <2>6. CASE blocks' = << >>
    <3>1. LastSynced' = Activation - 1
      BY <2>6 DEF LastSynced
    <3> QED BY <1>0, <2>1, <2>3, <2>4, <2>5, <2>6, <3>1
  <2>7. CASE blocks' # << >>
    <3>1. LastSynced' = Head(blocks').height
      BY <2>7 DEF LastSynced
    <3>2. Head(blocks') = blocks'[1] /\ blocks'[1] \in Blocks /\ 1 \in 1..Len(blocks')
      BY <2>1, <2>3, <2>7
    <3>3. blocks'[1].height \in Nat
      BY <3>2 DEF Blocks
    <3>4. blocks'[1].height = LastSynced - 1 + 1 - 1
      BY <2>1, <2>3, <3>2 DEF Stack
    <3>5. blocks'[1].height = LastSynced - 1
      BY <2>2, <3>4
    <3>6. Stack(blocks', blocks'[1].height)
      BY <2>1, <2>3, <3>5
    <3> QED BY <1>0, <2>1, <2>3, <2>4, <2>7, <3>1, <3>2, <3>3, <3>5, <3>6
  <2> QED BY <2>6, <2>7
<1> QED BY <1>1, <1>2
-----------------------------------------------------------------------------
(* The control of a batch *)

\* Initially.
LEMMA InitBatch == Init => BatchInv
<1> SUFFICES ASSUME Init PROVE BatchInv
  OBVIOUS
<1> USE Sizes
<1>0. Birthday \in Nat \ {0} /\ MaxHeight \in Nat
  OBVIOUS
<1>1. BlockAt(Birthday, 1) \in Blocks /\ BlockAt(Birthday, 1).height = Birthday
  BY <1>0 DEF BlockAt, Blocks, Branches
<1>2. blocks \in Seq(Blocks) /\ \A i \in 1..Len(blocks) : i = 1 /\ blocks[i].height = Birthday
  <2>1. CASE blocks = << >>
    BY <2>1
  <2>2. CASE blocks = <<BlockAt(Birthday, 1)>>
    BY <1>1, <2>2
  <2> QED BY <2>1, <2>2 DEF Init
<1>3. Types
  <2>1. fork \in Nat /\ tip \in Nat
    BY <1>0 DEF Init
  <2> QED BY <1>2, <2>1 DEF Init, Types, FetcherOff, Branches
<1>4. HeightInv
  BY <1>0, <1>2 DEF Init, HeightInv, Stack, FetcherOff
<1>5. RunInv
  BY DEF Init, RunInv
<1> QED BY <1>3, <1>4, <1>5 DEF BatchInv

\* The server mines a block.
LEMMA MineBatch == BatchInv /\ Mine => BatchInv'
<1> SUFFICES ASSUME BatchInv, Mine PROVE BatchInv'
  OBVIOUS
<1>1. tip \in Nat /\ tip' = tip + 1 /\ UNCHANGED <<fork, active, flips, blocks, scanned, pc, batches,
        outcome, stable, existing, current, expecting, incoming, decrypt, manager, fetcher, reorgs, failed>>
  BY DEF Mine, BatchInv, Types, wallet, main, batch
<1>2. Types'
  <2>1. tip' \in Nat
    BY <1>1
  <2> QED BY <1>1, <2>1 DEF BatchInv, Types, CompactBlocks
<1>3. Birthday =< tip'
  BY <1>1, Sizes DEF BatchInv, HeightInv
<1>4. HeightInv'
  BY <1>1, <1>3 DEF BatchInv, HeightInv
<1>5. RunInv'
  BY <1>1 DEF BatchInv, RunInv
<1> QED BY <1>2, <1>4, <1>5 DEF BatchInv

\* The server changes its branch.
LEMMA FlipBatch == BatchInv /\ Flip => BatchInv'
<1> SUFFICES ASSUME BatchInv, Flip PROVE BatchInv'
  OBVIOUS
<1>1. /\ tip \in Nat /\ fork \in Nat /\ flips \in Nat /\ active \in {1, 2} /\ active' = 3 - active
      /\ flips' = flips + 1 /\ stable' = FALSE
      /\ UNCHANGED <<fork, blocks, scanned, pc, batches, outcome, existing, current, expecting,
                     incoming, decrypt, manager, fetcher, reorgs, failed>>
  BY DEF Flip, BatchInv, Types, wallet, batch, Branches
<1>2. tip' \in Nat /\ tip' > fork
  <2>1. PICK h \in {tip - 1, tip, tip + 1} : h > fork /\ h =< MaxHeight /\ tip' = h
    BY DEF Flip
  <2> QED BY <1>1, <2>1
<1>3. active' \in Branches /\ flips' \in Nat
  BY <1>1 DEF Branches
<1>4. Types'
  BY <1>1, <1>2, <1>3 DEF BatchInv, Types
<1>5. Birthday =< tip'
  BY <1>1, <1>2, Sizes DEF BatchInv, HeightInv
<1>6. HeightInv'
  BY <1>1, <1>5 DEF BatchInv, HeightInv
<1>7. RunInv'
  BY <1>1 DEF BatchInv, RunInv
<1> QED BY <1>4, <1>6, <1>7 DEF BatchInv

\* A sync that is refused, and one that ends.
LEMMA IdleBatch == BatchInv /\ (SyncBehind \/ SyncDone) => BatchInv'
<1> SUFFICES ASSUME BatchInv, SyncBehind \/ SyncDone PROVE BatchInv'
  OBVIOUS
<1>1. /\ outcome' \in {"none", "success", "no success", "err"} /\ pc' = "idle"
      /\ UNCHANGED <<fork, tip, active, flips, blocks, scanned, batches, stable, existing, current,
                     expecting, incoming, decrypt, manager, fetcher, reorgs, failed>>
  BY DEF SyncBehind, SyncDone, BatchInv, Types, server, wallet, batch
<1>2. Types'
  BY <1>1 DEF BatchInv, Types
<1>3. HeightInv'
  BY <1>1 DEF BatchInv, HeightInv
<1>4. RunInv'
  BY <1>1 DEF BatchInv, RunInv
<1> QED BY <1>2, <1>3, <1>4 DEF BatchInv

\* A sync begins.
LEMMA StartBatchSync == BatchInv /\ StartSync => BatchInv'
<1> SUFFICES ASSUME BatchInv, StartSync PROVE BatchInv'
  OBVIOUS
<1>0. Types /\ HeightInv
  BY DEF BatchInv
<1>1. /\ pc' = "next" /\ outcome' = "none" /\ stable' = TRUE /\ batches' = BatchTops(LastSynced')
      /\ UNCHANGED <<fork, tip, active, flips, existing, current,
                     expecting, incoming, decrypt, manager, fetcher, reorgs, failed>>
      /\ tip >= LastSynced
  BY DEF StartSync, server, batch
<1>2. /\ blocks' \in Seq(Blocks) /\ scanned' \subseteq Blocks
      /\ blocks' # << >> => Stack(blocks', blocks'[1].height)
      /\ \A i \in 1..Len(blocks') : blocks'[i].height > 0
      /\ LastSynced' \in Nat /\ LastSynced' =< tip
  <2>1. CASE OneBlockReorg
    <3>1. InvalidateTop
      BY <2>1 DEF StartSync
    <3>2. LastSynced \in Nat /\ tip \in Nat
      BY <1>0, LastSyncedOf DEF Types
    <3>3. Activation - 1 =< tip
      BY <1>0, <3>2, Sizes DEF HeightInv
    <3>4. LastSynced' = LastSynced - 1 \/ LastSynced' = Activation - 1
      BY <1>0, <3>1, PoppedWallet
    <3>5. LastSynced' =< tip
      BY <1>1, <3>2, <3>3, <3>4, Sizes
    <3> QED BY <1>0, <3>1, <3>5, PoppedWallet
  <2>2. CASE ~ OneBlockReorg
    <3>1. blocks' = blocks /\ scanned' = scanned
      BY <2>2 DEF StartSync, wallet
    <3>2. LastSynced' = LastSynced
      BY <3>1 DEF LastSynced
    <3>3. LastSynced \in Nat /\ tip \in Nat
      BY <1>0, LastSyncedOf DEF Types
    <3> QED BY <1>0, <1>1, <3>1, <3>2, <3>3 DEF HeightInv, Types
  <2> QED BY <2>1, <2>2
<1>3. batches' \in Seq(Nat)
  <2>1. tip \in Nat
    BY <1>0 DEF Types
  <2> QED BY <1>1, <1>2, <2>1, TopsAreHeights
<1>4. Types'
  BY <1>0, <1>1, <1>2, <1>3 DEF Types
<1>5. HeightInv'
  BY <1>0, <1>1, <1>2 DEF HeightInv
<1>6. RunInv'
  BY <1>1 DEF RunInv
<1> QED BY <1>4, <1>5, <1>6 DEF BatchInv
\* The parts of the fetcher, and the lengths of the lists of a batch.
LEMMA Fields ==
  ASSUME Types
  PROVE  /\ fetcher.pc \in {"range", "wait", "done", "failed"} /\ fetcher.next \in Nat
         /\ fetcher.end \in Nat /\ expecting \in Nat /\ tip \in Nat /\ fork \in Nat
         /\ Len(incoming) \in Nat /\ Len(current) \in Nat /\ Len(existing) \in Nat
         /\ Len(reorgs) \in Nat /\ Len(blocks) \in Nat
<1>1. fetcher \in [pc : {"range", "wait", "done", "failed"}, next : Nat, end : Nat]
  BY DEF Types
<1>2. /\ fetcher.pc \in {"range", "wait", "done", "failed"} /\ fetcher.next \in Nat
      /\ fetcher.end \in Nat
  BY <1>1
<1>3. /\ incoming \in Seq(CompactBlocks) /\ current \in Seq(Blocks) /\ existing \in Seq(Blocks)
      /\ reorgs \in Seq(Nat) /\ blocks \in Seq(Blocks)
      /\ expecting \in Nat /\ tip \in Nat /\ fork \in Nat
  BY DEF Types
<1>4. /\ Len(incoming) \in Nat /\ Len(current) \in Nat /\ Len(existing) \in Nat
      /\ Len(reorgs) \in Nat /\ Len(blocks) \in Nat
  BY <1>3
<1> QED BY <1>2, <1>3, <1>4

\* The states a fetcher can be in.
FetcherStates == [pc : {"range", "wait", "done", "failed"}, next : Nat, end : Nat]

\* A new state of the fetcher.
LEMMA FetcherGoes ==
  ASSUME NEW p \in {"range", "wait", "done", "failed"}, NEW n \in Nat, NEW e \in Nat
  PROVE  /\ [pc |-> p, next |-> n, end |-> e] \in FetcherStates
         /\ [pc |-> p, next |-> n, end |-> e].pc = p
         /\ [pc |-> p, next |-> n, end |-> e].next = n
         /\ [pc |-> p, next |-> n, end |-> e].end = e
BY DEF FetcherStates

\* The batches that are left.
LEMMA BatchesLeft ==
  ASSUME Types, batches # << >>, batches' \in {Tail(batches), << >>}
  PROVE  /\ batches' \in Seq(Nat)
         /\ \A i \in 1..Len(batches') : i + 1 \in 1..Len(batches) /\ batches'[i] = batches[i + 1]
<1>1. batches \in Seq(Nat)
  BY DEF Types
<1>2. CASE batches' = << >>
  BY <1>2
<1>3. CASE batches' = Tail(batches)
  BY <1>1, <1>3
<1> QED BY <1>2, <1>3

\* A batch that has nothing to do.
LEMMA AlreadyBatch == BatchInv /\ AlreadySynced => BatchInv'
<1> SUFFICES ASSUME BatchInv, AlreadySynced PROVE BatchInv'
  OBVIOUS
<1>1. /\ pc' = "next" /\ outcome' = "success" /\ batches # << >> /\ batches' \in {Tail(batches), << >>}
      /\ UNCHANGED <<fork, tip, active, flips, blocks, scanned, stable, existing, current,
                     expecting, incoming, decrypt, manager, fetcher, reorgs, failed>>
  BY DEF AlreadySynced, BatchReturns, server, wallet, batch
<1>2. batches' \in Seq(Nat)
  BY <1>1, BatchesLeft DEF BatchInv
<1>3. Types'
  BY <1>1, <1>2 DEF BatchInv, Types
<1>4. HeightInv'
  BY <1>1 DEF BatchInv, HeightInv
<1>5. RunInv'
  BY <1>1 DEF RunInv
<1> QED BY <1>3, <1>4, <1>5 DEF BatchInv

\* A batch begins.
LEMMA BeginBatch == BatchInv /\ StartBatch => BatchInv'
<1> SUFFICES ASSUME BatchInv, StartBatch PROVE BatchInv'
  OBVIOUS
<1>0. Types /\ HeightInv
  BY DEF BatchInv
<1>1. /\ pc' = "run" /\ existing' = blocks /\ current' = << >> /\ expecting' = LastSynced + 1
      /\ incoming' = << >> /\ decrypt' = {} /\ manager' = "run" /\ reorgs' = << >>
      /\ fetcher' = [pc |-> "range", next |-> Head(batches), end |-> LastSynced + 1]
      /\ UNCHANGED <<fork, tip, active, flips, blocks, scanned, batches, outcome, stable>>
      /\ batches # << >>
  BY DEF StartBatch, server, wallet
<1>2. LastSynced \in Nat /\ Stack(blocks, LastSynced)
  BY <1>0, LastSyncedOf
<1>3. Head(batches) \in Nat
  <2>1. batches \in Seq(Nat)
    BY <1>0 DEF Types
  <2> QED BY <1>1, <2>1
<1> DEFINE e == LastSynced
<1>4. e \in Nat /\ Stack(blocks, e) /\ expecting' = e + 1
      /\ fetcher' = [pc |-> "range", next |-> Head(batches), end |-> e + 1]
  BY <1>1, <1>2
<1> HIDE DEF e
<1>5. e + 1 \in Nat /\ e + 1 > 0 /\ (e + 1) - 1 = e
  BY <1>4
<1>6. Types'
  <2>1. fetcher' \in FetcherStates
    BY <1>3, <1>4, <1>5, FetcherGoes
  <2>2. /\ current' \in Seq(Blocks) /\ incoming' \in Seq(CompactBlocks) /\ reorgs' \in Seq(Nat)
        /\ expecting' \in Nat
    BY <1>1, <1>4, <1>5
  <2> QED BY <1>0, <1>1, <2>1, <2>2 DEF Types, FetcherStates
<1>7. HeightInv'
  BY <1>0, <1>1, <1>4, <1>5 DEF HeightInv
<1>8. RunInv'
  BY <1>1, <1>4, <1>5 DEF RunInv, Stacked, Stack, StackIn, RangesAgree
<1> QED BY <1>6, <1>7, <1>8 DEF BatchInv

\* Receiving from a channel of compact blocks in line.
LEMMA StackInTail ==
  ASSUME NEW S, NEW s \in Seq(S), s # << >>, NEW t \in Int, StackIn(s, t)
  PROVE  /\ Tail(s) \in Seq(S) /\ Len(Tail(s)) = Len(s) - 1 /\ StackIn(Tail(s), t - 1)
         /\ \A i \in 1..Len(Tail(s)) : i + 1 \in 1..Len(s) /\ Tail(s)[i] = s[i + 1]
         /\ s[1] \in S /\ Head(s) = s[1] /\ s[1].block.height = t
<1>1. /\ Tail(s) \in Seq(S) /\ Len(Tail(s)) = Len(s) - 1
      /\ \A i \in 1..(Len(s) - 1) : Tail(s)[i] = s[i + 1]
      /\ s[1] \in S /\ Head(s) = s[1] /\ Len(s) \in Nat \ {0}
  OBVIOUS
<1>2. ASSUME NEW i \in 1..Len(Tail(s))
      PROVE  Tail(s)[i].block.height = t - 1 + 1 - i /\ i + 1 \in 1..Len(s)
  <2>1. i + 1 \in 1..Len(s) /\ Tail(s)[i] = s[i + 1]
    BY <1>1
  <2>2. s[i + 1].block.height = t + 1 - (i + 1)
    BY <2>1 DEF StackIn
  <2> QED BY <2>1, <2>2
<1>3. s[1].block.height = t
  BY <1>1 DEF StackIn
<1> QED BY <1>1, <1>2, <1>3 DEF StackIn

\* Sending the next compact block.
LEMMA StackInAppend ==
  ASSUME NEW S, NEW s \in Seq(S), NEW t \in Int, StackIn(s, t),
         NEW x \in S, x.block.height = t - Len(s)
  PROVE  Append(s, x) \in Seq(S) /\ Len(Append(s, x)) = Len(s) + 1 /\ StackIn(Append(s, x), t)
<1>1. /\ Append(s, x) \in Seq(S) /\ Len(Append(s, x)) = Len(s) + 1 /\ Len(s) \in Nat
      /\ \A i \in 1..(Len(s) + 1) : Append(s, x)[i] = IF i = Len(s) + 1 THEN x ELSE s[i]
  OBVIOUS
<1>2. ASSUME NEW i \in 1..(Len(s) + 1)
      PROVE  Append(s, x)[i].block.height = t + 1 - i
  <2>1. CASE i = Len(s) + 1
    BY <1>1, <2>1
  <2>2. CASE i # Len(s) + 1
    <3>1. i \in 1..Len(s) /\ Append(s, x)[i] = s[i]
      BY <1>1, <2>2
    <3> QED BY <3>1 DEF StackIn
  <2> QED BY <2>1, <2>2
<1> QED BY <1>1, <1>2 DEF StackIn

\* Adding the next block to the batch.
LEMMA StackAppend ==
  ASSUME NEW S, NEW s \in Seq(S), NEW t \in Int, Stack(s, t), NEW x \in S, x.height = t - Len(s)
  PROVE  Append(s, x) \in Seq(S) /\ Len(Append(s, x)) = Len(s) + 1 /\ Stack(Append(s, x), t)
<1>1. /\ Append(s, x) \in Seq(S) /\ Len(Append(s, x)) = Len(s) + 1 /\ Len(s) \in Nat
      /\ \A i \in 1..(Len(s) + 1) : Append(s, x)[i] = IF i = Len(s) + 1 THEN x ELSE s[i]
  OBVIOUS
<1>2. ASSUME NEW i \in 1..(Len(s) + 1)
      PROVE  Append(s, x)[i].height = t + 1 - i
  <2>1. CASE i = Len(s) + 1
    BY <1>1, <2>1
  <2>2. CASE i # Len(s) + 1
    <3>1. i \in 1..Len(s) /\ Append(s, x)[i] = s[i]
      BY <1>1, <2>2
    <3> QED BY <3>1 DEF Stack
  <2> QED BY <2>1, <2>2
<1> QED BY <1>1, <1>2 DEF Stack

\* What the server sends for a height above 0.
LEMMA CompactBlockOf ==
  ASSUME Types, NEW h \in Nat \ {0}
  PROVE  /\ CompactBlock(h) \in CompactBlocks
         /\ CompactBlock(h).block = At(fork, h, active) /\ CompactBlock(h).prev = At(fork, h - 1, active)
         /\ At(fork, h, active) \in Blocks /\ At(fork, h, active).height = h
<1>1. fork \in Nat /\ active \in Branches
  BY DEF Types
<1>2. ASSUME NEW k \in Nat
      PROVE  At(fork, k, active) \in Blocks /\ At(fork, k, active).height = k
             /\ BlockAt(k, active) = At(fork, k, active)
  BY <1>1 DEF At, Blocks, BlockAt
<1>3. h - 1 \in Nat
  OBVIOUS
<1> QED BY <1>2, <1>3 DEF CompactBlock, CompactBlocks

\* The fetcher fetches a block.
LEMMA FetchBatch == BatchInv /\ FetchBlock => BatchInv'
<1> SUFFICES ASSUME BatchInv, FetchBlock PROVE BatchInv'
  OBVIOUS
<1>0. Types /\ HeightInv /\ pc = "run" /\ RunInv
  BY DEF BatchInv, FetchBlock
<1> DEFINE h == fetcher.next
<1>1. /\ incoming' = Append(incoming, CompactBlock(h))
      /\ decrypt' = decrypt \cup {BlockAt(h, active)}
      /\ fetcher' = [fetcher EXCEPT !.next = @ - 1] /\ fetcher.pc = "range" /\ h >= fetcher.end
      /\ UNCHANGED <<fork, tip, active, flips, blocks, scanned, pc, batches, outcome, stable,
                     existing, current, expecting, manager, reorgs, failed>>
  BY DEF FetchBlock, server, wallet, main
<1>2. h \in Nat \ {0} /\ fetcher.end \in Nat
  BY <1>0, <1>1, Fields DEF HeightInv
<1>3. /\ fetcher'.pc = "range" /\ fetcher'.next = h - 1 /\ fetcher'.end = fetcher.end
      /\ fetcher' \in FetcherStates
  <2>1. fetcher \in FetcherStates
    BY <1>0 DEF Types, FetcherStates
  <2>2. h - 1 \in Nat
    BY <1>2
  <2> QED BY <1>1, <2>1, <2>2 DEF FetcherStates
<1>4. /\ CompactBlock(h) \in CompactBlocks /\ CompactBlock(h).block.height = h
      /\ BlockAt(h, active) \in Blocks
  BY <1>0, <1>2, CompactBlockOf DEF At, BlockAt
<1> HIDE DEF h
<1>5. /\ Stack(current, LowOf(fetcher, expecting) + Len(incoming) + Len(current) - 1)
      /\ StackIn(incoming, LowOf(fetcher, expecting) + Len(incoming) - 1)
      /\ reorgs = << >> /\ fetcher.end = expecting
  <2>1. Stacked(current, incoming, fetcher, expecting)
        /\ RangesAgree(current, incoming, fetcher, expecting, reorgs)
    BY <1>0 DEF RunInv
  <2>2. reorgs = << >>
    BY <1>1, <1>2, <2>1 DEF RangesAgree, h
  <2> QED BY <1>1, <2>1, <2>2 DEF Stacked, RangesAgree
<1>6. /\ LowOf(fetcher, expecting) = h + 1 /\ LowOf(fetcher', expecting) = h
      /\ Len(incoming) \in Nat /\ incoming \in Seq(CompactBlocks) /\ Len(current) \in Nat
  <2>1. incoming \in Seq(CompactBlocks)
    BY <1>0 DEF Types
  <2> QED BY <1>0, <1>1, <1>2, <1>3, <2>1, Fields DEF LowOf, h
<1>7. /\ incoming' \in Seq(CompactBlocks) /\ Len(incoming') = Len(incoming) + 1
      /\ StackIn(incoming', h + Len(incoming') - 1) /\ incoming' # << >>
  <2> DEFINE x == CompactBlock(h)
             t == LowOf(fetcher, expecting) + Len(incoming) - 1
  <2>1. x \in CompactBlocks /\ x.block.height = h /\ StackIn(incoming, t)
        /\ incoming' = Append(incoming, x)
    BY <1>1, <1>4, <1>5
  <2>2. t \in Int /\ h = t - Len(incoming) /\ t = h + Len(incoming)
    BY <1>2, <1>6
  <2> HIDE DEF x, t
  <2>3. /\ incoming' \in Seq(CompactBlocks) /\ Len(incoming') = Len(incoming) + 1
        /\ StackIn(incoming', h + Len(incoming))
    <3>1. x.block.height = t - Len(incoming)
      BY <2>1, <2>2
    <3>2. /\ Append(incoming, x) \in Seq(CompactBlocks)
          /\ Len(Append(incoming, x)) = Len(incoming) + 1 /\ StackIn(Append(incoming, x), t)
      BY <1>6, <2>1, <2>2, <3>1, StackInAppend
    <3> QED BY <2>1, <2>2, <3>2
  <2>4. h + Len(incoming') - 1 = h + Len(incoming) /\ Len(incoming') # 0
    BY <1>2, <1>6, <2>3
  <2>5. incoming' # << >>
    BY <2>4
  <2> QED BY <2>3, <2>4, <2>5
<1>8. Stack(current, h + Len(incoming') + Len(current) - 1)
  <2>1. h + Len(incoming') + Len(current) - 1
          = LowOf(fetcher, expecting) + Len(incoming) + Len(current) - 1
    BY <1>2, <1>6, <1>7
  <2> QED BY <1>5, <2>1
<1>9. Types'
  BY <1>0, <1>1, <1>3, <1>4, <1>7 DEF Types, FetcherStates
<1>10. HeightInv'
  BY <1>0, <1>1, <1>3 DEF HeightInv
<1>11. RunInv'
  <2>1. Stacked(current, incoming', fetcher', expecting)
    BY <1>1, <1>2, <1>3, <1>6, <1>7, <1>8 DEF Stacked
  <2>2. RangesAgree(current, incoming', fetcher', expecting, reorgs)
    BY <1>3, <1>5 DEF RangesAgree
  <2>3. manager # "done" /\ expecting > 0
    BY <1>0, <1>1 DEF RunInv
  <2> QED BY <1>1, <1>3, <2>1, <2>2, <2>3 DEF RunInv
<1> QED BY <1>9, <1>10, <1>11 DEF BatchInv
\* The stream ends, or breaks.
LEMMA StreamBatch == BatchInv /\ (StreamEnds \/ FetchFails) => BatchInv'
<1> SUFFICES ASSUME BatchInv, StreamEnds \/ FetchFails PROVE BatchInv'
  OBVIOUS
<1>0. Types /\ HeightInv /\ pc = "run" /\ RunInv
  BY DEF BatchInv, StreamEnds, FetchFails
<1>1. PICK p \in {"wait", "failed"} : fetcher' = [fetcher EXCEPT !.pc = p]
  BY DEF StreamEnds, FetchFails
<1>2. /\ fetcher.pc = "range"
      /\ UNCHANGED <<fork, tip, active, flips, blocks, scanned, pc, batches, outcome, stable,
                     existing, current, expecting, incoming, decrypt, manager, reorgs, failed>>
  BY DEF StreamEnds, FetchFails, server, wallet, main
<1>3. /\ fetcher'.pc \in {"wait", "failed"} /\ fetcher'.next = fetcher.next
      /\ fetcher'.end = fetcher.end /\ fetcher' \in FetcherStates
  <2>1. fetcher \in FetcherStates
    BY <1>0 DEF Types, FetcherStates
  <2> QED BY <1>1, <2>1 DEF FetcherStates
<1>4. Types'
  BY <1>0, <1>2, <1>3 DEF Types, FetcherStates
<1>5. HeightInv'
  BY <1>0, <1>2, <1>3 DEF HeightInv
<1>6. RunInv'
  <2>1. LowOf(fetcher', expecting) = LowOf(fetcher, expecting)
    BY <1>2, <1>3 DEF LowOf
  <2>2. Stacked(current, incoming, fetcher', expecting)
    BY <1>0, <1>2, <1>3, <2>1 DEF RunInv, Stacked
  <2>3. RangesAgree(current, incoming, fetcher', expecting, reorgs)
    BY <1>0, <1>2, <1>3 DEF RunInv, RangesAgree
  <2>4. manager # "done" /\ expecting > 0
    BY <1>0, <1>2 DEF RunInv
  <2> QED BY <1>2, <1>3, <2>2, <2>3, <2>4 DEF RunInv
<1> QED BY <1>4, <1>5, <1>6 DEF BatchInv

\* What is true of an answer of the manager when it arrives.
LEMMA AnswerArrives ==
  ASSUME BatchInv, ReceiveReorg
  PROVE  /\ reorgs' = << >> /\ incoming = << >> /\ fetcher.next + 1 = fetcher.end
         /\ reorgs[1] = 0 => fetcher' = FetcherOff /\ fetcher.end = expecting
         /\ reorgs[1] # 0 => /\ fetcher' = [pc |-> "range", next |-> expecting, end |-> expecting]
                              /\ fetcher.end = expecting + 1 /\ expecting > 0
         /\ fetcher.pc = "wait" /\ Head(reorgs) = reorgs[1] /\ reorgs # << >> /\ current # << >>
         /\ UNCHANGED <<fork, tip, active, flips, blocks, scanned, pc, batches, outcome, stable,
                     existing, current, expecting, incoming, decrypt, manager, failed>>
         /\ pc = "run"
<1>1. Types /\ pc = "run" /\ RunInv /\ reorgs # << >> /\ fetcher.pc = "wait"
  BY DEF BatchInv, ReceiveReorg
<1>2. /\ fetcher' = IF Head(reorgs) = 0 THEN FetcherOff
                ELSE [pc |-> "range", next |-> Head(reorgs), end |-> Head(reorgs)]
      /\ reorgs' = Tail(reorgs)
      /\ UNCHANGED <<fork, tip, active, flips, blocks, scanned, pc, batches, outcome, stable,
                     existing, current, expecting, incoming, decrypt, manager, failed>>
  BY DEF ReceiveReorg, server, wallet, main
<1>3. RangesAgree(current, incoming, fetcher, expecting, reorgs) /\ expecting > 0
  BY <1>1 DEF RunInv
<1>4. reorgs \in Seq(Nat)
  BY <1>1 DEF Types
<1>5. /\ Len(reorgs) = 1 /\ incoming = << >> /\ fetcher.next + 1 = fetcher.end /\ current # << >>
      /\ fetcher.end = (IF reorgs[1] = 0 THEN expecting ELSE expecting + 1)
      /\ reorgs[1] # 0 => reorgs[1] = expecting
  BY <1>1, <1>3 DEF RangesAgree
<1>6. Head(reorgs) = reorgs[1] /\ Tail(reorgs) = << >>
  <2>0. reorgs # << >> /\ Len(reorgs) = 1
    BY <1>1, <1>5
  <2>1. Head(reorgs) = reorgs[1] /\ Tail(reorgs) \in Seq(Nat) /\ Len(Tail(reorgs)) = Len(reorgs) - 1
    BY <1>4, <2>0
  <2>2. Len(Tail(reorgs)) = 0
    BY <2>0, <2>1
  <2> QED BY <2>1, <2>2, EmptySeq
<1>7. /\ reorgs[1] = 0 => fetcher' = FetcherOff /\ fetcher.end = expecting
      /\ reorgs[1] # 0 => /\ fetcher' = [pc |-> "range", next |-> expecting, end |-> expecting]
                           /\ fetcher.end = expecting + 1 /\ expecting > 0
  BY <1>2, <1>3, <1>5, <1>6
<1>8. reorgs' = << >>
  BY <1>2, <1>6
<1> QED BY <1>1, <1>2, <1>5, <1>6, <1>7, <1>8

\* The fetcher receives an answer of the manager.
LEMMA AnswerBatch == BatchInv /\ ReceiveReorg => BatchInv'
<1> SUFFICES ASSUME BatchInv, ReceiveReorg PROVE BatchInv'
  OBVIOUS
<1>0. Types /\ HeightInv /\ pc = "run" /\ RunInv
  BY DEF BatchInv, ReceiveReorg
<1>1. /\ reorgs' = << >> /\ incoming = << >> /\ fetcher.next + 1 = fetcher.end
      /\ UNCHANGED <<fork, tip, active, flips, blocks, scanned, pc, batches, outcome, stable,
                     existing, current, expecting, incoming, decrypt, manager, failed>>
      /\ fetcher.pc = "wait"
  BY AnswerArrives
<1>2. /\ fetcher' \in FetcherStates /\ fetcher'.end > 0
      /\ LowOf(fetcher', expecting) = LowOf(fetcher, expecting)
      /\ fetcher'.pc # "done" => fetcher'.pc = "range" /\ fetcher'.end = expecting
                                 /\ fetcher'.next + 1 >= fetcher'.end
  <2>0. expecting \in Nat /\ fetcher.next \in Nat
    BY <1>0, Fields
  <2>1. CASE reorgs[1] = 0
    <3>1. fetcher' = FetcherOff /\ fetcher.end = expecting
      BY <2>1, AnswerArrives
    <3>2. fetcher' \in FetcherStates /\ fetcher'.pc = "done" /\ fetcher'.end = 1
      BY <3>1 DEF FetcherOff, FetcherStates
    <3> QED BY <1>1, <2>0, <3>1, <3>2 DEF LowOf
  <2>2. CASE reorgs[1] # 0
    <3>1. fetcher' = [pc |-> "range", next |-> expecting, end |-> expecting]
          /\ fetcher.end = expecting + 1 /\ expecting > 0
      BY <2>2, AnswerArrives
    <3>2. fetcher' \in FetcherStates /\ fetcher'.pc = "range" /\ fetcher'.next = expecting
          /\ fetcher'.end = expecting
      BY <2>0, <3>1, FetcherGoes
    <3> QED BY <1>1, <2>0, <3>1, <3>2 DEF LowOf
  <2> QED BY <2>1, <2>2
<1>3. Types'
  <2>1. reorgs' \in Seq(Nat)
    BY <1>1
  <2> QED BY <1>0, <1>1, <1>2, <2>1 DEF Types, FetcherStates
<1>4. HeightInv'
  BY <1>0, <1>1, <1>2 DEF HeightInv
<1>5. RunInv'
  <2>1. Stacked(current, incoming, fetcher', expecting)
    BY <1>0, <1>1, <1>2 DEF RunInv, Stacked
  <2>2. RangesAgree(current, incoming, fetcher', expecting, reorgs')
    BY <1>1, <1>2 DEF RangesAgree
  <2>3. manager # "done" /\ expecting > 0
    BY <1>0, <1>1 DEF RunInv
  <2> QED BY <1>1, <2>1, <2>2, <2>3 DEF RunInv
<1> QED BY <1>3, <1>4, <1>5 DEF BatchInv
\* The block that is received is not the one the manager waits for.
Passes ==
  /\ incoming[1].block.height # expecting
  /\ UNCHANGED <<existing, scanned, expecting, reorgs, pc>>

\* It is, and follows the top existing block, or there is none.
Follows ==
  /\ incoming[1].block.height = expecting
  /\ existing = << >> \/ existing[1] = incoming[1].prev
  /\ UNCHANGED <<existing, scanned, expecting>> /\ reorgs' = <<0>>

\* It is, and does not: the existing block is popped.
Pops ==
  /\ incoming[1].block.height = expecting
  /\ existing # << >> /\ existing[1].height = expecting - 1 /\ expecting - 1 > 0
  /\ existing' = Tail(existing) /\ expecting' = expecting - 1 /\ reorgs' = <<expecting - 1>>
  /\ scanned' = {x \in scanned : x.height < expecting - 1}

\* The manager receives a block: what was in the channel, and the three cases.
LEMMA BlockReceived ==
  ASSUME BatchInv, ReceiveBlock
  PROVE  /\ incoming[1] \in CompactBlocks /\ incoming[1].block \in Blocks
         /\ incoming' = Tail(incoming) /\ current' = Append(current, incoming[1].block)
         /\ Len(incoming') = Len(incoming) - 1 /\ incoming' \in Seq(CompactBlocks)
         /\ \A i \in 1..Len(incoming') : i + 1 \in 1..Len(incoming) /\ incoming'[i] = incoming[i + 1]
         /\ UNCHANGED <<fork, tip, active, flips, blocks, batches, outcome, stable, decrypt, manager,
                        fetcher, failed>>
         /\ fetcher.pc # "done" /\ reorgs = << >> /\ pc = "run" /\ incoming # << >> /\ manager # "done"
         /\ StackIn(incoming, fetcher.next + Len(incoming))
         /\ incoming[1].block.height = fetcher.next + Len(incoming)
         /\ Stack(current, fetcher.next + Len(incoming) + Len(current))
         /\ fetcher.next + 1 >= fetcher.end
         /\ Passes \/ Follows \/ Pops
         /\ pc' \in {"run", "panicked"} /\ (pc' = "run" /\ ~ Passes => fetcher.pc \in {"range", "wait"})
<1>0. Types /\ HeightInv /\ RunInv /\ pc = "run" /\ manager # "done" /\ incoming # << >>
  BY DEF BatchInv, ReceiveBlock
<1>1. /\ incoming' = Tail(incoming)
      /\ UNCHANGED <<fork, tip, active, flips, blocks, batches, outcome, stable, decrypt, manager,
                     fetcher, failed>>
      /\ current' = Append(current, Head(incoming).block)
      /\ IF Head(incoming).block.height = expecting
            THEN ExpectedBlock(Head(incoming)) /\ pc' = IF FetchEnded THEN "panicked" ELSE pc
            ELSE UNCHANGED <<existing, scanned, expecting, reorgs, pc>>
  BY DEF ReceiveBlock, server
<1>2. /\ fetcher.pc # "done" /\ reorgs = << >>
      /\ Stacked(current, incoming, fetcher, expecting)
  BY <1>0 DEF RunInv, RangesAgree
<1>3. /\ fetcher.next \in Nat /\ fetcher.end \in Nat /\ Len(incoming) \in Nat /\ Len(current) \in Nat
      /\ expecting \in Nat /\ fetcher.pc \in {"range", "wait", "done", "failed"}
  BY <1>0, Fields
<1>4. /\ LowOf(fetcher, expecting) = fetcher.next + 1
      /\ fetcher.next + 1 + Len(incoming) + Len(current) - 1 = fetcher.next + Len(incoming) + Len(current)
      /\ fetcher.next + 1 + Len(incoming) - 1 = fetcher.next + Len(incoming)
  BY <1>2, <1>3 DEF LowOf
<1>5. /\ Stack(current, fetcher.next + Len(incoming) + Len(current))
      /\ StackIn(incoming, fetcher.next + Len(incoming))
      /\ fetcher.next + 1 >= fetcher.end
  <2>1. /\ Stack(current, fetcher.next + 1 + Len(incoming) + Len(current) - 1)
        /\ StackIn(incoming, fetcher.next + 1 + Len(incoming) - 1)
        /\ fetcher.next + 1 >= fetcher.end
    BY <1>0, <1>2, <1>4 DEF Stacked
  <2> QED BY <1>4, <2>1
<1>6. incoming \in Seq(CompactBlocks) /\ existing \in Seq(Blocks)
  BY <1>0 DEF Types
<1>7. /\ Tail(incoming) \in Seq(CompactBlocks) /\ Len(Tail(incoming)) = Len(incoming) - 1
      /\ \A i \in 1..Len(Tail(incoming)) : i + 1 \in 1..Len(incoming) /\ Tail(incoming)[i] = incoming[i + 1]
      /\ incoming[1] \in CompactBlocks /\ Head(incoming) = incoming[1]
      /\ incoming[1].block.height = fetcher.next + Len(incoming)
  <2> DEFINE t == fetcher.next + Len(incoming)
  <2>1. t \in Int /\ StackIn(incoming, t)
    BY <1>3, <1>5
  <2> HIDE DEF t
  <2>2. /\ Tail(incoming) \in Seq(CompactBlocks) /\ Len(Tail(incoming)) = Len(incoming) - 1
        /\ \A i \in 1..Len(Tail(incoming)) : i + 1 \in 1..Len(incoming) /\ Tail(incoming)[i] = incoming[i + 1]
        /\ incoming[1] \in CompactBlocks /\ Head(incoming) = incoming[1]
        /\ incoming[1].block.height = t
    BY <1>0, <1>6, <2>1, StackInTail
  <2> QED BY <2>2 DEF t
<1>8. incoming[1].block \in Blocks
  BY <1>7 DEF CompactBlocks
<1>9. Passes \/ Follows \/ Pops
  <2>1. CASE incoming[1].block.height # expecting
    BY <1>1, <1>7, <2>1 DEF Passes
  <2>2. CASE incoming[1].block.height = expecting
    <3> DEFINE r == ReorgHeight(incoming[1])
    <3>1. /\ IF r = 0 THEN UNCHANGED <<existing, scanned, expecting>>
             ELSE /\ existing' = Tail(existing) /\ scanned' = Below(r) /\ expecting' = r
          /\ reorgs' = Append(reorgs, r)
      BY <1>1, <1>7, <2>2 DEF ExpectedBlock
    <3>2. ASSUME existing # << >>
          PROVE  /\ Head(existing) = existing[1] /\ existing[1].height = expecting - 1 /\ existing[1].height > 0
                 /\ existing[1].height \in Nat
      <4>1. Head(existing) = existing[1] /\ existing[1] \in Blocks /\ 1 \in 1..Len(existing)
        BY <1>6, <3>2
      <4>2. existing[1].height = expecting - 1 + 1 - 1 /\ existing[1].height > 0
        BY <1>0, <4>1 DEF HeightInv, Stack
      <4>3. existing[1].height \in Nat
        BY <4>1 DEF Blocks
      <4> QED BY <1>3, <4>1, <4>2, <4>3
    <3>3. CASE existing = << >> \/ existing[1] = incoming[1].prev
      <4>1. r = 0
        BY <3>2, <3>3 DEF ReorgHeight
      <4>2. Append(reorgs, 0) = <<0>>
        BY <1>2
      <4> QED BY <2>2, <3>1, <3>3, <4>1, <4>2 DEF Follows
    <3>4. CASE ~ (existing = << >> \/ existing[1] = incoming[1].prev)
      <4>1. r = expecting - 1 /\ r # 0 /\ existing # << >> /\ existing[1].height = expecting - 1 /\ expecting - 1 > 0
        BY <1>3, <3>2, <3>4 DEF ReorgHeight
      <4> HIDE DEF r
      <4>2. Append(reorgs, r) = <<r>>
        BY <1>2
      <4>3. /\ existing' = Tail(existing) /\ scanned' = Below(r) /\ expecting' = r /\ reorgs' = <<r>>
        BY <3>1, <4>1, <4>2
      <4> QED BY <2>2, <4>1, <4>3 DEF Pops, Below
    <3> QED BY <3>3, <3>4
  <2> QED BY <2>1, <2>2
<1>10. pc' \in {"run", "panicked"} /\ (pc' = "run" /\ ~ Passes => fetcher.pc \in {"range", "wait"})
  <2>1. CASE incoming[1].block.height # expecting
    BY <1>0, <1>1, <1>7, <2>1 DEF Passes
  <2>2. CASE incoming[1].block.height = expecting
    BY <1>0, <1>1, <1>2, <1>3, <1>7, <2>2 DEF FetchEnded
  <2> QED BY <2>1, <2>2
<1> QED BY <1>0, <1>1, <1>2, <1>5, <1>7, <1>8, <1>9, <1>10

\* The l blocks above height n that end at height e, no lower than n + 1, are one.
LEMMA LastOfRange ==
  ASSUME NEW n \in Nat, NEW l \in Nat \ {0}, NEW e \in Nat, n + l = e, n + 1 >= e
  PROVE  l = 1 /\ n + 1 = e
OBVIOUS

\* The manager receives a block.
LEMMA BlockBatch == BatchInv /\ ReceiveBlock => BatchInv'
<1> SUFFICES ASSUME BatchInv, ReceiveBlock PROVE BatchInv'
  OBVIOUS
<1>0. Types /\ HeightInv /\ RunInv
  BY DEF BatchInv
<1>1. /\ incoming' = Tail(incoming) /\ current' = Append(current, incoming[1].block)
      /\ Len(incoming') = Len(incoming) - 1 /\ incoming' \in Seq(CompactBlocks)
      /\ UNCHANGED <<fork, tip, active, flips, blocks, batches, outcome, stable, decrypt, manager,
                     fetcher, failed>>
      /\ fetcher.pc # "done" /\ reorgs = << >> /\ pc = "run" /\ incoming # << >> /\ manager # "done"
      /\ pc' \in {"run", "panicked"}
  BY BlockReceived
<1>2. /\ fetcher.next \in Nat /\ fetcher.end \in Nat /\ Len(incoming) \in Nat /\ Len(current) \in Nat
      /\ expecting \in Nat
  BY <1>0, Fields
<1> DEFINE n == fetcher.next
           t == n + Len(incoming)
           u == n + Len(incoming) + Len(current)
<1>3. /\ StackIn(incoming, t) /\ Stack(current, u) /\ incoming[1].block.height = t
      /\ incoming[1].block \in Blocks /\ n + 1 >= fetcher.end
  BY BlockReceived
<1>4. t \in Int /\ u \in Int /\ t = u - Len(current)
  BY <1>2
<1>5. current' \in Seq(Blocks) /\ Len(current') = Len(current) + 1 /\ Stack(current', u)
  <2> HIDE DEF t, u
  <2>1. current \in Seq(Blocks)
    BY <1>0 DEF Types
  <2> DEFINE x == incoming[1].block
  <2>2. x \in Blocks /\ x.height = u - Len(current)
    BY <1>3, <1>4
  <2> HIDE DEF x
  <2>3. /\ Append(current, x) \in Seq(Blocks) /\ Len(Append(current, x)) = Len(current) + 1
        /\ Stack(Append(current, x), u)
    BY <1>3, <1>4, <2>1, <2>2, StackAppend
  <2> QED BY <1>1, <2>3 DEF x
<1>6. StackIn(incoming', t - 1)
  <2> HIDE DEF t, u
  <2>1. incoming \in Seq(CompactBlocks)
    BY <1>0 DEF Types
  <2>2. StackIn(Tail(incoming), t - 1)
    BY <1>1, <1>3, <1>4, <2>1, StackInTail
  <2> QED BY <1>1, <2>2
<1>7. /\ existing' \in Seq(Blocks) /\ scanned' \subseteq Blocks /\ expecting' \in Nat /\ reorgs' \in Seq(Nat)
      /\ Stack(existing', expecting' - 1) /\ \A i \in 1..Len(existing') : existing'[i].height > 0
      /\ pc' = "run" => expecting' > 0
  <2>0. /\ existing \in Seq(Blocks) /\ scanned \subseteq Blocks /\ reorgs \in Seq(Nat)
        /\ Stack(existing, expecting - 1) /\ \A i \in 1..Len(existing) : existing[i].height > 0
        /\ expecting > 0
    BY <1>0, <1>1 DEF Types, HeightInv, RunInv
  <2>1. CASE Passes
    BY <1>2, <2>0, <2>1 DEF Passes
  <2>2. CASE Follows
    BY <1>2, <2>0, <2>2 DEF Follows
  <2>3. CASE Pops
    <3>1. /\ existing # << >> /\ expecting - 1 > 0 /\ existing' = Tail(existing) /\ expecting' = expecting - 1
          /\ reorgs' = <<expecting - 1>> /\ scanned' \subseteq scanned
      BY <2>3 DEF Pops
    <3>2. expecting - 1 \in Nat /\ expecting - 1 \in Int
      BY <1>2, <3>1
    <3>3. /\ Tail(existing) \in Seq(Blocks) /\ Len(Tail(existing)) = Len(existing) - 1
          /\ \A i \in 1..Len(Tail(existing)) : Tail(existing)[i] = existing[i + 1]
          /\ Stack(Tail(existing), (expecting - 1) - 1)
      BY <2>0, <3>1, <3>2, StackTail
    <3>4. ASSUME NEW i \in 1..Len(Tail(existing))
          PROVE  Tail(existing)[i].height > 0
      <4>1. i + 1 \in 1..Len(existing) /\ Tail(existing)[i] = existing[i + 1]
        BY <2>0, <3>3
      <4> QED BY <2>0, <4>1
    <3>5. reorgs' \in Seq(Nat)
      BY <3>1, <3>2
    <3> QED BY <2>0, <3>1, <3>2, <3>3, <3>4, <3>5
  <2> QED BY <2>1, <2>2, <2>3, BlockReceived
<1>8. Types'
  BY <1>0, <1>1, <1>5, <1>7 DEF Types
<1>9. HeightInv'
  BY <1>0, <1>1, <1>7 DEF HeightInv
<1>10. ASSUME pc' = "run"
       PROVE  /\ Stacked(current', incoming', fetcher, expecting')
              /\ RangesAgree(current', incoming', fetcher, expecting', reorgs')
  <2>1. Stacked(current', incoming', fetcher, expecting')
    <3>1. LowOf(fetcher, expecting') = n + 1
      BY <1>1 DEF LowOf
    <3>2. (n + 1) + Len(incoming') + Len(current') - 1 = u /\ (n + 1) + Len(incoming') - 1 = t - 1
      BY <1>1, <1>2, <1>5
    <3> HIDE DEF n, t, u
    <3>3. /\ Stack(current', LowOf(fetcher, expecting') + Len(incoming') + Len(current') - 1)
          /\ StackIn(incoming', LowOf(fetcher, expecting') + Len(incoming') - 1)
      BY <1>5, <1>6, <3>1, <3>2
    <3> QED BY <1>3, <3>3 DEF Stacked, n
  <2>2. CASE Passes
    <3>1. reorgs' = << >> /\ expecting' = expecting
      BY <1>1, <2>2 DEF Passes
    <3>2. RangesAgree(current, incoming, fetcher, expecting, reorgs)
      BY <1>0, <1>1 DEF RunInv
    <3> QED BY <1>1, <2>1, <3>1, <3>2 DEF RangesAgree
  <2>3. CASE Follows \/ Pops
    <3>1. incoming[1].block.height = expecting
      BY <2>3 DEF Follows, Pops
    <3>2. fetcher.pc \in {"range", "wait"}
      <4>1. ~ Passes
        BY <3>1 DEF Passes
      <4> QED BY <1>10, <4>1, BlockReceived
    <3>3. fetcher.end = expecting
      <4>1. RangesAgree(current, incoming, fetcher, expecting, reorgs)
        BY <1>0, <1>1 DEF RunInv
      <4> QED BY <1>1, <3>2, <4>1 DEF RangesAgree
    <3>4. Len(incoming) = 1 /\ n + 1 = fetcher.end
      <4>1. Len(incoming) # 0
        <5>1. incoming \in Seq(CompactBlocks)
          BY <1>0 DEF Types
        <5> QED BY <1>1, <5>1, EmptySeq
      <4>2. n + Len(incoming) = expecting /\ n + 1 >= expecting /\ n \in Nat
        BY <1>2, <1>3, <3>1, <3>3
      <4>3. Len(incoming) \in Nat \ {0} /\ expecting \in Nat
        BY <1>2, <4>1
      <4> QED BY <3>3, <4>2, <4>3, LastOfRange
    <3>5. incoming' = << >>
      <4>1. Len(incoming') = 0
        BY <1>1, <3>4
      <4> QED BY <1>1, <4>1, EmptySeq
    <3>6. current' # << >>
      <4>1. Len(current') # 0
        BY <1>2, <1>5
      <4> QED BY <4>1
    <3>7. /\ Len(reorgs') = 1
          /\ fetcher.end = (IF reorgs'[1] = 0 THEN expecting' ELSE expecting' + 1)
          /\ reorgs'[1] # 0 => reorgs'[1] = expecting'
      <4>1. CASE Follows
        BY <1>2, <3>3, <4>1 DEF Follows
      <4>2. CASE Pops
        <5>1. reorgs' = <<expecting - 1>> /\ expecting' = expecting - 1 /\ expecting - 1 > 0
          BY <4>2 DEF Pops
        <5> DEFINE k == expecting - 1
        <5>2. k \in Nat /\ k > 0 /\ k + 1 = expecting
          BY <1>2, <5>1
        <5>3. reorgs' = <<k>> /\ expecting' = k
          BY <5>1
        <5> HIDE DEF k
        <5>4. Len(reorgs') = 1 /\ reorgs'[1] = k
          BY <5>3
        <5> QED BY <3>3, <5>2, <5>3, <5>4
      <4> QED BY <2>3, <4>1, <4>2
    <3>8. reorgs' # << >>
      <4>1. Len(reorgs') = 1
        BY <3>7
      <4>2. reorgs' = << >> => Len(reorgs') = 0
        OBVIOUS
      <4> QED BY <4>1, <4>2
    <3> QED BY <1>1, <2>1, <3>4, <3>5, <3>6, <3>7, <3>8 DEF RangesAgree
  <2> QED BY <2>1, <2>2, <2>3, BlockReceived
<1>11. RunInv'
  BY <1>1, <1>7, <1>10 DEF RunInv
<1> QED BY <1>8, <1>9, <1>11 DEF BatchInv
\* The channel is closed, and the workers work or fail.
LEMMA WorkBatch == BatchInv /\ (BlocksDone \/ Worker) => BatchInv'
<1> SUFFICES ASSUME BatchInv, BlocksDone \/ Worker PROVE BatchInv'
  OBVIOUS
<1>0. Types /\ HeightInv /\ pc = "run" /\ RunInv
  BY DEF BatchInv, BlocksDone, Worker, ScanBlock, WorkerFails
<1>1. UNCHANGED <<fork, tip, active, flips, blocks, pc, batches, outcome, stable,
                  existing, current, expecting, incoming, fetcher, reorgs>>
  BY DEF BlocksDone, Worker, ScanBlock, WorkerFails, server, wallet, main
<1>2. /\ scanned' \subseteq Blocks /\ decrypt' \subseteq Blocks /\ manager' \in {"run", "done"}
      /\ manager' = "done" => incoming = << >> /\ fetcher.pc \in {"done", "failed"}
  <2>0. /\ scanned \subseteq Blocks /\ decrypt \subseteq Blocks /\ manager \in {"run", "done"}
        /\ manager = "done" => incoming = << >> /\ fetcher.pc \in {"done", "failed"}
    BY <1>0 DEF Types, RunInv
  <2>1. CASE BlocksDone
    BY <2>0, <2>1 DEF BlocksDone, wallet, FetchEnded
  <2>2. CASE Worker
    <3>1. PICK b \in decrypt : ScanBlock(b) \/ WorkerFails(b)
      BY <2>2 DEF Worker
    <3> QED BY <2>0, <3>1 DEF ScanBlock, WorkerFails, wallet
  <2> QED BY <2>1, <2>2
<1>3. Types'
  BY <1>0, <1>1, <1>2 DEF Types
<1>4. HeightInv'
  BY <1>0, <1>1 DEF HeightInv
<1>5. RunInv'
  BY <1>0, <1>1, <1>2 DEF RunInv
<1> QED BY <1>3, <1>4, <1>5 DEF BatchInv

\* What a batch leaves behind.
LEMMA ClearedBatch ==
  ASSUME ClearBatch
  PROVE  /\ existing' = << >> /\ current' = << >> /\ expecting' = 0 /\ incoming' = << >> /\ decrypt' = {}
         /\ manager' = "done" /\ reorgs' = << >> /\ fetcher' \in FetcherStates /\ fetcher'.end = 1
         /\ existing' \in Seq(Blocks) /\ current' \in Seq(Blocks) /\ incoming' \in Seq(CompactBlocks)
         /\ reorgs' \in Seq(Nat)
<1>1. fetcher' = [pc |-> "done", next |-> 0, end |-> 1]
  BY DEF ClearBatch, FetcherOff
<1>2. fetcher' \in FetcherStates /\ fetcher'.end = 1
  BY <1>1, FetcherGoes
<1> QED BY <1>2 DEF ClearBatch

\* A batch has work left when it runs.
HasBatch == pc = "run" => batches # << >>

\* The lists put together: one stack of blocks, of which the wallet keeps the top.
LEMMA DrainedBlocks ==
  ASSUME BatchInv, EndBatch
  PROVE  /\ expecting \in Nat \ {0} /\ Len(current) \in Nat \ {0} /\ Len(existing) \in Nat
         /\ blocks' \in Seq(Blocks) /\ Len(blocks') \in Nat \ {0} /\ blocks' # << >>
         /\ Len(blocks') =< Len(current) + Len(existing) /\ Len(blocks') =< MaxReorg
         /\ Len(blocks') # Len(current) + Len(existing) => Len(blocks') = MaxReorg
         /\ \A i \in 1..Len(blocks') : blocks'[i] = IF i =< Len(current) THEN current[i]
                                                       ELSE existing[i - Len(current)]
         /\ Stack(blocks', expecting + Len(current) - 1)
         /\ Stack(current, expecting + Len(current) - 1) /\ Stack(existing, expecting - 1)
         /\ fetcher.pc = "done" /\ pc = "run"
<1>0. /\ Types /\ HeightInv /\ RunInv /\ pc = "run" /\ manager = "done" /\ current # << >>
      /\ fetcher.pc = "done" /\ blocks' = Truncated(current \o existing)
  BY DEF BatchInv, EndBatch, Joined, DrainExisting
<1>1. current \in Seq(Blocks) /\ existing \in Seq(Blocks)
  BY <1>0 DEF Types
<1>2. expecting \in Nat \ {0} /\ Len(current) \in Nat \ {0} /\ Len(existing) \in Nat
  <2>1. expecting \in Nat /\ expecting > 0 /\ Len(existing) \in Nat
    BY <1>0, Fields DEF RunInv
  <2>2. Len(current) \in Nat \ {0}
    BY <1>0, <1>1, EmptySeq
  <2> QED BY <2>1, <2>2
<1>3. Stack(current, expecting + Len(current) - 1) /\ Stack(existing, expecting - 1)
  <2>1. incoming = << >> /\ Stacked(current, incoming, fetcher, expecting)
    BY <1>0 DEF RunInv
  <2>2. LowOf(fetcher, expecting) = expecting /\ Len(incoming) = 0
    BY <1>0, <2>1 DEF LowOf
  <2>3. Stack(current, expecting + 0 + Len(current) - 1)
    BY <2>1, <2>2 DEF Stacked
  <2>4. expecting + 0 + Len(current) - 1 = expecting + Len(current) - 1
    BY <1>2
  <2> QED BY <1>0, <2>3, <2>4 DEF HeightInv
<1> DEFINE a == current \o existing
           c == Len(current)
           n == IF Len(a) < MaxReorg THEN Len(a) ELSE MaxReorg
<1>4. /\ a \in Seq(Blocks) /\ Len(a) = c + Len(existing)
      /\ \A i \in 1..Len(a) : a[i] = IF i =< c THEN current[i] ELSE existing[i - c]
  BY <1>1, ConcatProperties
<1>5. c \in Nat \ {0} /\ Stack(current, expecting + c - 1)
  BY <1>2, <1>3
<1>6. blocks' = SubSeq(a, 1, n)
  BY <1>0 DEF Truncated
<1> HIDE DEF a, c
<1>7. Len(a) \in Nat \ {0} /\ MaxReorg \in Nat \ {0}
  BY <1>2, <1>4, <1>5, Sizes
<1>8. n \in Nat \ {0} /\ n =< Len(a) /\ n =< MaxReorg /\ (n # Len(a) => n = MaxReorg)
  BY <1>7
<1> HIDE DEF n
<1>9. /\ blocks' \in Seq(Blocks) /\ Len(blocks') = n
      /\ \A i \in 1..n : blocks'[i] = a[i]
  BY <1>4, <1>6, <1>7, <1>8
<1>10. ASSUME NEW i \in 1..n
       PROVE  /\ blocks'[i] = IF i =< c THEN current[i] ELSE existing[i - c]
              /\ blocks'[i].height = expecting + c - 1 + 1 - i
  <2>1. i \in 1..Len(a) /\ i \in Nat
    BY <1>7, <1>8
  <2>2. blocks'[i] = IF i =< c THEN current[i] ELSE existing[i - c]
    BY <1>4, <1>9, <2>1
  <2>3. CASE i =< c
    <3>1. i \in 1..Len(current)
      BY <1>2, <2>1, <2>3 DEF c
    <3>2. current[i].height = expecting + c - 1 + 1 - i
      BY <1>5, <3>1 DEF Stack
    <3> QED BY <2>2, <2>3, <3>2
  <2>4. CASE ~ (i =< c)
    <3>1. i - c \in 1..Len(existing)
      BY <1>2, <1>4, <1>5, <2>1, <2>4
    <3>2. existing[i - c].height = expecting - 1 + 1 - (i - c)
      BY <1>3, <3>1 DEF Stack
    <3>3. expecting - 1 + 1 - (i - c) = expecting + c - 1 + 1 - i
      BY <1>2, <1>5, <2>1
    <3> QED BY <2>2, <2>4, <3>2, <3>3
  <2> QED BY <2>3, <2>4
<1>11. Stack(blocks', expecting + c - 1)
  BY <1>9, <1>10 DEF Stack
<1>12. blocks' # << >>
  <2>1. blocks' = << >> => Len(blocks') = 0
    OBVIOUS
  <2> QED BY <1>8, <1>9, <2>1
<1> QED BY <1>0, <1>2, <1>3, <1>4, <1>8, <1>9, <1>10, <1>11, <1>12 DEF c

\* A batch ends, in one of three ways.
LEMMA EndedBatch == BatchInv /\ HasBatch /\ (NoBlocks \/ EndBatch \/ BatchFails) => BatchInv'
<1> SUFFICES ASSUME BatchInv, HasBatch, NoBlocks \/ EndBatch \/ BatchFails PROVE BatchInv'
  OBVIOUS
<1>0. Types /\ HeightInv /\ batches # << >>
  BY DEF BatchInv, HasBatch, NoBlocks, EndBatch, BatchFails, Joined
<1>1. /\ ClearBatch /\ pc' \in {"idle", "next"} /\ outcome' \in {"none", "success", "no success", "err"}
      /\ batches' \in {Tail(batches), << >>} /\ UNCHANGED <<fork, tip, active, flips>>
  BY DEF NoBlocks, EndBatch, BatchFails, BatchReturns, server
<1>2. batches' \in Seq(Nat)
  BY <1>0, <1>1, BatchesLeft
<1>3. /\ blocks' \in Seq(Blocks) /\ scanned' \subseteq Blocks
      /\ blocks' # << >> => Stack(blocks', blocks'[1].height)
      /\ \A i \in 1..Len(blocks') : blocks'[i].height > 0
  <2>1. CASE NoBlocks
    <3>1. blocks' = blocks /\ scanned' = scanned
      BY <2>1 DEF NoBlocks, wallet
    <3> QED BY <1>0, <3>1 DEF Types, HeightInv
  <2>2. CASE BatchFails
    BY <1>0, <2>2, PoppedWallet DEF BatchFails
  <2>3. CASE EndBatch
    <3> DEFINE t == expecting + Len(current) - 1
    <3>1. /\ blocks' \in Seq(Blocks) /\ Stack(blocks', t) /\ blocks' # << >> /\ Len(blocks') \in Nat \ {0}
          /\ Len(blocks') =< Len(current) + Len(existing)
      BY <2>3, DrainedBlocks
    <3>2. scanned' \subseteq Blocks
      BY <1>0, <2>3 DEF EndBatch, Types
    <3>3. t \in Nat
      BY <2>3, DrainedBlocks
    <3>4. blocks'[1].height = t
      <4> HIDE DEF t
      <4>1. 1 \in 1..Len(blocks')
        BY <3>1
      <4>2. blocks'[1].height = t + 1 - 1
        BY <3>1, <4>1 DEF Stack
      <4> QED BY <3>3, <4>2
    <3>5. ASSUME NEW i \in 1..Len(blocks')
          PROVE  blocks'[i].height > 0
      <4>1. blocks'[i] = IF i =< Len(current) THEN current[i] ELSE existing[i - Len(current)]
        BY <2>3, DrainedBlocks
      <4>2. /\ expecting \in Nat \ {0} /\ Len(current) \in Nat \ {0} /\ Len(existing) \in Nat
            /\ Stack(current, t) /\ i \in Nat
        BY <2>3, <3>1, DrainedBlocks
      <4>3. CASE i =< Len(current)
        <5>1. current[i].height = t + 1 - i
          BY <3>1, <4>2, <4>3 DEF Stack
        <5>2. t + 1 - i > 0
          BY <4>2, <4>3
        <5> QED BY <4>1, <4>3, <5>1, <5>2
      <4>4. CASE ~ (i =< Len(current))
        <5>1. i - Len(current) \in 1..Len(existing)
          BY <3>1, <4>2, <4>4
        <5> QED BY <1>0, <4>1, <4>4, <5>1 DEF HeightInv
      <4> QED BY <4>3, <4>4
    <3> QED BY <3>1, <3>2, <3>4, <3>5
  <2> QED BY <2>1, <2>2, <2>3
<1>4. /\ existing' = << >> /\ expecting' = 0 /\ decrypt' = {}
      /\ manager' = "done" /\ fetcher' \in FetcherStates /\ fetcher'.end = 1
      /\ existing' \in Seq(Blocks) /\ current' \in Seq(Blocks) /\ incoming' \in Seq(CompactBlocks)
      /\ reorgs' \in Seq(Nat)
  BY <1>1, ClearedBatch
<1>5. Types'
  BY <1>0, <1>1, <1>2, <1>3, <1>4 DEF Types, FetcherStates
<1>6. HeightInv'
  <2>1. Len(existing') = 0
    BY <1>4
  <2>2. Stack(existing', expecting' - 1) /\ \A i \in 1..Len(existing') : existing'[i].height > 0
    BY <2>1 DEF Stack
  <2>3. fetcher'.end > 0
    BY <1>4
  <2> QED BY <1>0, <1>1, <1>3, <2>2, <2>3 DEF HeightInv
<1>7. RunInv'
  BY <1>1 DEF RunInv
<1> QED BY <1>5, <1>6, <1>7 DEF BatchInv

\* A batch that runs is one of those that are left.
LEMMA HasBatchStep == HasBatch /\ [Next]_vars => HasBatch'
<1> SUFFICES ASSUME HasBatch, [Next]_vars PROVE HasBatch'
  OBVIOUS
<1>1. CASE StartBatch
  BY <1>1 DEF StartBatch, HasBatch
<1>2. CASE StartSync \/ SyncDone \/ AlreadySynced \/ NoBlocks \/ EndBatch \/ BatchFails \/ SyncBehind
  BY <1>2 DEF StartSync, SyncDone, AlreadySynced, NoBlocks, EndBatch, BatchFails, SyncBehind, BatchReturns, HasBatch
<1>3. CASE Mine \/ Flip \/ Fetcher \/ BlocksDone \/ Worker \/ UNCHANGED vars
  BY <1>3 DEF Mine, Flip, Fetcher, FetchBlock, StreamEnds, FetchFails, ReceiveReorg, BlocksDone,
              Worker, ScanBlock, WorkerFails, vars, main, HasBatch
<1>4. CASE ReceiveBlock
  <2>1. pc = "run" /\ batches' = batches
    BY <1>4 DEF ReceiveBlock
  <2> QED BY <2>1 DEF HasBatch
<1> QED BY <1>1, <1>2, <1>3, <1>4 DEF Next, Main, Manager

\* The two flags.
LEMMA FlagsStep == Flags /\ [Next]_vars => Flags'
<1> SUFFICES ASSUME Flags, [Next]_vars PROVE Flags'
  OBVIOUS
<1>1. stable' \in {stable, TRUE, FALSE}
  BY DEF Next, Main, Fetcher, Manager, Worker, Mine, Flip, SyncBehind, StartSync, SyncDone, AlreadySynced, StartBatch,
         NoBlocks, EndBatch, BatchFails, FetchBlock, StreamEnds, FetchFails, ReceiveReorg, ReceiveBlock,
         BlocksDone, ScanBlock, WorkerFails, vars, main
<1>2. failed' \in {failed, TRUE, FALSE}
  BY DEF Next, Main, Fetcher, Manager, Worker, Mine, Flip, SyncBehind, StartSync, SyncDone, AlreadySynced, StartBatch,
         NoBlocks, EndBatch, BatchFails, FetchBlock, StreamEnds, FetchFails, ReceiveReorg, ReceiveBlock,
         BlocksDone, ScanBlock, WorkerFails, vars, batch, ClearBatch
<1> QED BY <1>1, <1>2 DEF Flags

\* Nothing changes.
LEMMA StutterBatch == BatchInv /\ UNCHANGED vars => BatchInv'
<1> SUFFICES ASSUME BatchInv, UNCHANGED vars PROVE BatchInv'
  OBVIOUS
<1>1. UNCHANGED <<fork, tip, active, flips, blocks, scanned, pc, batches, outcome, stable, existing, current,
                  expecting, incoming, decrypt, manager, fetcher, reorgs, failed>>
  BY DEF vars, server, wallet, main, batch
<1>2. Types'
  BY <1>1 DEF BatchInv, Types
<1>3. HeightInv'
  BY <1>1 DEF BatchInv, HeightInv
<1>4. RunInv'
  BY <1>1 DEF BatchInv, RunInv
<1> QED BY <1>2, <1>3, <1>4 DEF BatchInv

\* Every step of the specification.
LEMMA BatchStep == BatchInv /\ HasBatch /\ [Next]_vars => BatchInv'
<1> SUFFICES ASSUME BatchInv, HasBatch, [Next]_vars PROVE BatchInv'
  OBVIOUS
<1>1. CASE Mine
  BY <1>1, MineBatch
<1>2. CASE Flip
  BY <1>2, FlipBatch
<1>3. CASE SyncBehind \/ SyncDone
  BY <1>3, IdleBatch
<1>4. CASE StartSync
  BY <1>4, StartBatchSync
<1>5. CASE AlreadySynced
  BY <1>5, AlreadyBatch
<1>6. CASE StartBatch
  BY <1>6, BeginBatch
<1>7. CASE NoBlocks \/ EndBatch \/ BatchFails
  BY <1>7, EndedBatch
<1>8. CASE Fetcher
  BY <1>8, FetchBatch, StreamBatch, AnswerBatch DEF Fetcher
<1>9. CASE ReceiveBlock
  BY <1>9, BlockBatch
<1>10. CASE BlocksDone \/ Worker
  BY <1>10, WorkBatch
<1>11. CASE UNCHANGED vars
  BY <1>11, StutterBatch
<1> QED BY <1>1, <1>2, <1>3, <1>4, <1>5, <1>6, <1>7, <1>8, <1>9, <1>10, <1>11 DEF Next, Main, Manager

\* The blocks received, under way and yet to be fetched form one stack above the
\* existing blocks, through every reorganisation, failure and change of branch
\* (FetchCompactBlocks, handle_reorgs_populate_data_inner).
THEOREM BatchInvariant == Spec => [](BatchInv /\ HasBatch)
<1>1. Init => BatchInv /\ HasBatch
  BY InitBatch DEF Init, HasBatch
<1>2. (BatchInv /\ HasBatch) /\ [Next]_vars => (BatchInv /\ HasBatch)'
  BY BatchStep, HasBatchStep
<1> QED BY <1>1, <1>2, PTL DEF Spec

\* The type invariant of BatchSync.
THEOREM BatchTypes == Spec => []TypeOK
<1>1. Init => Flags
  BY DEF Init, Flags
<1>2. Flags /\ [Next]_vars => Flags'
  BY FlagsStep
<1>3. BatchInv /\ HasBatch /\ Flags => TypeOK
  BY DEF BatchInv, Types, Flags, TypeOK
<1> QED BY <1>1, <1>2, <1>3, BatchInvariant, PTL DEF Spec

\* The wallet's blocks, and those a batch compares with, have consecutive heights:
\* the panics "Blocks are in wrong order" and "Wrong block reorg'd" of
\* block_management_reorg_detection.rs are never reached, for any batch size and window.
THEOREM BlocksContiguous == Spec => []Contiguous
<1>1. BatchInv => Contiguous
  <2> SUFFICES ASSUME BatchInv PROVE Contiguous
    OBVIOUS
  <2>0. blocks \in Seq(Blocks) /\ existing \in Seq(Blocks) /\ expecting \in Nat
    BY DEF BatchInv, Types
  <2>1. ASSUME NEW s \in Seq(Blocks), NEW t \in Int, Stack(s, t), NEW i \in 1..(Len(s) - 1)
        PROVE  s[i].height = s[i + 1].height + 1
    <3>1. i \in 1..Len(s) /\ i + 1 \in 1..Len(s) /\ Len(s) \in Nat
      BY <2>1
    <3>2. s[i].height = t + 1 - i /\ s[i + 1].height = t + 1 - (i + 1)
      BY <2>1, <3>1 DEF Stack
    <3> QED BY <3>1, <3>2
  <2>2. ASSUME NEW i \in 1..(Len(blocks) - 1)
        PROVE  blocks[i].height = blocks[i + 1].height + 1
    <3>1. LastSynced \in Int /\ Stack(blocks, LastSynced)
      BY LastSyncedOf DEF BatchInv
    <3> QED BY <2>0, <2>1, <3>1
  <2>3. ASSUME NEW i \in 1..(Len(existing) - 1)
        PROVE  existing[i].height = existing[i + 1].height + 1
    <3>1. expecting - 1 \in Int /\ Stack(existing, expecting - 1)
      BY <2>0 DEF BatchInv, HeightInv
    <3> QED BY <2>0, <2>1, <3>1
  <2> QED BY <2>2, <2>3 DEF Contiguous
<1> QED BY <1>1, BatchInvariant, PTL-----------------------------------------------------------------------------
(* What was recorded *)

\* Two branches have the same block at a height where they have not parted.
LEMMA SameBlock ==
  ASSUME NEW f \in Nat, NEW k \in Nat, NEW a, NEW b, k =< f \/ a = b
  PROVE  At(f, k, a) = At(f, k, b)
BY DEF At

\* The parts of a block.
LEMMA BlockParts ==
  ASSUME NEW f \in Nat, NEW k \in Nat, NEW a
  PROVE  /\ At(f, k, a).height = k
         /\ k =< f => At(f, k, a).branch = 0
         /\ ~ (k =< f) => At(f, k, a).branch = a
BY DEF At

\* A list whose top is on branch a is on branch a.
LEMMA TopTells ==
  ASSUME NEW f \in Nat, NEW s \in Seq(Blocks), NEW a, NEW b, NEW t \in Int,
         s # << >>, Stack(s, t), OnBranch(f, s, b), s[1] = At(f, s[1].height, a)
  PROVE  OnBranch(f, s, a) /\ (t =< f \/ b = a)
<1>1. Len(s) \in Nat \ {0} /\ \A i \in 1..Len(s) : s[i] \in Blocks
  BY EmptySeq
<1>2. \A i \in 1..Len(s) : s[i].height \in Nat /\ s[i].height = t + 1 - i
  BY <1>1 DEF Stack, Blocks
<1>3. 1 \in 1..Len(s) /\ s[1].height = t /\ t \in Nat
  <2>1. 1 \in 1..Len(s)
    BY <1>1
  <2>2. s[1].height = t + 1 - 1 /\ s[1].height \in Nat
    BY <1>2, <2>1
  <2> QED BY <2>1, <2>2
<1>4. t =< f \/ b = a
  <2>1. At(f, t, a) = At(f, t, b)
    BY <1>3 DEF OnBranch
  <2>2. CASE t =< f
    BY <2>2
  <2>3. CASE ~ (t =< f)
    BY <1>3, <2>1, <2>3, BlockParts
  <2> QED BY <2>2, <2>3
<1>5. ASSUME NEW i \in 1..Len(s)
      PROVE  s[i] = At(f, s[i].height, a)
  <2>1. s[i] = At(f, s[i].height, b) /\ s[i].height \in Nat
    BY <1>2 DEF OnBranch
  <2>2. s[i].height =< t
    BY <1>2, <1>3
  <2>3. s[i].height =< f \/ a = b
    BY <1>3, <1>4, <2>1, <2>2
  <2>4. At(f, s[i].height, a) = At(f, s[i].height, b)
    BY <2>1, <2>3, SameBlock
  <2> QED BY <2>1, <2>4
<1> QED BY <1>4, <1>5 DEF OnBranch

\* Popping the top block, with its records.
LEMMA PopKeeps ==
  ASSUME NEW f \in Nat, NEW tp \in Nat, NEW a, NEW b, NEW s \in Seq(Blocks), NEW c, NEW sc,
         NEW t \in Nat, s # << >>, Stack(s, t),
         Held(f, tp, a, s, sc, t, b), Accounted(f, tp, a, s, c, sc)
  PROVE  /\ Held(f, tp, a, Tail(s), {x \in sc : x.height < t}, t - 1, b)
         /\ Accounted(f, tp, a, Tail(s), c, {x \in sc : x.height < t})
<1> DEFINE sd == {x \in sc : x.height < t}
<1>1. /\ Tail(s) \in Seq(Blocks) /\ Len(Tail(s)) = Len(s) - 1 /\ Len(s) \in Nat \ {0}
      /\ \A i \in 1..Len(Tail(s)) : Tail(s)[i] = s[i + 1]
      /\ s[1].height = t
  <2>1. t \in Int /\ Len(s) \in Nat \ {0}
    BY EmptySeq
  <2> QED BY <2>1, StackTail
<1>2. OnBranch(f, Tail(s), b)
  <2> SUFFICES ASSUME NEW i \in 1..Len(Tail(s))
               PROVE  Tail(s)[i] = At(f, Tail(s)[i].height, b)
    BY DEF OnBranch
  <2>1. i + 1 \in 1..Len(s)
    BY <1>1
  <2> QED BY <1>1, <2>1 DEF Held, OnBranch
<1>3. ScannedTo(f, sd, t - 1, b)
  <2> SUFFICES ASSUME NEW k \in Nat, k > Birthday, k =< t - 1
               PROVE  At(f, k, b) \in sd
    BY DEF ScannedTo
  <2>1. k =< t /\ k < t
    OBVIOUS
  <2>2. At(f, k, b) \in sc
    BY <2>1 DEF Held, ScannedTo
  <2>3. At(f, k, b).height = k
    BY BlockParts
  <2> QED BY <2>1, <2>2, <2>3
<1>4. t - 1 - Len(Tail(s)) = t - Len(s)
  BY <1>1
<1>5. Held(f, tp, a, Tail(s), sd, t - 1, b)
  BY <1>2, <1>3, <1>4 DEF Held
<1>6. Accounted(f, tp, a, Tail(s), c, sd)
  <2> SUFFICES ASSUME NEW x \in sd
               PROVE  \/ x.height =< f /\ x.branch = 0
                      \/ \E i \in 1..Len(Tail(s)) : x = Tail(s)[i]
                      \/ \E i \in 1..Len(c) : x = c[i]
                      \/ Deep(f, tp) /\ x = At(f, x.height, a)
    BY DEF Accounted
  <2>1. x \in sc /\ x.height < t
    OBVIOUS
  <2>2. CASE \E i \in 1..Len(s) : x = s[i]
    <3>1. PICK i \in 1..Len(s) : x = s[i]
      BY <2>2
    <3>2. i # 1
      BY <1>1, <2>1, <3>1
    <3>3. i - 1 \in 1..Len(Tail(s)) /\ (i - 1) + 1 = i
      BY <1>1, <3>2
    <3>4. Tail(s)[i - 1] = s[i]
      BY <1>1, <3>3
    <3> QED BY <3>1, <3>3, <3>4
  <2>3. CASE ~ \E i \in 1..Len(s) : x = s[i]
    BY <2>1, <2>3 DEF Accounted
  <2> QED BY <2>2, <2>3
<1> QED BY <1>5, <1>6

\* A block is added to the batch.
LEMMA AddKeeps ==
  ASSUME NEW f, NEW tp, NEW a, NEW s, NEW c \in Seq(Blocks), NEW y \in Blocks, NEW sc,
         Accounted(f, tp, a, s, c, sc)
  PROVE  Accounted(f, tp, a, s, Append(c, y), sc)
<1>1. /\ Len(Append(c, y)) = Len(c) + 1 /\ Len(c) \in Nat
      /\ \A i \in 1..Len(c) : Append(c, y)[i] = c[i]
  OBVIOUS
<1>2. ASSUME NEW x, \E i \in 1..Len(c) : x = c[i]
      PROVE  \E i \in 1..Len(Append(c, y)) : x = Append(c, y)[i]
  <2>1. PICK i \in 1..Len(c) : x = c[i]
    BY <1>2
  <2>2. i \in 1..Len(Append(c, y)) /\ Append(c, y)[i] = x
    BY <1>1, <2>1
  <2> QED BY <2>2
<1> QED BY <1>2 DEF Accounted

\* The server's chain grows.
LEMMA GrowthKeeps ==
  ASSUME NEW f \in Nat, NEW t \in Nat, NEW a, NEW s, NEW c, NEW sc, NEW h, NEW b
  PROVE  /\ Held(f, t, a, s, sc, h, b) => Held(f, t + 1, a, s, sc, h, b)
         /\ Accounted(f, t, a, s, c, sc) => Accounted(f, t + 1, a, s, c, sc)
<1>1. Deep(f, t) => Deep(f, t + 1)
  BY Sizes DEF Deep
<1> QED BY <1>1 DEF Held, Accounted

\* The same for what a batch has fetched.
LEMMA GrowthKeepsFetched ==
  ASSUME NEW f \in Nat, NEW t \in Nat, NEW a, NEW c \in Seq(Blocks), NEW s \in Seq(CompactBlocks),
         NEW d, NEW sc, NEW ft \in FetcherStates,
         Fetched(f, t, a, c, s, d, sc, ft)
  PROVE  Fetched(f, t + 1, a, c, s, d, sc, ft)
<1>1. \A i \in 1..Len(c) : c[i].height =< t + 1
  <2>1. ASSUME NEW i \in 1..Len(c) PROVE c[i].height =< t + 1
    <3>1. c[i] \in Blocks /\ c[i].height =< t
      BY DEF Fetched
    <3>2. c[i].height \in Nat
      BY <3>1 DEF Blocks
    <3> QED BY <3>1, <3>2
  <2> QED BY <2>1
<1>2. \A i \in 1..Len(s) : s[i].block.height =< t + 1
  <2>1. ASSUME NEW i \in 1..Len(s) PROVE s[i].block.height =< t + 1
    <3>1. s[i] \in CompactBlocks /\ s[i].block.height =< t
      BY DEF Fetched
    <3>2. s[i].block.height \in Nat
      BY <3>1 DEF CompactBlocks, Blocks
    <3> QED BY <3>1, <3>2
  <2> QED BY <2>1
<1>3. ft.next =< t => ft.next =< t + 1
  BY DEF FetcherStates
<1> QED BY <1>1, <1>2, <1>3 DEF Fetched
\* Initially.
LEMMA InitCalm == Init => CalmInv
<1> SUFFICES ASSUME Init PROVE CalmInv
  OBVIOUS
<1>0. BatchInv /\ fork \in Nat /\ Birthday =< fork
  BY InitBatch DEF BatchInv, Types, HeightInv
<1>1. Birthday \in Nat /\ Activation \in Nat \ {0} /\ Activation =< Birthday
  BY Sizes
<1>2. 1 \in Branches /\ scanned = {} /\ pc = "idle" /\ ~ stable
  BY DEF Init, Branches
<1>3. /\ OnBranch(fork, blocks, 1) /\ LastSynced \in Nat /\ LastSynced =< Birthday
      /\ LastSynced - Len(blocks) =< fork
  <2>1. CASE blocks = << >>
    <3>1. LastSynced = Activation - 1 /\ Len(blocks) = 0
      BY <2>1 DEF LastSynced
    <3>2. OnBranch(fork, blocks, 1)
      BY <2>1 DEF OnBranch
    <3> QED BY <1>0, <1>1, <3>1, <3>2
  <2>2. CASE blocks = <<BlockAt(Birthday, 1)>>
    <3> DEFINE x == BlockAt(Birthday, 1)
    <3>1. x.height = Birthday /\ x = At(fork, Birthday, 1)
      BY DEF BlockAt, At
    <3>2. blocks = <<x>>
      BY <2>2
    <3> HIDE DEF x
    <3>3. Len(blocks) = 1 /\ blocks[1] = x /\ Head(blocks) = x /\ blocks # << >>
      BY <3>2
    <3>4. LastSynced = Birthday
      BY <3>1, <3>3 DEF LastSynced
    <3>5. OnBranch(fork, blocks, 1)
      BY <3>1, <3>3 DEF OnBranch
    <3> QED BY <1>0, <1>1, <3>3, <3>4, <3>5
  <2> QED BY <2>1, <2>2 DEF Init
<1>4. ScannedTo(fork, scanned, LastSynced, 1)
  BY <1>1, <1>3 DEF ScannedTo
<1>5. Held(fork, tip, active, blocks, scanned, LastSynced, 1)
  BY <1>3, <1>4 DEF Held
<1>6. Accounted(fork, tip, active, blocks, << >>, scanned)
  BY <1>2 DEF Accounted
<1> QED BY <1>2, <1>5, <1>6 DEF CalmInv, QuietInv, InBatchInv, WorkLeft

\* The server mines a block.
LEMMA MineCalm == BatchInv /\ CalmInv /\ Mine => CalmInv'
<1> SUFFICES ASSUME BatchInv, CalmInv, Mine PROVE CalmInv'
  OBVIOUS
<1>1. /\ tip' = tip + 1
      /\ UNCHANGED <<fork, active, flips, blocks, scanned, pc, batches,
        outcome, stable, existing, current, expecting, incoming, decrypt, manager, fetcher, reorgs, failed>>
  BY DEF Mine, wallet, main, batch
<1>2. /\ tip \in Nat /\ fork \in Nat /\ current \in Seq(Blocks) /\ incoming \in Seq(CompactBlocks)
      /\ fetcher \in FetcherStates
  BY DEF BatchInv, Types, FetcherStates
<1>3. LastSynced' = LastSynced
  BY <1>1 DEF LastSynced
<1>4. QuietInv'
  <2>1. ASSUME pc \in {"idle", "next"}
        PROVE  /\ \E b \in Branches : Held(fork, tip + 1, active, blocks, scanned, LastSynced, b)
               /\ Accounted(fork, tip + 1, active, blocks, << >>, scanned)
               /\ stable /\ outcome = "success" => OnBranch(fork, blocks, active)
    BY <1>2, <2>1, GrowthKeeps DEF CalmInv, QuietInv
  <2> QED BY <1>1, <1>3, <2>1 DEF QuietInv
<1>5. InBatchInv'
  <2>1. ASSUME pc = "run"
        PROVE  /\ \E b \in Branches : Held(fork, tip + 1, active, existing, scanned, expecting - 1, b)
               /\ Accounted(fork, tip + 1, active, existing, current, scanned)
               /\ Fetched(fork, tip + 1, active, current, incoming, decrypt, scanned, fetcher)
               /\ Linked(fork, active, existing, fetcher, reorgs)
               /\ current = << >> => existing = blocks /\ expecting = LastSynced + 1
               /\ ~failed
    BY <1>2, <2>1, GrowthKeeps, GrowthKeepsFetched DEF CalmInv, InBatchInv
  <2> QED BY <1>1, <1>3, <2>1 DEF InBatchInv
<1>6. WorkLeft'
  BY <1>1, <1>3 DEF CalmInv, WorkLeft
<1> QED BY <1>4, <1>5, <1>6 DEF CalmInv

\* The server changes its branch, between two batches: no record above the place
\* where the branches part is out of the wallet's reach.
LEMMA FlipCalm == Calm /\ BatchInv /\ CalmInv /\ Flip => CalmInv'
<1> SUFFICES ASSUME Calm, BatchInv, CalmInv, Flip PROVE CalmInv'
  OBVIOUS
<1>1. /\ pc # "run" /\ tip =< fork + MaxReorg /\ stable' = FALSE
      /\ UNCHANGED <<fork, blocks, scanned, pc, batches, outcome>>
  BY DEF Flip, Calm, wallet
<1>2. tip \in Nat /\ fork \in Nat
  BY DEF BatchInv, Types
<1>3. ~ Deep(fork, tip)
  BY <1>1, <1>2, Sizes DEF Deep
<1>4. LastSynced' = LastSynced
  BY <1>1 DEF LastSynced
<1>5. QuietInv'
  <2>1. ASSUME pc \in {"idle", "next"}
        PROVE  /\ \E b \in Branches : Held(fork, tip', active', blocks, scanned, LastSynced, b)
               /\ Accounted(fork, tip', active', blocks, << >>, scanned)
    <3>1. PICK b \in Branches : Held(fork, tip, active, blocks, scanned, LastSynced, b)
      BY <2>1 DEF CalmInv, QuietInv
    <3>2. Held(fork, tip', active', blocks, scanned, LastSynced, b)
      BY <1>3, <3>1 DEF Held
    <3>3. Accounted(fork, tip, active, blocks, << >>, scanned)
      BY <2>1 DEF CalmInv, QuietInv
    <3>4. Accounted(fork, tip', active', blocks, << >>, scanned)
      BY <1>3, <3>3 DEF Accounted
    <3> QED BY <3>2, <3>4
  <2> QED BY <1>1, <1>4, <2>1 DEF QuietInv
<1>6. InBatchInv' /\ WorkLeft'
  BY <1>1 DEF InBatchInv, WorkLeft
<1> QED BY <1>5, <1>6 DEF CalmInv

\* A sync that is refused, one that ends, and a batch that has nothing to do.
LEMMA IdleCalm == BatchInv /\ CalmInv /\ (SyncBehind \/ SyncDone \/ AlreadySynced) => CalmInv'
<1> SUFFICES ASSUME BatchInv, CalmInv, SyncBehind \/ SyncDone \/ AlreadySynced PROVE CalmInv'
  OBVIOUS
<1>1. /\ pc \in {"idle", "next"} /\ pc' \in {"idle", "next"}
      /\ UNCHANGED <<fork, tip, active, flips, blocks, scanned, stable>>
  BY DEF SyncBehind, SyncDone, AlreadySynced, BatchReturns, server, wallet
<1>2. LastSynced' = LastSynced
  BY <1>1 DEF LastSynced
<1>3. /\ stable /\ outcome' = "success" => OnBranch(fork, blocks, active)
      /\ pc' = "next" /\ stable =>
           \/ OnBranch(fork, blocks, active)
           \/ \A i \in 1..Len(batches') : batches'[i] > LastSynced
  <2>1. CASE SyncBehind \/ SyncDone
    <3>1. pc' = "idle" /\ (outcome' = outcome \/ outcome' = "err")
      BY <2>1 DEF SyncBehind, SyncDone
    <3> QED BY <1>1, <3>1 DEF CalmInv, QuietInv
  <2>2. CASE AlreadySynced
    <3>1. pc = "next" /\ batches # << >> /\ Head(batches) = LastSynced
      BY <2>2 DEF AlreadySynced
    <3>2. batches \in Seq(Nat)
      BY DEF BatchInv, Types
    <3>3. 1 \in 1..Len(batches) /\ batches[1] = LastSynced /\ LastSynced \in Nat
      BY <3>1, <3>2
    <3>4. stable => OnBranch(fork, blocks, active)
      BY <3>1, <3>3 DEF CalmInv, WorkLeft
    <3> QED BY <3>4
  <2> QED BY <2>1, <2>2
<1>4. QuietInv'
  <2>1. /\ \E b \in Branches : Held(fork, tip, active, blocks, scanned, LastSynced, b)
        /\ Accounted(fork, tip, active, blocks, << >>, scanned)
    BY <1>1 DEF CalmInv, QuietInv
  <2> QED BY <1>1, <1>2, <1>3, <2>1 DEF QuietInv
<1>5. InBatchInv'
  BY <1>1 DEF InBatchInv
<1>6. WorkLeft'
  BY <1>1, <1>2, <1>3 DEF WorkLeft
<1> QED BY <1>4, <1>5, <1>6 DEF CalmInv

\* A sync begins, and pops a block that the server has another one for.
LEMMA StartCalm == Calm /\ BatchInv /\ CalmInv /\ StartSync => CalmInv'
<1> SUFFICES ASSUME Calm, BatchInv, CalmInv, StartSync PROVE CalmInv'
  OBVIOUS
<1>0. Types /\ HeightInv
  BY DEF BatchInv
<1>1. /\ pc = "idle" /\ pc' = "next" /\ outcome' = "none" /\ stable' = TRUE /\ batches' = BatchTops(LastSynced')
      /\ UNCHANGED <<fork, tip, active, flips>> /\ tip >= LastSynced
  BY DEF StartSync, server
<1>2. tip \in Nat /\ fork \in Nat /\ LastSynced \in Nat /\ Stack(blocks, LastSynced) /\ blocks \in Seq(Blocks)
      /\ Birthday =< tip /\ Birthday =< fork
  BY <1>0, LastSyncedOf DEF Types, HeightInv
<1>3. PICK b \in Branches : Held(fork, tip, active, blocks, scanned, LastSynced, b)
  BY <1>1 DEF CalmInv, QuietInv
<1>4. Accounted(fork, tip, active, blocks, << >>, scanned)
  BY <1>1 DEF CalmInv, QuietInv
<1>5. /\ Held(fork, tip, active, blocks', scanned', LastSynced', b)
      /\ Accounted(fork, tip, active, blocks', << >>, scanned')
      /\ LastSynced' \in Nat /\ LastSynced' =< tip
      /\ OnBranch(fork, blocks', active) \/ tip # LastSynced'
  <2>1. CASE OneBlockReorg
    <3>1. InvalidateTop /\ blocks # << >> /\ tip = LastSynced
      BY <2>1 DEF StartSync, OneBlockReorg
    <3>2. blocks' = Tail(blocks) /\ scanned' = {x \in scanned : x.height < LastSynced}
      BY <1>0, <3>1, LastSyncedOf DEF InvalidateTop, Below
    <3>3. /\ Held(fork, tip, active, blocks', scanned', LastSynced - 1, b)
          /\ Accounted(fork, tip, active, blocks', << >>, scanned')
      BY <1>2, <1>3, <1>4, <3>1, <3>2, PopKeeps
    <3>4. CASE blocks' # << >>
      <4>1. LastSynced' = LastSynced - 1 /\ LastSynced' \in Nat
        BY <1>0, <3>1, <3>4, PoppedWallet
      <4> QED BY <1>2, <3>1, <3>3, <4>1
    <3>5. CASE blocks' = << >>
      <4>1. LastSynced' = Activation - 1 /\ LastSynced' \in Nat
        BY <1>0, <3>1, <3>5, PoppedWallet
      <4>2. LastSynced' < Birthday /\ LastSynced' =< fork /\ LastSynced' =< tip /\ tip # LastSynced'
        BY <1>2, <4>1, Sizes
      <4>3. ScannedTo(fork, scanned', LastSynced', b)
        BY <4>1, <4>2, Sizes DEF ScannedTo
      <4>4. LastSynced' - Len(blocks') =< fork
        BY <1>2, <3>5, <4>1, <4>2
      <4> QED BY <3>3, <4>1, <4>2, <4>3, <4>4 DEF Held
    <3> QED BY <3>4, <3>5
  <2>2. CASE ~ OneBlockReorg
    <3>1. blocks' = blocks /\ scanned' = scanned
      BY <2>2 DEF StartSync, wallet
    <3>2. LastSynced' = LastSynced
      BY <3>1 DEF LastSynced
    <3>3. ASSUME tip = LastSynced
          PROVE  OnBranch(fork, blocks, active)
      <4>1. CASE blocks = << >>
        BY <4>1 DEF OnBranch
      <4>2. CASE blocks # << >>
        <5>1. Head(blocks) = BlockAt(tip, active)
          BY <2>2, <3>3, <4>2 DEF OneBlockReorg, Calm
        <5>2. Head(blocks) = blocks[1] /\ LastSynced = blocks[1].height
          BY <1>0, <4>2, LastSyncedOf
        <5>3. blocks[1] = At(fork, blocks[1].height, active)
          BY <3>3, <5>1, <5>2 DEF BlockAt, At
        <5>4. LastSynced \in Int /\ OnBranch(fork, blocks, b)
          BY <1>2, <1>3 DEF Held
        <5> QED BY <1>2, <4>2, <5>3, <5>4, TopTells
      <4> QED BY <4>1, <4>2
    <3> QED BY <1>1, <1>2, <1>3, <1>4, <3>1, <3>2, <3>3
  <2> QED BY <2>1, <2>2
<1>6. tip # LastSynced' => \A i \in 1..Len(batches') : batches'[i] > LastSynced'
  BY <1>1, <1>2, <1>5, TopsAreHeights
<1>7. QuietInv'
  BY <1>1, <1>3, <1>5 DEF QuietInv
<1>8. InBatchInv'
  BY <1>1 DEF InBatchInv
<1>9. WorkLeft'
  BY <1>1, <1>5, <1>6 DEF WorkLeft
<1> QED BY <1>7, <1>8, <1>9 DEF CalmInv
\* A step inside a batch concerns the batch alone.
LEMMA InsideCalm ==
  ASSUME CalmInv, pc \in {"next", "run"}, pc' \in {"run", "panicked"},
         UNCHANGED <<fork, active, blocks, batches, stable>>, InBatchInv'
  PROVE  CalmInv'
<1>1. QuietInv'
  BY DEF QuietInv
<1>2. LastSynced' = LastSynced
  BY DEF LastSynced
<1>3. WorkLeft'
  BY <1>2 DEF CalmInv, WorkLeft
<1> QED BY <1>1, <1>3 DEF CalmInv

\* A batch begins.
LEMMA BeginCalm == BatchInv /\ CalmInv /\ StartBatch => CalmInv'
<1> SUFFICES ASSUME BatchInv, CalmInv, StartBatch PROVE CalmInv'
  OBVIOUS
<1>1. /\ pc = "next" /\ pc' = "run" /\ existing' = blocks /\ current' = << >> /\ expecting' = LastSynced + 1
      /\ incoming' = << >> /\ decrypt' = {} /\ reorgs' = << >> /\ failed' = FALSE
      /\ fetcher' = [pc |-> "range", next |-> Head(batches), end |-> LastSynced + 1]
      /\ UNCHANGED <<fork, tip, active, flips, blocks, scanned, batches, outcome, stable>>
  BY DEF StartBatch, server, wallet
<1>2. LastSynced \in Nat
  BY LastSyncedOf DEF BatchInv
<1>3. expecting' - 1 = LastSynced /\ LastSynced' = LastSynced
  BY <1>1, <1>2 DEF LastSynced
<1>4. fetcher'.pc = "range"
  BY <1>1
<1>5. /\ \E b \in Branches : Held(fork, tip, active, blocks, scanned, LastSynced, b)
      /\ Accounted(fork, tip, active, blocks, << >>, scanned)
  BY <1>1 DEF CalmInv, QuietInv
<1>6. Fetched(fork, tip, active, current', incoming', decrypt', scanned, fetcher')
  BY <1>1, <1>4 DEF Fetched
<1>7. Linked(fork, active, existing', fetcher', reorgs')
  BY <1>1, <1>4 DEF Linked
<1>8. ~ failed'
  BY <1>1
<1>9. \E b \in Branches : Held(fork, tip, active, existing', scanned, expecting' - 1, b)
  BY <1>1, <1>3, <1>5
<1>10. InBatchInv'
  BY <1>1, <1>3, <1>5, <1>6, <1>7, <1>8, <1>9 DEF InBatchInv
<1> QED BY <1>1, <1>10, InsideCalm

\* The fetcher fetches a block.
LEMMA FetchCalm == BatchInv /\ CalmInv /\ FetchBlock => CalmInv'
<1> SUFFICES ASSUME BatchInv, CalmInv, FetchBlock PROVE CalmInv'
  OBVIOUS
<1>0. Types /\ HeightInv /\ pc = "run" /\ InBatchInv
  BY DEF BatchInv, CalmInv, FetchBlock
<1> DEFINE h == fetcher.next
           y == CompactBlock(h)
<1>1. /\ incoming' = Append(incoming, y) /\ decrypt' = decrypt \cup {BlockAt(h, active)}
      /\ fetcher' = [fetcher EXCEPT !.next = @ - 1] /\ fetcher.pc = "range" /\ h >= fetcher.end /\ h =< tip
      /\ UNCHANGED <<fork, tip, active, flips, blocks, scanned, pc, batches, outcome, stable,
                     existing, current, expecting, manager, reorgs, failed>>
  BY DEF FetchBlock, server, wallet, main
<1>2. h \in Nat \ {0} /\ tip \in Nat /\ incoming \in Seq(CompactBlocks)
  <2>1. h \in Nat \ {0} /\ tip \in Nat
    BY <1>0, <1>1, Fields DEF HeightInv
  <2>2. incoming \in Seq(CompactBlocks)
    BY <1>0 DEF Types
  <2> QED BY <2>1, <2>2
<1>3. fetcher'.pc = "range" /\ fetcher'.next = h - 1
  <2>1. fetcher \in FetcherStates
    BY <1>0 DEF Types, FetcherStates
  <2> QED BY <1>1, <2>1 DEF FetcherStates
<1>4. /\ y \in CompactBlocks /\ y.block = At(fork, h, active) /\ y.prev = At(fork, h - 1, active)
      /\ y.block.height = h /\ BlockAt(h, active) = y.block
  BY <1>0, <1>2, CompactBlockOf DEF BlockAt, At
<1> HIDE DEF h, y
<1>5. /\ Len(incoming') = Len(incoming) + 1 /\ Len(incoming) \in Nat
      /\ \A i \in 1..(Len(incoming) + 1) : incoming'[i] = IF i = Len(incoming) + 1 THEN y ELSE incoming[i]
  BY <1>1, <1>2, <1>4
<1>6. Fetched(fork, tip, active, current, incoming, decrypt, scanned, fetcher)
  BY <1>0 DEF InBatchInv
<1>7. Fetched(fork, tip, active, current, incoming', decrypt', scanned, fetcher')
  <2>1. ASSUME NEW i \in 1..Len(current)
        PROVE  current[i] = At(fork, current[i].height, active) /\ current[i].height =< tip /\ current[i] \in decrypt'
    BY <1>1, <1>6 DEF Fetched
  <2>2. ASSUME NEW i \in 1..Len(incoming')
        PROVE  /\ incoming'[i].block = At(fork, incoming'[i].block.height, active)
               /\ incoming'[i].prev = At(fork, incoming'[i].block.height - 1, active)
               /\ incoming'[i].block.height =< tip /\ incoming'[i].block \in decrypt'
    <3>1. CASE i = Len(incoming) + 1
      <4>1. incoming'[i] = y
        BY <1>5, <3>1
      <4> QED BY <1>1, <1>4, <4>1
    <3>2. CASE i # Len(incoming) + 1
      <4>1. i \in 1..Len(incoming) /\ incoming'[i] = incoming[i]
        BY <1>5, <3>2
      <4> QED BY <1>1, <1>6, <4>1 DEF Fetched
    <3> QED BY <3>1, <3>2
  <2>3. ASSUME NEW x \in decrypt'
        PROVE  \/ \E i \in 1..Len(current) : x = current[i]
               \/ \E i \in 1..Len(incoming') : x = incoming'[i].block
    <3>1. CASE x = BlockAt(h, active)
      <4>1. Len(incoming) + 1 \in 1..Len(incoming') /\ incoming'[Len(incoming) + 1] = y
        BY <1>5
      <4> QED BY <1>4, <3>1, <4>1
    <3>2. CASE \E i \in 1..Len(incoming) : x = incoming[i].block
      <4>1. PICK i \in 1..Len(incoming) : x = incoming[i].block
        BY <3>2
      <4>2. i \in 1..Len(incoming') /\ incoming'[i] = incoming[i]
        BY <1>5
      <4> QED BY <4>1, <4>2
    <3> QED BY <1>1, <1>6, <3>1, <3>2 DEF Fetched
  <2>4. fetcher'.next =< tip
    BY <1>1, <1>2, <1>3
  <2> QED BY <1>3, <2>1, <2>2, <2>3, <2>4 DEF Fetched
<1>8. Linked(fork, active, existing, fetcher', reorgs)
  BY <1>0, <1>3 DEF InBatchInv, Linked
<1>9. LastSynced' = LastSynced
  BY <1>1 DEF LastSynced
<1>10. InBatchInv'
  BY <1>0, <1>1, <1>7, <1>8, <1>9 DEF InBatchInv
<1> QED BY <1>0, <1>1, <1>10, InsideCalm

\* The stream ends; it breaks only at the first block of a batch, which the
\* server had before it changed its branch.
LEMMA StreamCalm == Calm /\ BatchInv /\ CalmInv /\ (StreamEnds \/ FetchFails) => CalmInv'
<1> SUFFICES ASSUME Calm, BatchInv, CalmInv, StreamEnds \/ FetchFails PROVE CalmInv'
  OBVIOUS
<1>0. Types /\ pc = "run" /\ InBatchInv
  BY DEF BatchInv, CalmInv, StreamEnds, FetchFails
<1>1. /\ fetcher.pc = "range"
      /\ UNCHANGED <<fork, tip, active, flips, blocks, scanned, pc, batches, outcome, stable,
                     existing, current, expecting, incoming, decrypt, manager, reorgs, failed>>
  BY DEF StreamEnds, FetchFails, server, wallet, main
<1>2. fetcher \in FetcherStates /\ tip \in Nat
  BY <1>0 DEF Types, FetcherStates
<1>3. Fetched(fork, tip, active, current, incoming, decrypt, scanned, fetcher)
  BY <1>0 DEF InBatchInv
<1>4. /\ fetcher'.pc \in {"wait", "failed"}
      /\ fetcher'.pc = "failed" => current = << >> /\ incoming = << >>
  <2>1. CASE StreamEnds
    BY <1>2, <2>1 DEF StreamEnds, FetcherStates
  <2>2. CASE FetchFails
    <3>1. fetcher.next > tip /\ fetcher.next \in Nat
      BY <1>2, <2>2 DEF FetchFails, Calm, FetcherStates
    <3>2. current = << >> /\ incoming = << >>
      BY <1>1, <1>2, <1>3, <3>1 DEF Fetched
    <3>3. fetcher'.pc = "failed"
      BY <1>2, <2>2 DEF FetchFails, FetcherStates
    <3> QED BY <3>2, <3>3
  <2> QED BY <2>1, <2>2
<1>5. Fetched(fork, tip, active, current, incoming, decrypt, scanned, fetcher')
  BY <1>1, <1>3, <1>4 DEF Fetched
<1>6. Linked(fork, active, existing, fetcher', reorgs)
  BY <1>0, <1>4 DEF InBatchInv, Linked
<1>7. LastSynced' = LastSynced
  BY <1>1 DEF LastSynced
<1>8. InBatchInv'
  BY <1>0, <1>1, <1>5, <1>6, <1>7 DEF InBatchInv
<1> QED BY <1>0, <1>1, <1>8, InsideCalm

\* The fetcher receives an answer of the manager.
LEMMA AnswerCalm == BatchInv /\ CalmInv /\ ReceiveReorg => CalmInv'
<1> SUFFICES ASSUME BatchInv, CalmInv, ReceiveReorg PROVE CalmInv'
  OBVIOUS
<1>0. Types /\ RunInv /\ pc = "run" /\ InBatchInv
  BY DEF BatchInv, CalmInv, ReceiveReorg
<1>1. /\ reorgs' = << >> /\ incoming = << >> /\ fetcher.next + 1 = fetcher.end
      /\ UNCHANGED <<fork, tip, active, flips, blocks, scanned, pc, batches, outcome, stable,
                     existing, current, expecting, incoming, decrypt, manager, failed>>
      /\ fetcher.pc = "wait" /\ reorgs # << >> /\ current # << >>
  BY AnswerArrives
<1>2. Fetched(fork, tip, active, current, incoming, decrypt, scanned, fetcher)
      /\ Linked(fork, active, existing, fetcher, reorgs)
  BY <1>0 DEF InBatchInv
<1>3. /\ fetcher'.pc \in {"done", "range"}
      /\ fetcher'.pc = "range" => fetcher'.next =< tip
      /\ Linked(fork, active, existing, fetcher', reorgs')
  <2>1. CASE reorgs[1] = 0
    <3>1. fetcher'.pc = "done"
      BY <2>1, AnswerArrives DEF FetcherOff
    <3>2. Linked(fork, active, existing, fetcher', reorgs')
      BY <1>1, <1>2, <2>1 DEF Linked
    <3> QED BY <3>1, <3>2
  <2>2. CASE reorgs[1] # 0
    <3>1. fetcher' = [pc |-> "range", next |-> expecting, end |-> expecting] /\ fetcher.end = expecting + 1
      BY <2>2, AnswerArrives
    <3>2. fetcher'.pc = "range" /\ fetcher'.next = expecting
      BY <3>1
    <3>3. Linked(fork, active, existing, fetcher', reorgs')
      BY <1>1, <3>2 DEF Linked
    <3>4. expecting =< tip
      <4>1. expecting \in Nat /\ tip \in Nat /\ current \in Seq(Blocks) /\ fetcher.next \in Nat
        BY <1>0, Fields DEF Types
      <4> DEFINE c == Len(current)
      <4>2. c \in Nat \ {0} /\ c \in 1..Len(current)
        BY <1>1, <4>1, EmptySeq
      <4>3. Stack(current, LowOf(fetcher, expecting) + Len(incoming) + c - 1)
        BY <1>0 DEF RunInv, Stacked
      <4>4. LowOf(fetcher, expecting) = fetcher.next + 1 /\ Len(incoming) = 0
        BY <1>1 DEF LowOf
      <4>5. current[c].height = fetcher.next + 1 + 0 + c - 1 + 1 - c
        BY <4>2, <4>3, <4>4 DEF Stack
      <4> HIDE DEF c
      <4>6. current[c].height = expecting + 1
        BY <1>1, <3>1, <4>1, <4>2, <4>5
      <4>7. current[c].height =< tip
        BY <1>2, <4>2 DEF Fetched
      <4> QED BY <4>1, <4>6, <4>7
    <3> QED BY <3>2, <3>3, <3>4
  <2> QED BY <2>1, <2>2
<1>4. Fetched(fork, tip, active, current, incoming, decrypt, scanned, fetcher')
  BY <1>1, <1>2, <1>3 DEF Fetched
<1>5. LastSynced' = LastSynced
  BY <1>1 DEF LastSynced
<1>6. InBatchInv'
  BY <1>0, <1>1, <1>3, <1>4, <1>5 DEF InBatchInv
<1> QED BY <1>0, <1>1, <1>6, InsideCalm
\* The manager receives a block, and may pop an existing one.
LEMMA BlockCalm == BatchInv /\ CalmInv /\ ReceiveBlock => CalmInv'
<1> SUFFICES ASSUME BatchInv, CalmInv, ReceiveBlock PROVE CalmInv'
  OBVIOUS
<1> DEFINE y == incoming[1]
<1>1. /\ y \in CompactBlocks /\ y.block \in Blocks /\ current' = Append(current, y.block)
      /\ Len(incoming') = Len(incoming) - 1
      /\ \A i \in 1..Len(incoming') : i + 1 \in 1..Len(incoming) /\ incoming'[i] = incoming[i + 1]
      /\ UNCHANGED <<fork, tip, active, flips, blocks, batches, outcome, stable, decrypt, manager,
                     fetcher, failed>>
      /\ fetcher.pc # "done" /\ pc = "run" /\ incoming # << >> /\ reorgs = << >>
      /\ pc' \in {"run", "panicked"}
  BY BlockReceived
<1>2. Types /\ HeightInv /\ InBatchInv
  BY <1>1 DEF BatchInv, CalmInv
<1>3. /\ current \in Seq(Blocks) /\ incoming \in Seq(CompactBlocks) /\ existing \in Seq(Blocks)
      /\ expecting \in Nat /\ tip \in Nat /\ fork \in Nat
  BY <1>2 DEF Types
<1>4. 1 \in 1..Len(incoming) /\ Len(incoming) \in Nat
  BY <1>1, <1>3, EmptySeq
<1>5. /\ Len(current') = Len(current) + 1 /\ Len(current) \in Nat
      /\ \A i \in 1..(Len(current) + 1) : current'[i] = IF i = Len(current) + 1 THEN y.block ELSE current[i]
  <2> DEFINE z == y.block
  <2>1. z \in Blocks /\ current' = Append(current, z)
    BY <1>1
  <2> HIDE DEF z
  <2>2. /\ Len(current') = Len(current) + 1 /\ Len(current) \in Nat
        /\ \A i \in 1..(Len(current) + 1) : current'[i] = IF i = Len(current) + 1 THEN z ELSE current[i]
    BY <1>3, <2>1
  <2> QED BY <2>2 DEF z
<1>6. /\ Fetched(fork, tip, active, current, incoming, decrypt, scanned, fetcher)
      /\ Accounted(fork, tip, active, existing, current, scanned)
  BY <1>1, <1>2 DEF InBatchInv
<1>7. /\ y.block = At(fork, y.block.height, active) /\ y.prev = At(fork, y.block.height - 1, active)
      /\ y.block.height =< tip /\ y.block \in decrypt
  BY <1>4, <1>6 DEF Fetched
<1> HIDE DEF y
<1>8. Fetched(fork, tip, active, current', incoming', decrypt, scanned', fetcher)
  <2>1. ASSUME NEW i \in 1..Len(current')
        PROVE  /\ current'[i] = At(fork, current'[i].height, active) /\ current'[i].height =< tip
               /\ current'[i] \in decrypt
    <3>1. CASE i = Len(current) + 1
      <4>1. current'[i] = y.block
        BY <1>5, <3>1
      <4> QED BY <1>7, <4>1
    <3>2. CASE i # Len(current) + 1
      <4>1. i \in 1..Len(current) /\ current'[i] = current[i]
        BY <1>5, <3>2
      <4> QED BY <1>1, <1>6, <4>1 DEF Fetched
    <3> QED BY <3>1, <3>2
  <2>2. ASSUME NEW i \in 1..Len(incoming')
        PROVE  /\ incoming'[i].block = At(fork, incoming'[i].block.height, active)
               /\ incoming'[i].prev = At(fork, incoming'[i].block.height - 1, active)
               /\ incoming'[i].block.height =< tip /\ incoming'[i].block \in decrypt
    BY <1>1, <1>6 DEF Fetched
  <2>3. ASSUME NEW x \in decrypt
        PROVE  \/ \E i \in 1..Len(current') : x = current'[i]
               \/ \E i \in 1..Len(incoming') : x = incoming'[i].block
    <3>1. CASE \E i \in 1..Len(current) : x = current[i]
      <4>1. PICK i \in 1..Len(current) : x = current[i]
        BY <3>1
      <4>2. i \in 1..Len(current') /\ current'[i] = x
        BY <1>5, <4>1
      <4> QED BY <4>2
    <3>2. CASE \E i \in 1..Len(incoming) : x = incoming[i].block
      <4>1. PICK i \in 1..Len(incoming) : x = incoming[i].block
        BY <3>2
      <4>2. CASE i = 1
        <5>1. Len(current) + 1 \in 1..Len(current') /\ current'[Len(current) + 1] = y.block
          BY <1>5
        <5> QED BY <4>1, <4>2, <5>1 DEF y
      <4>3. CASE i # 1
        <5>1. i - 1 \in 1..Len(incoming') /\ (i - 1) + 1 = i
          BY <1>1, <1>4, <4>3
        <5>2. incoming'[i - 1] = incoming[i]
          BY <1>1, <5>1
        <5> QED BY <4>1, <5>1, <5>2
      <4> QED BY <4>2, <4>3
    <3> QED BY <1>6, <3>1, <3>2 DEF Fetched
  <2>4. fetcher.pc # "failed" /\ (fetcher.pc = "range" => fetcher.next =< tip)
    BY <1>1, <1>6 DEF Fetched
  <2> QED BY <2>1, <2>2, <2>3, <2>4 DEF Fetched
<1>9. /\ \E b \in Branches : Held(fork, tip, active, existing', scanned', expecting' - 1, b)
      /\ Accounted(fork, tip, active, existing', current, scanned')
      /\ Linked(fork, active, existing', fetcher, reorgs')
  <2>0. PICK b \in Branches : Held(fork, tip, active, existing, scanned, expecting - 1, b)
    BY <1>1, <1>2 DEF InBatchInv
  <2>1. CASE Passes
    <3>1. UNCHANGED <<existing, scanned, expecting>> /\ reorgs' = << >>
      BY <1>1, <2>1 DEF Passes
    <3>2. Linked(fork, active, existing', fetcher, reorgs')
      BY <1>1, <3>1 DEF Linked
    <3> QED BY <1>6, <2>0, <3>1, <3>2
  <2>2. CASE Follows
    <3>1. UNCHANGED <<existing, scanned, expecting>> /\ (existing = << >> \/ existing[1] = y.prev)
      BY <2>2 DEF Follows, y
    <3>2. Linked(fork, active, existing, fetcher, reorgs')
      <4>1. CASE existing = << >>
        BY <4>1 DEF Linked
      <4>2. CASE existing[1] = y.prev
        <5>1. y.block.height - 1 = existing[1].height
          BY <1>7, <4>2 DEF At
        <5> QED BY <1>7, <4>2, <5>1 DEF Linked
      <4> QED BY <3>1, <4>1, <4>2
    <3> QED BY <1>6, <2>0, <3>1, <3>2
  <2>3. CASE Pops
    <3> DEFINE t == expecting - 1
    <3>1. /\ existing # << >> /\ t > 0 /\ existing' = Tail(existing) /\ expecting' = t /\ reorgs' = <<t>>
          /\ scanned' = {x \in scanned : x.height < t}
      BY <2>3 DEF Pops
    <3>2. t \in Nat /\ Stack(existing, t) /\ Held(fork, tip, active, existing, scanned, t, b)
      BY <1>2, <1>3, <2>0, <3>1 DEF HeightInv
    <3> HIDE DEF t
    <3>3. /\ Held(fork, tip, active, Tail(existing), {x \in scanned : x.height < t}, t - 1, b)
          /\ Accounted(fork, tip, active, Tail(existing), current, {x \in scanned : x.height < t})
      <4>1. existing # << >> /\ Accounted(fork, tip, active, existing, current, scanned)
        BY <1>6, <3>1
      <4>2. fork \in Nat /\ tip \in Nat /\ existing \in Seq(Blocks)
        BY <1>3
      <4> QED BY <3>2, <4>1, <4>2, PopKeeps
    <3>4. reorgs'[1] # 0
      <4>1. reorgs'[1] = t /\ t > 0
        BY <3>1
      <4> QED BY <3>2, <4>1
    <3>5. Linked(fork, active, existing', fetcher, reorgs')
      BY <1>1, <3>4 DEF Linked
    <3> QED BY <3>1, <3>3, <3>5
  <2> QED BY <2>1, <2>2, <2>3, BlockReceived
<1>10. Accounted(fork, tip, active, existing', current', scanned')
  <2> DEFINE z == y.block
  <2>1. z \in Blocks /\ current' = Append(current, z)
    BY <1>1 DEF y
  <2> HIDE DEF z
  <2> QED BY <1>3, <1>9, <2>1, AddKeeps
<1>11. current' # << >>
  <2>1. current' = << >> => Len(current') = 0
    OBVIOUS
  <2> QED BY <1>5, <2>1
<1>12. ~ failed
  BY <1>1, <1>2 DEF InBatchInv
<1>13. InBatchInv'
  BY <1>1, <1>8, <1>9, <1>10, <1>11, <1>12 DEF InBatchInv
<1> QED BY <1>1, <1>13, InsideCalm

\* The channel is closed.
LEMMA ClosedCalm == BatchInv /\ CalmInv /\ BlocksDone => CalmInv'
<1> SUFFICES ASSUME BatchInv, CalmInv, BlocksDone PROVE CalmInv'
  OBVIOUS
<1>1. /\ pc = "run" /\ UNCHANGED <<fork, tip, active, flips, blocks, scanned, pc, batches, outcome, stable,
                     existing, current, expecting, incoming, decrypt, fetcher, reorgs, failed>>
  BY DEF BlocksDone, server, wallet, main
<1>2. LastSynced' = LastSynced
  BY <1>1 DEF LastSynced
<1>3. InBatchInv'
  BY <1>1, <1>2 DEF CalmInv, InBatchInv
<1> QED BY <1>1, <1>3, InsideCalm

\* A block of the batch is scanned; no block is waiting in the channel any more.
LEMMA WorkerCalm == Calm /\ BatchInv /\ CalmInv /\ Worker => CalmInv'
<1> SUFFICES ASSUME Calm, BatchInv, CalmInv, Worker PROVE CalmInv'
  OBVIOUS
<1>1. PICK x \in decrypt : ScanBlock(x)
  BY DEF Worker, WorkerFails, Calm
<1>2. /\ pc = "run" /\ FetchEnded /\ scanned' = scanned \cup {x} /\ decrypt' = decrypt \ {x}
      /\ UNCHANGED <<fork, tip, active, flips, blocks, pc, batches, outcome, stable,
                     existing, current, expecting, incoming, manager, fetcher, reorgs, failed>>
  BY <1>1 DEF ScanBlock, server, main
<1>3. InBatchInv /\ Types /\ RunInv
  BY DEF CalmInv, BatchInv
<1>4. Fetched(fork, tip, active, current, incoming, decrypt, scanned, fetcher)
      /\ Accounted(fork, tip, active, existing, current, scanned)
  BY <1>2, <1>3 DEF InBatchInv
<1>5. fetcher.pc = "done" /\ incoming = << >>
  <2>1. fetcher.pc # "failed"
    <3> SUFFICES ASSUME fetcher.pc = "failed" PROVE FALSE
      OBVIOUS
    <3>1. current = << >> /\ incoming = << >>
      BY <1>4 DEF Fetched
    <3>2. Len(current) = 0 /\ Len(incoming) = 0
      BY <3>1
    <3> QED BY <1>1, <1>4, <3>2 DEF Fetched
  <2> QED BY <1>2, <1>3, <2>1 DEF FetchEnded, RunInv
<1>6. Len(incoming) = 0
  BY <1>5
<1>7. PICK j \in 1..Len(current) : x = current[j]
  BY <1>1, <1>4, <1>6 DEF Fetched
<1>8. Fetched(fork, tip, active, current, incoming, decrypt', scanned', fetcher)
  BY <1>2, <1>4, <1>5, <1>6 DEF Fetched
<1>9. Accounted(fork, tip, active, existing, current, scanned')
  BY <1>2, <1>4, <1>7 DEF Accounted
<1>10. \E b \in Branches : Held(fork, tip, active, existing, scanned', expecting - 1, b)
  BY <1>2, <1>3 DEF InBatchInv, Held, ScannedTo
<1>11. LastSynced' = LastSynced
  BY <1>2 DEF LastSynced
<1>12. InBatchInv'
  BY <1>2, <1>3, <1>8, <1>9, <1>10, <1>11 DEF InBatchInv
<1> QED BY <1>2, <1>12, InsideCalm
\* Not a single block came.
LEMMA EmptyCalm == BatchInv /\ HasBatch /\ CalmInv /\ NoBlocks => CalmInv'
<1> SUFFICES ASSUME BatchInv, HasBatch, CalmInv, NoBlocks PROVE CalmInv'
  OBVIOUS
<1>1. /\ pc = "run" /\ current = << >> /\ outcome' = "no success" /\ batches' \in {Tail(batches), << >>}
      /\ pc' = "next" /\ UNCHANGED <<fork, tip, active, flips, blocks, scanned, stable>>
  BY DEF NoBlocks, BatchReturns, server, wallet
<1>2. InBatchInv /\ WorkLeft /\ Types /\ HeightInv
  BY DEF CalmInv, BatchInv
<1>3. existing = blocks /\ expecting = LastSynced + 1 /\ LastSynced \in Nat
  BY <1>1, <1>2, LastSyncedOf DEF InBatchInv
<1>4. expecting - 1 = LastSynced /\ LastSynced' = LastSynced
  <2>1. expecting - 1 = LastSynced
    BY <1>3
  <2>2. LastSynced' = LastSynced
    BY <1>1 DEF LastSynced
  <2> QED BY <2>1, <2>2
<1>5. /\ \E b \in Branches : Held(fork, tip, active, blocks, scanned, LastSynced, b)
      /\ Accounted(fork, tip, active, blocks, << >>, scanned)
  BY <1>1, <1>2, <1>3, <1>4 DEF InBatchInv
<1>6. QuietInv'
  BY <1>1, <1>4, <1>5 DEF QuietInv
<1>7. WorkLeft'
  <2>1. batches # << >>
    BY <1>1 DEF HasBatch
  <2>2. \A i \in 1..Len(batches') : i + 1 \in 1..Len(batches) /\ batches'[i] = batches[i + 1]
    BY <1>1, <1>2, <2>1, BatchesLeft
  <2>3. stable => \/ OnBranch(fork, blocks, active)
                  \/ \A i \in 1..Len(batches) : batches[i] > LastSynced
    BY <1>1, <1>2 DEF WorkLeft
  <2>4. stable => \/ OnBranch(fork, blocks, active)
                  \/ \A i \in 1..Len(batches') : batches'[i] > LastSynced
    BY <2>2, <2>3
  <2> QED BY <1>1, <1>4, <2>4 DEF WorkLeft
<1>8. InBatchInv'
  BY <1>1 DEF InBatchInv
<1> QED BY <1>6, <1>7, <1>8 DEF CalmInv

\* Without failures a batch that has blocks does not fail.
LEMMA NoFailure == Calm /\ BatchInv /\ CalmInv => ~ BatchFails
<1> SUFFICES ASSUME Calm, BatchInv, CalmInv, BatchFails PROVE FALSE
  OBVIOUS
<1>1. pc = "run" /\ current # << >> /\ (fetcher.pc = "failed" \/ failed)
  BY DEF BatchFails, Joined
<1>2. ~ failed /\ Fetched(fork, tip, active, current, incoming, decrypt, scanned, fetcher)
  BY <1>1 DEF CalmInv, InBatchInv
<1> QED BY <1>1, <1>2 DEF Fetched

\* The wallet takes over the blocks: all of them are the server's, and what is cut
\* off is final.
LEMMA EndCalm == BatchInv /\ CalmInv /\ EndBatch => CalmInv'
<1> SUFFICES ASSUME BatchInv, CalmInv, EndBatch PROVE CalmInv'
  OBVIOUS
<1> DEFINE c == Len(current)
           e == Len(existing)
           n == Len(blocks')
           t == expecting + c - 1
<1>1. /\ expecting \in Nat \ {0} /\ c \in Nat \ {0} /\ e \in Nat
      /\ blocks' \in Seq(Blocks) /\ n \in Nat \ {0} /\ blocks' # << >>
      /\ n =< c + e /\ n =< MaxReorg
      /\ n # c + e => n = MaxReorg
      /\ \A i \in 1..n : blocks'[i] = IF i =< c THEN current[i] ELSE existing[i - c]
      /\ Stack(blocks', t) /\ Stack(current, t) /\ Stack(existing, expecting - 1)
      /\ fetcher.pc = "done" /\ pc = "run"
  BY DrainedBlocks
<1>2. /\ pc' = "next" /\ outcome' = "success" /\ decrypt = {}
      /\ UNCHANGED <<fork, tip, active, flips, scanned, stable>>
  BY DEF EndBatch, BatchReturns, Joined, server
<1>3. InBatchInv /\ Types
  BY DEF CalmInv, BatchInv
<1>4. /\ fork \in Nat /\ tip \in Nat /\ existing \in Seq(Blocks) /\ current \in Seq(Blocks) /\ active \in Branches
      /\ MaxReorg \in Nat \ {0}
  BY <1>3, Sizes DEF Types
<1>5. PICK b \in Branches : Held(fork, tip, active, existing, scanned, expecting - 1, b)
  BY <1>1, <1>3 DEF InBatchInv
<1>6. /\ Fetched(fork, tip, active, current, incoming, decrypt, scanned, fetcher)
      /\ Accounted(fork, tip, active, existing, current, scanned)
      /\ Linked(fork, active, existing, fetcher, reorgs)
  BY <1>1, <1>3 DEF InBatchInv
<1>7. LastSynced' = t /\ t \in Nat
  <2>1. t \in Nat
    BY <1>1
  <2> HIDE DEF t, n
  <2>2. Head(blocks') = blocks'[1] /\ 1 \in 1..Len(blocks')
    BY <1>1 DEF n
  <2>3. blocks'[1].height = t + 1 - 1
    BY <1>1, <2>2 DEF Stack
  <2>4. LastSynced' = Head(blocks').height
    BY <1>1 DEF LastSynced
  <2> QED BY <2>1, <2>2, <2>3, <2>4
<1>8. OnBranch(fork, existing, active) /\ (expecting - 1 =< fork \/ b = active)
  <2>1. CASE existing = << >>
    <3>1. e = 0 /\ Len(existing) = 0
      BY <2>1
    <3>2. OnBranch(fork, existing, active)
      BY <3>1 DEF OnBranch
    <3>3. expecting - 1 - 0 =< fork \/ b = active
      BY <1>5, <3>1 DEF Held
    <3> QED BY <1>1, <3>2, <3>3
  <2>2. CASE existing # << >>
    <3>1. existing[1] = At(fork, existing[1].height, active)
      BY <1>1, <1>6, <2>2 DEF Linked
    <3>2. OnBranch(fork, existing, b) /\ expecting - 1 \in Int
      BY <1>1, <1>5 DEF Held
    <3>3. Stack(existing, expecting - 1) /\ existing \in Seq(Blocks) /\ fork \in Nat
      BY <1>1, <1>4
    <3> DEFINE u == expecting - 1
    <3>4. u \in Int /\ Stack(existing, u)
      BY <3>2, <3>3
    <3> HIDE DEF u
    <3>5. OnBranch(fork, existing, active) /\ (u =< fork \/ b = active)
      BY <2>2, <3>1, <3>2, <3>3, <3>4, TopTells
    <3> QED BY <3>5 DEF u
  <2> QED BY <2>1, <2>2
<1>9. \A i \in 1..c : /\ current[i] = At(fork, current[i].height, active) /\ current[i] \in scanned
                       /\ current[i].height =< tip /\ current[i].height = t + 1 - i
  BY <1>1, <1>2, <1>6 DEF Fetched, Stack
<1>10. t =< tip
  <2>1. 1 \in 1..c
    BY <1>1
  <2>2. current[1].height =< tip /\ current[1].height = t + 1 - 1
    BY <1>9, <2>1
  <2> QED BY <1>7, <2>2
<1> HIDE DEF c, e, n
<1>11. OnBranch(fork, blocks', active)
  <2> SUFFICES ASSUME NEW i \in 1..n
               PROVE  blocks'[i] = At(fork, blocks'[i].height, active)
    BY DEF OnBranch, n
  <2>1. blocks'[i] = IF i =< c THEN current[i] ELSE existing[i - c]
    BY <1>1
  <2>2. CASE i =< c
    <3>1. i \in 1..c
      BY <1>1, <2>2
    <3> QED BY <1>9, <2>1, <2>2, <3>1
  <2>3. CASE ~ (i =< c)
    <3>1. i - c \in 1..e
      BY <1>1, <2>3
    <3> QED BY <1>8, <2>1, <2>3, <3>1 DEF OnBranch, e
  <2> QED BY <2>2, <2>3
<1>12. ScannedTo(fork, scanned, t, active)
  <2> SUFFICES ASSUME NEW k \in Nat, k > Birthday, k =< t
               PROVE  At(fork, k, active) \in scanned
    BY DEF ScannedTo
  <2>1. CASE k =< expecting - 1
    <3>1. At(fork, k, b) \in scanned
      BY <1>5, <2>1 DEF Held, ScannedTo
    <3>2. k =< fork \/ active = b
      BY <1>1, <1>4, <1>8, <2>1
    <3>3. At(fork, k, active) = At(fork, k, b)
      BY <1>4, <3>2, SameBlock
    <3> QED BY <3>1, <3>3
  <2>2. CASE ~ (k =< expecting - 1)
    <3> DEFINE i == t + 1 - k
    <3>1. i \in 1..c /\ t + 1 - i = k
      BY <1>1, <1>7, <2>2
    <3> HIDE DEF i
    <3>2. current[i].height = k /\ current[i] = At(fork, current[i].height, active) /\ current[i] \in scanned
      BY <1>9, <3>1
    <3> QED BY <3>2
  <2> QED BY <2>1, <2>2
<1>13. t - n =< fork \/ Deep(fork, tip)
  <2>1. CASE n = c + e
    <3>1. t - n = expecting - 1 - e
      BY <1>1, <2>1
    <3>2. expecting - 1 - e =< fork \/ Deep(fork, tip)
      BY <1>5 DEF Held, e
    <3> QED BY <3>1, <3>2
  <2>2. CASE n = MaxReorg
    <3>1. CASE t =< fork + MaxReorg
      BY <1>4, <1>7, <2>2, <3>1
    <3>2. CASE ~ (t =< fork + MaxReorg)
      BY <1>4, <1>7, <1>10, <3>2 DEF Deep
    <3> QED BY <3>1, <3>2
  <2> QED BY <1>1, <2>1, <2>2
<1>14. Held(fork, tip, active, blocks', scanned, t, active)
  BY <1>11, <1>12, <1>13 DEF Held, n
<1>15. Accounted(fork, tip, active, blocks', << >>, scanned)
  <2> SUFFICES ASSUME NEW x \in scanned
               PROVE  \/ x.height =< fork /\ x.branch = 0
                      \/ \E i \in 1..n : x = blocks'[i]
                      \/ Deep(fork, tip) /\ x = At(fork, x.height, active)
    BY DEF Accounted, n
  <2>1. ASSUME NEW j \in 1..(c + e), x = IF j =< c THEN current[j] ELSE existing[j - c]
        PROVE  \/ x.height =< fork /\ x.branch = 0
               \/ \E i \in 1..n : x = blocks'[i]
               \/ Deep(fork, tip) /\ x = At(fork, x.height, active)
    <3>0. j \in Nat \ {0}
      BY <1>1
    <3>1. x = At(fork, x.height, active) /\ x.height = t + 1 - j /\ x.height \in Nat
      <4>0. x \in Blocks
        BY <1>3 DEF Types
      <4>1. CASE j =< c
        <5>1. j \in 1..c /\ x = current[j]
          BY <1>1, <2>1, <3>0, <4>1
        <5> QED BY <1>9, <4>0, <5>1 DEF Blocks
      <4>2. CASE ~ (j =< c)
        <5>1. j - c \in 1..e /\ x = existing[j - c]
          BY <1>1, <2>1, <3>0, <4>2
        <5>2. x = At(fork, x.height, active)
          BY <1>8, <5>1 DEF OnBranch, e
        <5>3. x.height = expecting - 1 + 1 - (j - c)
          BY <1>1, <5>1 DEF Stack, e
        <5>4. expecting - 1 + 1 - (j - c) = t + 1 - j
          BY <1>1, <3>0
        <5> QED BY <4>0, <5>2, <5>3, <5>4 DEF Blocks
      <4> QED BY <4>1, <4>2
    <3>2. CASE j =< n
      <4>1. j \in 1..n /\ blocks'[j] = x
        BY <1>1, <2>1, <3>0, <3>2
      <4> QED BY <4>1
    <3>3. CASE ~ (j =< n)
      <4>1. n = MaxReorg
        BY <1>1, <3>0, <3>3
      <4>2. CASE x.height =< fork
        BY <1>4, <3>1, <4>2, BlockParts
      <4>3. CASE ~ (x.height =< fork)
        <5> HIDE DEF t
        <5>1. t > fork + MaxReorg
          BY <1>4, <1>7, <3>0, <3>1, <3>3, <4>1, <4>3
        <5>2. Deep(fork, tip)
          BY <1>4, <1>7, <1>10, <5>1 DEF Deep
        <5> QED BY <3>1, <5>2
      <4> QED BY <4>2, <4>3
    <3> QED BY <3>2, <3>3
  <2>2. CASE \E i \in 1..Len(existing) : x = existing[i]
    <3>1. PICK i \in 1..e : x = existing[i]
      BY <2>2 DEF e
    <3>2. i + c \in 1..(c + e) /\ ~ (i + c =< c) /\ (i + c) - c = i
      BY <1>1
    <3>3. x = IF i + c =< c THEN current[i + c] ELSE existing[(i + c) - c]
      BY <3>1, <3>2
    <3> QED BY <2>1, <3>2, <3>3
  <2>3. CASE \E i \in 1..Len(current) : x = current[i]
    <3>1. PICK i \in 1..c : x = current[i]
      BY <2>3 DEF c
    <3>2. i \in 1..(c + e) /\ i =< c
      BY <1>1
    <3>3. x = IF i =< c THEN current[i] ELSE existing[i - c]
      BY <3>1, <3>2
    <3> QED BY <2>1, <3>2, <3>3
  <2> QED BY <1>6, <2>2, <2>3 DEF Accounted
<1>16. QuietInv'
  BY <1>2, <1>4, <1>7, <1>11, <1>14, <1>15 DEF QuietInv
<1>17. InBatchInv'
  BY <1>2 DEF InBatchInv
<1>18. WorkLeft'
  BY <1>2, <1>11 DEF WorkLeft
<1> QED BY <1>16, <1>17, <1>18 DEF CalmInv

\* Nothing changes.
LEMMA StutterCalm == CalmInv /\ UNCHANGED vars => CalmInv'
<1> SUFFICES ASSUME CalmInv, UNCHANGED vars PROVE CalmInv'
  OBVIOUS
<1>1. UNCHANGED <<fork, tip, active, flips, blocks, scanned, pc, batches, outcome, stable, existing, current,
                  expecting, incoming, decrypt, manager, fetcher, reorgs, failed>>
  BY DEF vars, server, wallet, main, batch
<1>2. LastSynced' = LastSynced
  BY <1>1 DEF LastSynced
<1> QED BY <1>1, <1>2 DEF CalmInv, QuietInv, InBatchInv, WorkLeft

\* Every step of the specification.
LEMMA CalmStep == Calm /\ BatchInv /\ HasBatch /\ CalmInv /\ [Next]_vars => CalmInv'
<1> SUFFICES ASSUME Calm, BatchInv, HasBatch, CalmInv, [Next]_vars PROVE CalmInv'
  OBVIOUS
<1>1. CASE Mine
  BY <1>1, MineCalm
<1>2. CASE Flip
  BY <1>2, FlipCalm
<1>3. CASE SyncBehind \/ SyncDone \/ AlreadySynced
  BY <1>3, IdleCalm
<1>4. CASE StartSync
  BY <1>4, StartCalm
<1>5. CASE StartBatch
  BY <1>5, BeginCalm
<1>6. CASE NoBlocks
  BY <1>6, EmptyCalm
<1>7. CASE EndBatch
  BY <1>7, EndCalm
<1>8. CASE BatchFails
  BY <1>8, NoFailure
<1>9. CASE Fetcher
  BY <1>9, FetchCalm, StreamCalm, AnswerCalm DEF Fetcher
<1>10. CASE ReceiveBlock
  BY <1>10, BlockCalm
<1>11. CASE BlocksDone
  BY <1>11, ClosedCalm
<1>12. CASE Worker
  BY <1>12, WorkerCalm
<1>13. CASE UNCHANGED vars
  BY <1>13, StutterCalm
<1> QED BY <1>1, <1>2, <1>3, <1>4, <1>5, <1>6, <1>7, <1>8, <1>9, <1>10, <1>11, <1>12, <1>13
        DEF Next, Main, Manager

\* What the records of a wallet have to do with its blocks, when no batch fails half
\* way and the server changes its branch between batches, as often as it likes.
THEOREM CalmInvariant == Calm => (Spec => []CalmInv)
<1> SUFFICES ASSUME Calm PROVE Spec => []CalmInv
  OBVIOUS
<1>1. Init => CalmInv
  BY InitCalm
<1>2. (BatchInv /\ HasBatch) /\ CalmInv /\ [Next]_vars => CalmInv'
  BY CalmStep
<1> QED BY <1>1, <1>2, BatchInvariant, PTL DEF Spec

\* In a settled wallet the branch of its blocks is the server's.
LEMMA SettledBranch ==
  ASSUME BatchInv, CalmInv, Settled
  PROVE  /\ OnBranch(fork, blocks, active)
         /\ ScannedTo(fork, scanned, LastSynced, active)
         /\ Accounted(fork, tip, active, blocks, << >>, scanned)
         /\ fork \in Nat /\ LastSynced \in Nat
<1>1. Types /\ HeightInv /\ QuietInv /\ pc = "idle" /\ outcome = "success" /\ stable /\ blocks # << >>
  BY DEF BatchInv, CalmInv, Settled
<1>2. PICK b \in Branches : Held(fork, tip, active, blocks, scanned, LastSynced, b)
  BY <1>1 DEF QuietInv
<1>3. OnBranch(fork, blocks, active) /\ Accounted(fork, tip, active, blocks, << >>, scanned)
  BY <1>1 DEF QuietInv
<1>4. LastSynced \in Nat /\ Stack(blocks, LastSynced) /\ blocks \in Seq(Blocks) /\ fork \in Nat
  BY <1>1, LastSyncedOf DEF Types
<1>5. blocks[1] = At(fork, blocks[1].height, active)
  <2>1. 1 \in 1..Len(blocks)
    BY <1>1, <1>4, EmptySeq
  <2> QED BY <1>3, <2>1 DEF OnBranch
<1>6. LastSynced =< fork \/ b = active
  <2>1. OnBranch(fork, blocks, b) /\ LastSynced \in Int
    BY <1>2, <1>4 DEF Held
  <2> QED BY <1>1, <1>4, <1>5, <2>1, TopTells
<1>7. ScannedTo(fork, scanned, LastSynced, active)
  <2> SUFFICES ASSUME NEW k \in Nat, k > Birthday, k =< LastSynced
               PROVE  At(fork, k, active) \in scanned
    BY DEF ScannedTo
  <2>1. At(fork, k, b) \in scanned
    BY <1>2 DEF Held, ScannedTo
  <2>2. k =< fork \/ active = b
    BY <1>4, <1>6
  <2>3. At(fork, k, active) = At(fork, k, b)
    BY <1>4, <2>2, SameBlock
  <2> QED BY <2>1, <2>3
<1> QED BY <1>3, <1>4, <1>7

\* After a sync against a server that kept its branch every block of the server's
\* chain above the birthday was scanned: reorganisations of up to MAX_REORG blocks between
\* batches lose no transaction (start_sync, handle_reorgs_populate_data_inner).
THEOREM SyncMissesNothing == Calm => (Spec => []NothingMissed)
<1> SUFFICES ASSUME Calm PROVE Spec => []NothingMissed
  OBVIOUS
<1>1. BatchInv /\ CalmInv => NothingMissed
  <2> SUFFICES ASSUME BatchInv, CalmInv, Settled, NEW h \in (Birthday + 1)..LastSynced
               PROVE  BlockAt(h, active) \in scanned
    BY DEF NothingMissed
  <2>1. h \in Nat /\ h > Birthday /\ h =< LastSynced
    BY SettledBranch, Sizes
  <2>2. At(fork, h, active) \in scanned
    BY <2>1, SettledBranch DEF ScannedTo
  <2> QED BY <2>2 DEF BlockAt, At
<1> QED BY <1>1, CalmInvariant, BatchInvariant, PTL

\* And no record comes from a block the server has abandoned
\* (invalidate_all_transactions_after_or_at_height is called for every one of them).
THEOREM SyncLeavesNothingStale == Calm => (Spec => []NothingStale)
<1> SUFFICES ASSUME Calm PROVE Spec => []NothingStale
  OBVIOUS
<1>1. BatchInv /\ CalmInv => NothingStale
  <2> SUFFICES ASSUME BatchInv, CalmInv, Settled, NEW x \in scanned
               PROVE  x = BlockAt(x.height, active)
    BY DEF NothingStale
  <2>0. x \in Blocks /\ x = [height |-> x.height, branch |-> x.branch]
    BY DEF BatchInv, Types, Blocks
  <2>1. CASE x.height =< fork /\ x.branch = 0
    BY <2>0, <2>1 DEF BlockAt
  <2>2. CASE \E i \in 1..Len(blocks) : x = blocks[i]
    <3>1. x = At(fork, x.height, active)
      BY <2>2, SettledBranch DEF OnBranch
    <3> QED BY <3>1 DEF BlockAt, At
  <2>3. CASE x = At(fork, x.height, active)
    BY <2>3 DEF BlockAt, At
  <2>4. ~ \E i \in 1..Len(<< >>) : x = << >>[i]
    OBVIOUS
  <2> QED BY <2>1, <2>2, <2>3, <2>4, SettledBranch DEF Accounted
<1> QED BY <1>1, CalmInvariant, BatchInvariant, PTL
-----------------------------------------------------------------------------
(* The records and the blocks that the wallet holds *)

\* A record from height low upwards comes from a block in one of the two lists,
\* or from one at a height where the branches have not parted.
Within(f, s, c, sc, low) ==
  \A x \in sc : \/ x.height =< f \/ x.height < low
                \/ \E i \in 1..Len(s) : x = s[i]
                \/ \E i \in 1..Len(c) : x = c[i]

\* Of the heights that the blocks of the wallet reach down to, or those of its
\* batch, no other block than theirs is recorded.
Matched ==
  /\ pc \in {"idle", "next"} => Within(fork, blocks, << >>, scanned, LastSynced + 1 - Len(blocks))
  /\ pc = "run" => Within(fork, existing, current, scanned, expecting - Len(existing))

\* Popping the top block, with its records.
LEMMA PopWithin ==
  ASSUME NEW f, NEW s \in Seq(Blocks), NEW c, NEW sc, NEW low, NEW t \in Nat, s # << >>, Stack(s, t),
         Within(f, s, c, sc, low)
  PROVE  Within(f, Tail(s), c, {x \in sc : x.height < t}, low)
<1>1. /\ Len(Tail(s)) = Len(s) - 1 /\ s[1].height = t /\ Len(s) \in Nat
      /\ \A i \in 1..Len(Tail(s)) : Tail(s)[i] = s[i + 1]
  BY StackTail
<1> SUFFICES ASSUME NEW x \in sc, x.height < t
             PROVE  \/ x.height =< f \/ x.height < low
                    \/ \E i \in 1..Len(Tail(s)) : x = Tail(s)[i]
                    \/ \E i \in 1..Len(c) : x = c[i]
  BY DEF Within
<1>2. CASE \E i \in 1..Len(s) : x = s[i]
  <2>1. PICK i \in 1..Len(s) : x = s[i]
    BY <1>2
  <2>2. i # 1
    BY <1>1, <2>1
  <2>3. i - 1 \in 1..Len(Tail(s)) /\ (i - 1) + 1 = i
    BY <1>1, <2>2
  <2>4. Tail(s)[i - 1] = s[i]
    BY <1>1, <2>3
  <2> QED BY <2>1, <2>3, <2>4
<1> QED BY <1>2 DEF Within

\* The first state.
LEMMA InitMatched == Init => Matched
BY DEF Init, Matched, Within

\* A step that leaves the records and the lists alone.
LEMMA SameMatched ==
  ASSUME Matched, UNCHANGED <<fork, blocks, scanned, existing, current, expecting>>,
         pc' = pc \/ (pc \in {"idle", "next"} /\ pc' \in {"idle", "next"})
  PROVE  Matched'
<1>1. LastSynced' = LastSynced
  BY DEF LastSynced
<1> QED BY <1>1 DEF Matched

\* A sync begins.  When the block that is popped is the last one, it is the one
\* just above the height where the branches part.
LEMMA StartMatched == BatchInv /\ CalmInv /\ Matched /\ StartSync => Matched'
<1> SUFFICES ASSUME BatchInv, CalmInv, Matched, StartSync PROVE Matched'
  OBVIOUS
<1>0. Types /\ HeightInv
  BY DEF BatchInv
<1>1. pc = "idle" /\ pc' = "next" /\ fork' = fork
  BY DEF StartSync, server
<1>2. /\ tip \in Nat /\ fork \in Nat /\ LastSynced \in Nat /\ Stack(blocks, LastSynced) /\ blocks \in Seq(Blocks)
      /\ scanned \subseteq Blocks /\ Len(blocks) \in Nat
  <2>1. blocks \in Seq(Blocks)
    BY <1>0 DEF Types
  <2>2. Len(blocks) \in Nat
    BY <2>1
  <2>3. tip \in Nat /\ fork \in Nat /\ scanned \subseteq Blocks
    BY <1>0 DEF Types
  <2> QED BY <1>0, <2>1, <2>2, <2>3, LastSyncedOf
<1>3. PICK b \in Branches : Held(fork, tip, active, blocks, scanned, LastSynced, b)
  BY <1>1 DEF CalmInv, QuietInv
<1>4. Within(fork, blocks, << >>, scanned, LastSynced + 1 - Len(blocks))
  BY <1>1 DEF Matched
<1>5. CASE OneBlockReorg
  <2>1. InvalidateTop /\ blocks # << >> /\ tip = LastSynced /\ Head(blocks) # BlockAt(tip, active)
    BY <1>5 DEF StartSync, OneBlockReorg
  <2>2. blocks' = Tail(blocks) /\ scanned' = {x \in scanned : x.height < LastSynced}
    BY <1>0, <2>1, LastSyncedOf DEF InvalidateTop, Below
  <2>3. Within(fork, blocks', << >>, scanned', LastSynced + 1 - Len(blocks))
    <3> DEFINE low == LastSynced + 1 - Len(blocks)
    <3>1. Within(fork, blocks, << >>, scanned, low)
      BY <1>4
    <3> HIDE DEF low
    <3>2. Within(fork, Tail(blocks), << >>, {x \in scanned : x.height < LastSynced}, low)
      BY <1>2, <2>1, <3>1, PopWithin
    <3> QED BY <2>2, <3>2 DEF low
  <2>4. Len(blocks') = Len(blocks) - 1 /\ Head(blocks) = blocks[1] /\ blocks[1].height = LastSynced
    BY <1>2, <2>1, <2>2, StackTail
  <2>5. CASE blocks' # << >>
    <3>1. LastSynced' = LastSynced - 1
      BY <1>0, <2>1, <2>5, PoppedWallet
    <3>2. LastSynced' + 1 - Len(blocks') = LastSynced + 1 - Len(blocks)
      BY <1>2, <2>4, <3>1
    <3>3. Within(fork, blocks', << >>, scanned', LastSynced' + 1 - Len(blocks'))
      BY <2>3, <3>2, Zenon
    <3> QED BY <1>1, <3>3 DEF Matched
  <2>6. CASE blocks' = << >>
    <3>1. Len(blocks) = 1
      BY <1>2, <2>4, <2>6
    <3>2. 1 \in 1..Len(blocks)
      BY <3>1
    <3>3. blocks[1] = At(fork, LastSynced, b)
      BY <1>3, <2>4, <3>2 DEF Held, OnBranch
    <3>4. At(fork, LastSynced, b) # At(fork, LastSynced, active)
      BY <2>1, <2>4, <3>3 DEF BlockAt, At
    <3>5. b # active
      BY <3>4
    <3>6. LastSynced - 1 =< fork
      BY <1>3, <3>1, <3>5 DEF Held
    <3>7. ASSUME NEW x \in scanned' PROVE x.height =< fork
      <4>1. x.height \in Nat /\ x.height < LastSynced
        BY <1>2, <2>2, <3>7 DEF Blocks
      <4> QED BY <1>2, <3>6, <4>1
    <3>8. Within(fork, blocks', << >>, scanned', LastSynced' + 1 - Len(blocks'))
      BY <3>7 DEF Within
    <3> QED BY <1>1, <3>8 DEF Matched
  <2> QED BY <2>5, <2>6
<1>6. CASE ~ OneBlockReorg
  <2>1. blocks' = blocks /\ scanned' = scanned
    BY <1>6 DEF StartSync, wallet
  <2>2. LastSynced' = LastSynced
    BY <2>1 DEF LastSynced
  <2> QED BY <1>1, <1>4, <2>1, <2>2 DEF Matched
<1> QED BY <1>5, <1>6

\* A batch begins, or ends without a block.
LEMMA EdgeMatched == BatchInv /\ CalmInv /\ Matched /\ (StartBatch \/ NoBlocks) => Matched'
<1> SUFFICES ASSUME BatchInv, CalmInv, Matched, StartBatch \/ NoBlocks PROVE Matched'
  OBVIOUS
<1>1. UNCHANGED <<fork, blocks, scanned>>
  BY DEF StartBatch, NoBlocks, server, wallet
<1>2. LastSynced' = LastSynced /\ LastSynced \in Nat
  <2>1. LastSynced' = LastSynced
    BY <1>1 DEF LastSynced
  <2> QED BY <2>1, LastSyncedOf DEF BatchInv
<1>3. CASE StartBatch
  <2>1. pc = "next" /\ pc' = "run" /\ existing' = blocks /\ current' = << >> /\ expecting' = LastSynced + 1
    BY <1>3 DEF StartBatch
  <2>2. Within(fork, blocks, << >>, scanned, LastSynced + 1 - Len(blocks))
    BY <2>1 DEF Matched
  <2>3. expecting' - Len(existing') = LastSynced + 1 - Len(blocks)
    <3>1. expecting' = LastSynced + 1
      BY <2>1
    <3>2. Len(existing') = Len(blocks)
      BY <2>1
    <3>3. PICK k \in Nat : k = Len(blocks)
      <4>1. blocks \in Seq(Blocks)
        BY DEF BatchInv, Types
      <4> QED BY <4>1
    <3>4. PICK h \in Nat : h = LastSynced
      BY <1>2
    <3>5. (h + 1) - k = h + 1 - k
      OBVIOUS
    <3> QED BY <3>1, <3>2, <3>3, <3>4, <3>5, Zenon
  <2>4. Within(fork, existing', current', scanned, expecting' - Len(existing'))
    BY <2>1, <2>2, <2>3, Zenon
  <2> QED BY <1>1, <2>1, <2>4 DEF Matched
<1>4. CASE NoBlocks
  <2>1. pc = "run" /\ pc' = "next" /\ current = << >>
    BY <1>4 DEF NoBlocks, BatchReturns
  <2>2. existing = blocks /\ expecting = LastSynced + 1
    BY <2>1 DEF CalmInv, InBatchInv
  <2>3. Within(fork, existing, current, scanned, expecting - Len(existing))
    BY <2>1 DEF Matched
  <2> QED BY <1>1, <1>2, <2>1, <2>2, <2>3 DEF Matched
<1> QED BY <1>3, <1>4

\* The manager receives a block.
LEMMA BlockMatched == BatchInv /\ Matched /\ ReceiveBlock => Matched'
<1> SUFFICES ASSUME BatchInv, Matched, ReceiveBlock PROVE Matched'
  OBVIOUS
<1> DEFINE z == incoming[1].block
<1>1. /\ z \in Blocks /\ current' = Append(current, z) /\ UNCHANGED <<fork, blocks>>
      /\ pc = "run" /\ pc' \in {"run", "panicked"}
  BY BlockReceived
<1>2. Types /\ HeightInv
  BY DEF BatchInv
<1>3. current \in Seq(Blocks) /\ existing \in Seq(Blocks) /\ expecting \in Nat /\ Stack(existing, expecting - 1)
  BY <1>2 DEF Types, HeightInv
<1> HIDE DEF z
<1>4. Within(fork, existing, current, scanned, expecting - Len(existing))
  BY <1>1 DEF Matched
<1>5. Within(fork, existing', current, scanned', expecting' - Len(existing'))
  <2>1. CASE Passes \/ Follows
    BY <1>4, <2>1 DEF Passes, Follows
  <2>2. CASE Pops
    <3> DEFINE t == expecting - 1
               low == expecting - Len(existing)
    <3>1. /\ existing # << >> /\ t > 0 /\ existing' = Tail(existing) /\ expecting' = t
          /\ scanned' = {x \in scanned : x.height < t}
      BY <2>2 DEF Pops
    <3>2. t \in Nat /\ Stack(existing, t) /\ Within(fork, existing, current, scanned, low)
      BY <1>3, <1>4, <3>1
    <3>3. Len(Tail(existing)) = Len(existing) - 1 /\ Len(existing) \in Nat
      BY <1>3, <3>1
    <3>4. t - Len(Tail(existing)) = low
      <4>1. PICK e \in Nat : e = Len(existing)
        BY <3>3
      <4>2. t - (e - 1) = expecting - e
        BY <1>3
      <4> QED BY <3>3, <4>1, <4>2, Zenon
    <3>5. expecting' - Len(existing') = low
      BY <3>1, <3>4, Zenon
    <3> HIDE DEF t, low
    <3>6. Within(fork, Tail(existing), current, {x \in scanned : x.height < t}, low)
      BY <1>3, <3>1, <3>2, PopWithin
    <3> QED BY <3>1, <3>5, <3>6, Zenon
  <2> QED BY <2>1, <2>2, BlockReceived
<1>6. Len(current') = Len(current) + 1 /\ Len(current) \in Nat /\ \A i \in 1..Len(current) : current'[i] = current[i]
  BY <1>1, <1>3
<1>7. \A i \in 1..Len(current) : i \in 1..Len(current')
  BY <1>6
<1>8. Within(fork, existing', current', scanned', expecting' - Len(existing'))
  BY <1>5, <1>6, <1>7 DEF Within
<1> QED BY <1>1, <1>8 DEF Matched

\* A block of the batch is scanned.
LEMMA WorkerMatched == Calm /\ BatchInv /\ CalmInv /\ Matched /\ Worker => Matched'
<1> SUFFICES ASSUME Calm, BatchInv, CalmInv, Matched, Worker PROVE Matched'
  OBVIOUS
<1>1. PICK x \in decrypt : ScanBlock(x)
  BY DEF Worker, WorkerFails, Calm
<1>2. /\ pc = "run" /\ pc' = "run" /\ FetchEnded /\ scanned' = scanned \cup {x}
      /\ UNCHANGED <<fork, existing, current, expecting>>
  BY <1>1 DEF ScanBlock, server, main
<1>3. Fetched(fork, tip, active, current, incoming, decrypt, scanned, fetcher) /\ RunInv
  BY <1>2 DEF CalmInv, InBatchInv, BatchInv
<1>4. incoming = << >>
  BY <1>2, <1>3 DEF Fetched, FetchEnded, RunInv
<1>5. Len(incoming) = 0
  BY <1>4
<1>6. \E j \in 1..Len(current) : x = current[j]
  BY <1>3, <1>5 DEF Fetched
<1>7. Within(fork, existing, current, scanned, expecting - Len(existing))
  BY <1>2 DEF Matched
<1>8. Within(fork, existing, current, scanned', expecting - Len(existing))
  BY <1>2, <1>6, <1>7 DEF Within
<1> QED BY <1>2, <1>8 DEF Matched

\* The wallet takes over the blocks: what is cut off is below them.
LEMMA EndMatched == BatchInv /\ Matched /\ EndBatch => Matched'
<1> SUFFICES ASSUME BatchInv, Matched, EndBatch PROVE Matched'
  OBVIOUS
<1> DEFINE c == Len(current)
           e == Len(existing)
           n == Len(blocks')
           t == expecting + c - 1
<1>1. /\ expecting \in Nat \ {0} /\ c \in Nat \ {0} /\ e \in Nat
      /\ blocks' \in Seq(Blocks) /\ n \in Nat \ {0} /\ blocks' # << >> /\ n =< c + e
      /\ \A i \in 1..n : blocks'[i] = IF i =< c THEN current[i] ELSE existing[i - c]
      /\ Stack(blocks', t) /\ Stack(current, t) /\ Stack(existing, expecting - 1)
      /\ pc = "run"
  BY DrainedBlocks
<1>2. pc' = "next" /\ UNCHANGED <<fork, scanned>>
  BY DEF EndBatch, BatchReturns, server
<1>3. t \in Nat
  BY <1>1
<1>4. LastSynced' = t
  <2> HIDE DEF t, n
  <2>1. Head(blocks') = blocks'[1] /\ 1 \in 1..Len(blocks')
    BY <1>1, EmptySeq
  <2>2. blocks'[1].height = t + 1 - 1
    BY <1>1, <2>1 DEF Stack
  <2>3. LastSynced' = blocks'[1].height
    BY <1>1, <2>1 DEF LastSynced
  <2> QED BY <1>3, <2>2, <2>3
<1>5. Within(fork, existing, current, scanned, expecting - e)
  BY <1>1 DEF Matched
<1>6. scanned \subseteq Blocks /\ fork \in Nat
  BY DEF BatchInv, Types
<1>7. ASSUME NEW x \in scanned
      PROVE  \/ x.height =< fork \/ x.height < t + 1 - n
             \/ \E i \in 1..n : x = blocks'[i]
  <2>0. x.height \in Nat
    BY <1>6 DEF Blocks
  <2>1. CASE x.height < expecting - e
    BY <1>1, <2>0, <2>1
  <2>2. CASE \E i \in 1..c : x = current[i]
    <3>1. PICK i \in 1..c : x = current[i]
      BY <2>2
    <3>2. x.height = t + 1 - i
      BY <1>1, <3>1 DEF Stack
    <3>3. CASE i =< n
      <4>1. i \in 1..n /\ blocks'[i] = current[i]
        BY <1>1, <3>3
      <4> QED BY <3>1, <4>1
    <3>4. CASE i > n
      BY <1>1, <1>3, <3>2, <3>4
    <3> QED BY <1>1, <3>3, <3>4
  <2>3. CASE \E i \in 1..e : x = existing[i]
    <3>1. PICK i \in 1..e : x = existing[i]
      BY <2>3
    <3>2. x.height = expecting - 1 + 1 - i
      BY <1>1, <3>1 DEF Stack
    <3> DEFINE k == i + c
    <3>3. k \in Nat /\ k > c /\ k - c = i /\ k > 0 /\ x.height = t + 1 - k
      BY <1>1, <3>1, <3>2
    <3>4. CASE k =< n
      <4>1. k \in 1..n
        BY <1>1, <3>3, <3>4
      <4>2. ~ (k =< c)
        BY <1>1, <3>3
      <4>3. blocks'[k] = existing[k - c]
        <5> HIDE DEF k
        <5> QED BY <1>1, <4>1, <4>2
      <4> HIDE DEF k
      <4> QED BY <3>1, <3>3, <4>1, <4>3
    <3>5. CASE k > n
      <4> HIDE DEF k, t
      <4> QED BY <1>1, <1>3, <3>3, <3>5
    <3> QED BY <1>1, <3>3, <3>4, <3>5
  <2> QED BY <1>5, <2>1, <2>2, <2>3 DEF Within
<1>8. Within(fork, blocks', << >>, scanned, t + 1 - n)
  BY <1>7 DEF Within
<1> QED BY <1>2, <1>4, <1>8 DEF Matched

\* Every step of the specification.
LEMMA MatchedStep == Calm /\ BatchInv /\ CalmInv /\ Matched /\ [Next]_vars => Matched'
<1> SUFFICES ASSUME Calm, BatchInv, CalmInv, Matched, [Next]_vars PROVE Matched'
  OBVIOUS
<1>1. CASE Mine \/ Flip \/ Fetcher \/ BlocksDone \/ UNCHANGED vars
  <2>1. UNCHANGED <<fork, blocks, scanned, existing, current, expecting, pc>>
    BY <1>1 DEF Mine, Flip, Fetcher, FetchBlock, StreamEnds, FetchFails, ReceiveReorg, BlocksDone,
                vars, server, wallet, main, batch
  <2> QED BY <2>1, SameMatched
<1>2. CASE SyncBehind \/ SyncDone \/ AlreadySynced
  <2>1. /\ UNCHANGED <<fork, blocks, scanned, existing, current, expecting>>
        /\ pc \in {"idle", "next"} /\ pc' \in {"idle", "next"}
    BY <1>2 DEF SyncBehind, SyncDone, AlreadySynced, BatchReturns, server, wallet, batch
  <2> QED BY <2>1, SameMatched
<1>3. CASE StartSync
  BY <1>3, StartMatched
<1>4. CASE StartBatch \/ NoBlocks
  BY <1>4, EdgeMatched
<1>5. CASE EndBatch
  BY <1>5, EndMatched
<1>6. CASE BatchFails
  BY <1>6, NoFailure
<1>7. CASE ReceiveBlock
  BY <1>7, BlockMatched
<1>8. CASE Worker
  BY <1>8, WorkerMatched
<1> QED BY <1>1, <1>2, <1>3, <1>4, <1>5, <1>6, <1>7, <1>8 DEF Next, Main, Manager

\* In a wallet at rest the blocks that it holds and its records agree.
LEMMA MatchedBlocks == BatchInv /\ CalmInv /\ Matched => RecordsMatchBlocks
<1> SUFFICES ASSUME BatchInv, CalmInv, Matched, pc = "idle", blocks # << >>
             PROVE  /\ \A x \in {blocks[i] : i \in DOMAIN blocks} : x.height > Birthday => x \in scanned
                    /\ \A x \in scanned : x.height >= blocks[Len(blocks)].height /\ x.height =< LastSynced
                                            => x \in {blocks[i] : i \in DOMAIN blocks}
                    /\ \A x \in scanned : x.height > LastSynced => x.height =< fork
  BY DEF RecordsMatchBlocks
<1> DEFINE n == Len(blocks)
           h == LastSynced
<1>1. Types /\ HeightInv /\ scanned \subseteq Blocks /\ fork \in Nat /\ blocks \in Seq(Blocks)
  BY DEF BatchInv, Types
<1>2. /\ n \in Nat \ {0} /\ DOMAIN blocks = 1..n /\ \A i \in 1..n : blocks[i] \in Blocks
      /\ h \in Nat /\ Stack(blocks, h)
  BY <1>1, LastSyncedOf, EmptySeq
<1>3. PICK b \in Branches : Held(fork, tip, active, blocks, scanned, LastSynced, b)
  BY DEF CalmInv, QuietInv
<1>4. Within(fork, blocks, << >>, scanned, h + 1 - n) /\ Accounted(fork, tip, active, blocks, << >>, scanned)
  BY DEF Matched, CalmInv, QuietInv
<1> HIDE DEF h, n
<1>5. ASSUME NEW i \in 1..n
      PROVE  /\ blocks[i].height \in Nat /\ blocks[i].height = h + 1 - i /\ blocks[i].height =< h
             /\ blocks[i] = At(fork, blocks[i].height, b)
  <2>1. blocks[i].height \in Nat
    BY <1>2 DEF Blocks
  <2>2. blocks[i].height = h + 1 - i
    BY <1>2 DEF Stack, n
  <2>3. blocks[i] = At(fork, blocks[i].height, b)
    BY <1>3 DEF Held, OnBranch, n
  <2> QED BY <1>2, <2>1, <2>2, <2>3
<1>6. ASSUME NEW i \in 1..n, blocks[i].height > Birthday PROVE blocks[i] \in scanned
  <2>1. At(fork, blocks[i].height, b) \in scanned
    BY <1>3, <1>5, <1>6 DEF Held, ScannedTo, h
  <2> QED BY <1>5, <2>1
<1>7. blocks[n].height = h + 1 - n
  BY <1>2, <1>5
<1>8. ASSUME NEW x \in scanned
      PROVE  \/ x.height =< fork \/ x.height < h + 1 - n
             \/ \E i \in 1..n : x = blocks[i]
  <2>1. Len(<< >>) = 0
    OBVIOUS
  <2> QED BY <1>4, <2>1 DEF Within, n
<1>9. ASSUME NEW x \in scanned, x.height >= h + 1 - n, x.height =< h PROVE \E i \in 1..n : x = blocks[i]
  <2>0. x.height \in Nat /\ x = [height |-> x.height, branch |-> x.branch]
    BY <1>1 DEF Blocks
  <2>1. CASE \E i \in 1..n : x = blocks[i]
    BY <2>1
  <2>2. CASE x.height =< fork /\ ~ \E i \in 1..n : x = blocks[i]
    <3>1. x = At(fork, x.height, b)
      <4>1. CASE x.branch = 0
        BY <2>0, <2>2, <4>1 DEF At
      <4>2. CASE x = At(fork, x.height, active)
        BY <1>1, <2>0, <2>2, <4>2, SameBlock
      <4>3. Len(<< >>) = 0
        OBVIOUS
      <4> QED BY <1>4, <2>2, <4>1, <4>2, <4>3 DEF Accounted, n
    <3> DEFINE i == h + 1 - x.height
    <3>2. i \in 1..n /\ h + 1 - i = x.height
      BY <1>2, <1>9, <2>0
    <3> HIDE DEF i
    <3>3. blocks[i] = At(fork, x.height, b)
      BY <1>5, <3>2
    <3> QED BY <3>1, <3>2, <3>3
  <2>3. ~ (x.height < h + 1 - n)
    BY <1>2, <1>9, <2>0
  <2> QED BY <1>8, <2>1, <2>2, <2>3
<1>10. ASSUME NEW x \in scanned, x.height > h PROVE x.height =< fork
  <2>0. x.height \in Nat
    BY <1>1 DEF Blocks
  <2>1. CASE \E i \in 1..n : x = blocks[i]
    <3>1. x.height =< h
      BY <1>5, <2>1
    <3> QED BY <1>2, <1>10, <2>0, <3>1
  <2>2. CASE x.height < h + 1 - n
    BY <1>2, <1>10, <2>0, <2>2
  <2> QED BY <1>8, <2>1, <2>2
<1> QED BY <1>2, <1>6, <1>7, <1>9, <1>10 DEF h, n

\* Between syncs the records of a wallet come from the blocks that it holds, however
\* often the server changes its branch between batches and however many of the
\* wallet's blocks are popped (last_100_blocks, invalidate_block,
\* drain_existingblocks_into_blocks_with_truncation).
THEOREM RecordsAlwaysMatch == Calm => (Spec => []RecordsMatchBlocks)
<1> SUFFICES ASSUME Calm PROVE Spec => []RecordsMatchBlocks
  OBVIOUS
<1>1. Init => Matched
  BY InitMatched
<1>2. (BatchInv /\ HasBatch) /\ CalmInv /\ Matched /\ [Next]_vars => Matched'
  BY MatchedStep
<1>3. BatchInv /\ CalmInv /\ Matched => RecordsMatchBlocks
  BY MatchedBlocks
<1> QED BY <1>1, <1>2, <1>3, CalmInvariant, BatchInvariant, PTL DEF Spec
=============================================================================
