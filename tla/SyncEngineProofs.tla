--------------------------- MODULE SyncEngineProofs ---------------------------
(***************************************************************************)
(* Proofs about SyncEngine for any number of workers, any batch size and   *)
(* any chain.                                                              *)
(***************************************************************************)
EXTENDS SyncEngine, SequenceFacts

\* A task is listed: its blocks are one of the ranges, no longer Historic.
Listed(s, t) ==
  \E k \in 1..Len(s) : SameBlocks(s[k], t) /\ s[k].priority # "Historic"

ListedTasks == {t \in ScanTasks : Listed(scan_ranges, t)}

\* Every task in flight is listed.
TasksListed ==
  /\ AllIn(hand, ListedTasks)
  /\ AllIn(scan_results, ListedTasks)
  /\ \A w \in Workers : AllIn(scan_tasks[w], ListedTasks)
  /\ \A w \in Workers : AllIn(current[w], ListedTasks)

\* The inductive invariant.
EngineInv ==
  /\ TypeOK
  /\ Shape
  /\ RangesPartition
  /\ TasksListed
  /\ MarkScannedFinds
-----------------------------------------------------------------------------
(* Lists of ranges *)

\* Replacing one element by two: what Vec::splice does to a range that is
\* split.
LEMMA SpliceTwo ==
  ASSUME NEW S, NEW s \in Seq(S), NEW k \in 1..Len(s), NEW a \in S, NEW b \in S
  PROVE  /\ Splice(s, k, << a, b >>) \in Seq(S)
         /\ Len(Splice(s, k, << a, b >>)) = Len(s) + 1
         /\ \A i \in 1..(Len(s) + 1) :
              Splice(s, k, << a, b >>)[i] =
                IF i < k THEN s[i] ELSE IF i = k THEN a
                ELSE IF i = k + 1 THEN b ELSE s[i - 1]
<1> DEFINE r == Splice(s, k, << a, b >>)
<1>1. r = [i \in 1..(Len(s) + 1) |->
             IF i < k THEN s[i] ELSE IF i = k THEN a
             ELSE IF i = k + 1 THEN b ELSE s[i - 1]]
  BY DEF Splice
<1> HIDE DEF r
<1>2. \A i \in 1..(Len(s) + 1) : r[i] \in S
  BY <1>1, ElementOfSeq
<1>3. r \in Seq(S)
  BY <1>1, <1>2, IsASeq
<1>4. Len(r) = Len(s) + 1
  BY <1>1, <1>3, LenProperties
<1>5. \A i \in 1..(Len(s) + 1) :
        r[i] = IF i < k THEN s[i] ELSE IF i = k THEN a
               ELSE IF i = k + 1 THEN b ELSE s[i - 1]
  BY <1>1
<1> QED BY <1>3, <1>4, <1>5 DEF r

\* What prepare_next_scan_range does to the list, element by element.
LEMMA PreparedRanges ==
  ASSUME NEW s \in Seq(ScanRanges), NEW k \in 1..Len(s)
  PROVE  LET r == s[k]
             t == Splice(s, k, Prepared(r))
         IN  /\ t \in Seq(ScanRanges)
             /\ Len(t) = IF Splits(r) THEN Len(s) + 1 ELSE Len(s)
             /\ \A i \in 1..(k - 1) : t[i] = s[i]
             /\ t[k] = Batch(r)
             /\ Splits(r) => /\ t[k + 1] = Rest(r)
                             /\ \A i \in (k + 2)..(Len(s) + 1) : t[i] = s[i - 1]
             /\ ~ Splits(r) => \A i \in (k + 1)..Len(s) : t[i] = s[i]
<1> DEFINE r == s[k]
<1>1. r \in ScanRanges
  BY ElementOfSeq
<1>2. Batch(r) \in ScanRanges /\ Rest(r) \in ScanRanges
  BY <1>1, EngineAssumption DEF ScanRanges, Batch, Rest, BatchEnd, Priorities
<1>3. Len(s) \in Nat /\ k \in Int /\ 1 <= k /\ k <= Len(s)
  BY LenProperties
<1> HIDE DEF r
<1>4. CASE Splits(r)
  <2> DEFINE t == Splice(s, k, << Batch(r), Rest(r) >>)
  <2>1. /\ t \in Seq(ScanRanges)
        /\ Len(t) = Len(s) + 1
        /\ \A i \in 1..(Len(s) + 1) :
              t[i] = IF i < k THEN s[i] ELSE IF i = k THEN Batch(r)
                     ELSE IF i = k + 1 THEN Rest(r) ELSE s[i - 1]
    BY <1>2, SpliceTwo
  <2> HIDE DEF t
  <2>2. \A i \in 1..(k - 1) : t[i] = s[i]
    BY <1>3, <2>1
  <2>3. t[k] = Batch(r) /\ t[k + 1] = Rest(r)
    BY <1>3, <2>1
  <2>4. \A i \in (k + 2)..(Len(s) + 1) : t[i] = s[i - 1]
    BY <1>3, <2>1
  <2> QED BY <1>4, <2>1, <2>2, <2>3, <2>4 DEF t, r, Prepared
<1>5. CASE ~ Splits(r)
  <2> DEFINE t == Splice(s, k, << Batch(r) >>)
  <2>1. /\ t \in Seq(ScanRanges)
        /\ Len(t) = Len(s)
        /\ t[k] = Batch(r)
        /\ \A i \in 1..Len(s) : i # k => t[i] = s[i]
    <3>1. t = [i \in 1..Len(s) |-> IF i = k THEN Batch(r) ELSE s[i]]
      BY <1>3 DEF Splice
    <3> HIDE DEF t
    <3>2. \A i \in 1..Len(s) : t[i] \in ScanRanges
      BY <1>2, <3>1, ElementOfSeq
    <3> QED BY <1>3, <3>1, <3>2, IsASeq
  <2> HIDE DEF t
  <2>2. \A i \in 1..(k - 1) : t[i] = s[i]
    BY <1>3, <2>1
  <2>3. t[k] = Batch(r)
    BY <1>3, <2>1
  <2>4. \A i \in (k + 1)..Len(s) : t[i] = s[i]
    BY <1>3, <2>1
  <2> QED BY <1>5, <2>1, <2>2, <2>3, <2>4 DEF t, r, Prepared
<1> QED BY <1>4, <1>5 DEF r
-----------------------------------------------------------------------------
(* Type correctness *)

\* The pool has a worker, the one probed first.
LEMMA WorkersNonEmpty == 1 \in Workers
  BY EngineAssumption DEF Workers

\* The range prepare_next_scan_range selects exists and can be selected.
LEMMA SelectedIndex ==
  ASSUME TypeOK, \E k \in 1..Len(scan_ranges) : Selectable(k)
  PROVE  Selected \in 1..Len(scan_ranges) /\ Selectable(Selected)
<1> DEFINE T == {k \in 1..Len(scan_ranges) : Selectable(k)}
<1>0. Len(scan_ranges) \in Nat
  <2>1. scan_ranges \in Seq(ScanRanges)
    BY DEF TypeOK
  <2> QED BY <2>1
<1>1. PICK x \in T : \A y \in T : x <= y
  <2>1. T \subseteq Nat /\ T # {}
    BY <1>0
  <2> HIDE DEF T
  <2> QED BY <2>1, LeastNat
<1>2. \A j \in 1..(x - 1) : ~ Selectable(j)
  <2> SUFFICES ASSUME NEW j \in 1..(x - 1), Selectable(j) PROVE FALSE
    OBVIOUS
  <2>1. x \in Nat /\ x <= Len(scan_ranges)
    BY <1>0
  <2>2. j \in T /\ j < x
    BY <1>0, <2>1
  <2> QED BY <1>1, <2>1, <2>2
<1> QED BY <1>1, <1>2 DEF Selected

\* The range mark_scanned finds has the blocks of the result.
LEMMA FoundIndex ==
  ASSUME TypeOK, NEW t, Found(t)
  PROVE  FoundAt(t) \in 1..Len(scan_ranges) /\ SameBlocks(scan_ranges[FoundAt(t)], t)
<1> DEFINE T == {k \in 1..Len(scan_ranges) : SameBlocks(scan_ranges[k], t)}
<1>0. Len(scan_ranges) \in Nat
  <2>1. scan_ranges \in Seq(ScanRanges)
    BY DEF TypeOK
  <2> QED BY <2>1
<1>1. PICK x \in T : \A y \in T : x <= y
  <2>1. T \subseteq Nat /\ T # {}
    BY <1>0 DEF Found
  <2> HIDE DEF T
  <2> QED BY <2>1, LeastNat
<1>2. \A j \in 1..(x - 1) : ~ SameBlocks(scan_ranges[j], t)
  <2> SUFFICES ASSUME NEW j \in 1..(x - 1), SameBlocks(scan_ranges[j], t)
               PROVE FALSE
    OBVIOUS
  <2>1. x \in Nat /\ x <= Len(scan_ranges)
    BY <1>0
  <2>2. j \in T /\ j < x
    BY <1>0, <2>1
  <2> QED BY <1>1, <2>1, <2>2
<1> QED BY <1>1, <1>2 DEF FoundAt

\* mark_scanned changes the priority of one range and nothing else.
LEMMA MarkedRanges ==
  ASSUME TypeOK, NEW t, Found(t)
  PROVE  LET k == FoundAt(t)
             u == [scan_ranges EXCEPT ![k].priority = "Scanned"]
         IN  /\ u \in Seq(ScanRanges)
             /\ Len(u) = Len(scan_ranges)
             /\ \A i \in 1..Len(scan_ranges) :
                  /\ u[i].start = scan_ranges[i].start
                  /\ u[i].end = scan_ranges[i].end
                  /\ u[i].priority \in {scan_ranges[i].priority, "Scanned"}
<1> DEFINE k == FoundAt(t)
           r == [scan_ranges[k] EXCEPT !.priority = "Scanned"]
           u == [scan_ranges EXCEPT ![k] = r]
<1>0. scan_ranges \in Seq(ScanRanges)
  BY DEF TypeOK
<1>1. k \in 1..Len(scan_ranges)
  BY FoundIndex
<1>2. scan_ranges[k] \in ScanRanges
  BY <1>0, <1>1, ElementOfSeq
<1>3. /\ r \in ScanRanges
      /\ r.start = scan_ranges[k].start
      /\ r.end = scan_ranges[k].end
      /\ r.priority = "Scanned"
  BY <1>2 DEF ScanRanges, Priorities
<1> HIDE DEF r, k
<1>4. /\ u \in Seq(ScanRanges)
      /\ Len(u) = Len(scan_ranges)
      /\ \A j \in 1..Len(scan_ranges) : u[j] = IF j = k THEN r ELSE scan_ranges[j]
  BY <1>0, <1>1, <1>3, ExceptSeq
<1> HIDE DEF u
<1>5. \A i \in 1..Len(scan_ranges) :
        /\ u[i].start = scan_ranges[i].start
        /\ u[i].end = scan_ranges[i].end
        /\ u[i].priority \in {scan_ranges[i].priority, "Scanned"}
  BY <1>3, <1>4
<1> QED BY <1>4, <1>5 DEF u, r, k

\* The heights of a task are naturals.
LEMMA HeightsType ==
  ASSUME NEW t \in ScanTasks
  PROVE  Heights(t) \subseteq Nat
<1>1. t.start \in Nat /\ t.end \in Nat
  BY DEF ScanTasks
<1> QED BY <1>1 DEF Heights

\* The wallet height is a natural.
LEMMA WalletHeightType ==
  ASSUME TypeOK
  PROVE  WalletHeight \in Nat
<1>0. scan_ranges \in Seq(ScanRanges)
  BY DEF TypeOK
<1>1. CASE scan_ranges = << >>
  BY <1>1, EngineAssumption DEF WalletHeight, Max2
<1>2. CASE scan_ranges # << >>
  <2>1. Len(scan_ranges) \in 1..Len(scan_ranges)
    BY <1>0, <1>2, EmptySeq
  <2>2. scan_ranges[Len(scan_ranges)] \in ScanRanges
    BY <1>0, <2>1, ElementOfSeq
  <2> QED BY <1>2, <2>2 DEF WalletHeight, ScanRanges
<1> QED BY <1>1, <1>2

\* update_scan_ranges pushes a range.
LEMMA ChainTipType ==
  ASSUME TypeOK
  PROVE  ChainTipScanRange \in ScanRanges
<1>0. chain_height \in Nat
  BY DEF TypeOK
<1>1. WalletHeight \in Nat /\ chain_height + 1 \in Nat
  BY <1>0, WalletHeightType
<1> QED BY <1>1 DEF ChainTipScanRange, ScanRanges, Priorities

\* The types hold in the initial state.
LEMMA InitType == Init => TypeOK
<1> SUFFICES ASSUME Init PROVE TypeOK
  OBVIOUS
<1>1. 1 \in Workers
  BY WorkersNonEmpty
<1> QED
  BY <1>1, EngineAssumption DEF Init, TypeOK

\* Every step keeps the types; receiving and sending need to know that the
\* sequence read is not empty, which is what Shape says.
LEMMA TypeStep == TypeOK /\ Shape /\ [Next]_vars => TypeOK'
<1> SUFFICES ASSUME TypeOK, Shape, [Next]_vars PROVE TypeOK'
  OBVIOUS
<1>0. /\ chain_height \in Nat
      /\ syncs \in Nat
      /\ probe \in Workers
      /\ hand \in Seq(ScanTasks)
      /\ scan_ranges \in Seq(ScanRanges)
      /\ scan_tasks \in [Workers -> Seq(ScanTasks)]
      /\ current \in [Workers -> Seq(ScanTasks)]
      /\ scan_results \in Seq(ScanTasks)
      /\ requests \in Seq(Workers)
  BY DEF TypeOK
<1>1. CASE ServerGrows
  <2>1. chain_height' \in Nat
    BY <1>0, <1>1 DEF ServerGrows
  <2> QED BY <1>1, <2>1 DEF ServerGrows, TypeOK, wallet, main, pool
<1>2. CASE StartSync
  <2>1. syncs' \in Nat
    BY <1>0, <1>2 DEF StartSync
  <2> QED BY <1>2, <2>1 DEF StartSync, TypeOK, wallet, main, pool
<1>3. CASE ChainHeightFails
  BY <1>3 DEF ChainHeightFails, Panic, TypeOK, wallet, main, pool
<1>4. CASE WalletAhead
  BY <1>4 DEF WalletAhead, Panic, TypeOK, wallet, main, pool
<1>6. CASE NextWorker
  <2>1. probe' \in Workers
    BY <1>0, <1>6, EngineAssumption DEF NextWorker, Workers
  <2> QED BY <1>6, <2>1 DEF NextWorker, TypeOK, wallet, main, pool
<1>7. CASE NoWorkerIdle
  BY <1>7 DEF NoWorkerIdle, TypeOK, wallet, main, pool
<1>9. CASE NothingToScan
  BY <1>9 DEF NothingToScan, TypeOK, wallet, main, pool
<1>10. CASE AddScanTask
  <2>1. hand[1] \in ScanTasks
    <3>1. Len(hand) = 1
      BY <1>10 DEF AddScanTask, Shape, HandShape
    <3>2. 1 \in 1..Len(hand)
      BY <3>1
    <3> QED BY <1>0, <3>2, ElementOfSeq
  <2>2. Append(scan_tasks[probe], hand[1]) \in Seq(ScanTasks)
    BY <1>0, <2>1, AppendProperties
  <2>3. scan_tasks' \in [Workers -> Seq(ScanTasks)]
    BY <1>0, <1>10, <2>2 DEF AddScanTask
  <2>4. hand' \in Seq(ScanTasks)
    BY <1>10, EmptySeq DEF AddScanTask
  <2> QED BY <1>10, <2>3, <2>4 DEF AddScanTask, TypeOK, wallet, main, pool
<1>11. CASE NoIdleWorkers
  BY <1>11 DEF NoIdleWorkers, Panic, TypeOK, wallet, main, pool
<1>13. CASE NoScanResults
  BY <1>13, WorkersNonEmpty DEF NoScanResults, TypeOK, wallet, main, pool
<1>14. CASE ResultsClosed
  BY <1>14 DEF ResultsClosed, TypeOK, wallet, main, pool
<1>15. CASE JoinFetcher
  BY <1>15 DEF JoinFetcher, Panic, TypeOK, wallet, main, pool
<1>16. ASSUME NEW w \in Workers, ReceiveScanTask(w)
       PROVE  TypeOK'
  <2>1. /\ Head(scan_tasks[w]) \in ScanTasks
        /\ Tail(scan_tasks[w]) \in Seq(ScanTasks)
    BY <1>0, <1>16, HeadTailProperties DEF ReceiveScanTask
  <2>2. << Head(scan_tasks[w]) >> \in Seq(ScanTasks)
    BY <2>1
  <2>3. /\ scan_tasks' \in [Workers -> Seq(ScanTasks)]
        /\ current' \in [Workers -> Seq(ScanTasks)]
    BY <1>0, <1>16, <2>1, <2>2 DEF ReceiveScanTask
  <2> QED BY <1>16, <2>3 DEF ReceiveScanTask, TypeOK, wallet, main, pool
<1>17. ASSUME NEW w \in Workers, RequestBlocks(w)
       PROVE  TypeOK'
  <2>1. requests' \in Seq(Workers)
    BY <1>0, <1>17, AppendProperties DEF RequestBlocks, Request
  <2> QED BY <1>17, <2>1 DEF RequestBlocks, TypeOK, wallet, main, pool
<1>18. ASSUME NEW w \in Workers, RequestFrontiers(w)
       PROVE  TypeOK'
  <2>1. requests' \in Seq(Workers)
    BY <1>0, <1>18, AppendProperties DEF RequestFrontiers, Request
  <2> QED BY <1>18, <2>1 DEF RequestFrontiers, TypeOK, wallet, main, pool
<1>19. ASSUME NEW w \in Workers, SendScanResults(w)
       PROVE  TypeOK'
  <2>1. current[w] \in Seq(ScanTasks) /\ current[w] # << >>
    BY <1>0, <1>19 DEF SendScanResults, Shape, CurrentShape
  <2>2. current[w][1] \in ScanTasks
    BY <2>1
  <2>3. scan_results' \in Seq(ScanTasks)
    BY <1>0, <1>19, <2>2, AppendProperties DEF SendScanResults
  <2>4. current' \in [Workers -> Seq(ScanTasks)]
    BY <1>0, <1>19, EmptySeq DEF SendScanResults
  <2> QED BY <1>19, <2>3, <2>4 DEF SendScanResults, TypeOK, wallet, main, pool
<1>20. ASSUME NEW w \in Workers, ClearScanning(w)
       PROVE  TypeOK'
  BY <1>20 DEF ClearScanning, TypeOK, wallet, main, pool
<1>21. ASSUME NEW w \in Workers, AnswerLost(w) \/ ScanPanics(w)
       PROVE  TypeOK'
  <2>1. /\ scan_tasks' \in [Workers -> Seq(ScanTasks)]
        /\ current' \in [Workers -> Seq(ScanTasks)]
    <3>1. << >> \in Seq(ScanTasks)
      BY EmptySeq
    <3>2. Die(w)
      BY <1>21 DEF AnswerLost, ScanPanics
    <3> QED BY <1>0, <3>1, <3>2 DEF Die
  <2> QED BY <1>21, <2>1 DEF AnswerLost, ScanPanics, Die, TypeOK, wallet, main, pool
<1>22. ASSUME NEW w \in Workers, WorkerEnds(w)
       PROVE  TypeOK'
  BY <1>22 DEF WorkerEnds, TypeOK, wallet, main, pool
<1>23. CASE FetchFromServer
  <2>1. requests' \in Seq(Workers)
    BY <1>0, <1>23, HeadTailProperties DEF FetchFromServer
  <2> QED BY <1>23, <2>1 DEF FetchFromServer, TypeOK, wallet, main, pool
<1>24. CASE FetchFails
  <2>1. requests' \in Seq(Workers)
    BY <1>24, EmptySeq DEF FetchFails
  <2> QED BY <1>24, <2>1 DEF FetchFails, TypeOK, wallet, main, pool
<1>25. CASE FetcherEnds
  BY <1>25 DEF FetcherEnds, TypeOK, wallet, main, pool
<1>26. CASE Finished \/ UNCHANGED vars
  BY <1>26 DEF Finished, vars, TypeOK, wallet, main, pool
<1>5. CASE UpdateScanRanges
  <2>1. scan_ranges' \in Seq(ScanRanges)
    BY <1>0, <1>5, ChainTipType, AppendProperties DEF UpdateScanRanges
  <2>2. /\ scan_tasks' \in [Workers -> Seq(ScanTasks)]
        /\ current' \in [Workers -> Seq(ScanTasks)]
    BY <1>5, EmptySeq DEF UpdateScanRanges
  <2> QED BY <1>5, <2>1, <2>2, WorkersNonEmpty
          DEF UpdateScanRanges, TypeOK, wallet, main, pool
<1>8. CASE PrepareNextScanRange
  <2> DEFINE r == scan_ranges[Selected]
  <2>1. Selected \in 1..Len(scan_ranges)
    BY <1>8, SelectedIndex DEF PrepareNextScanRange
  <2>2. r \in ScanRanges
    BY <1>0, <2>1
  <2>3. scan_ranges' \in Seq(ScanRanges)
    BY <1>0, <1>8, <2>1, PreparedRanges DEF PrepareNextScanRange
  <2> DEFINE t == [start |-> r.start, end |-> BatchEnd(r),
                   prev |-> r.start - 1 \in wallet_blocks]
  <2>4. r.start \in Nat /\ BatchEnd(r) \in Nat
    BY <2>2, EngineAssumption DEF ScanRanges, BatchEnd
  <2>5. t \in ScanTasks
    <3> DEFINE b == r.start - 1 \in wallet_blocks
    <3>1. b \in BOOLEAN
      OBVIOUS
    <3> HIDE DEF b, r
    <3>2. [start |-> r.start, end |-> BatchEnd(r), prev |-> b] \in ScanTasks
      BY <2>4, <3>1 DEF ScanTasks
    <3> QED BY <3>2 DEF b, r
  <2>6. hand' = << t >>
    BY <1>8 DEF PrepareNextScanRange
  <2> HIDE DEF t
  <2>7. hand' \in Seq(ScanTasks)
    BY <2>5, <2>6
  <2> QED BY <1>8, <2>3, <2>7, WorkersNonEmpty
          DEF PrepareNextScanRange, TypeOK, wallet, main, pool
<1>12. CASE ReceiveScanResults
  <2> DEFINE t == Head(scan_results)
  <2>1. t \in ScanTasks /\ Tail(scan_results) \in Seq(ScanTasks)
    BY <1>0, <1>12, HeadTailProperties DEF ReceiveScanResults
  <2>2. Heights(t) \subseteq Nat
    BY <2>1, HeightsType
  <2>3. scan_ranges' \in Seq(ScanRanges)
    BY <1>0, <1>12, MarkedRanges DEF ReceiveScanResults, ApplyScanResults
  <2> HIDE DEF t
  <2>4. /\ wallet_blocks' \subseteq Nat
        /\ nullifiers' \subseteq Nat
        /\ shard_trees' \subseteq Nat
    BY <1>12, <2>2 DEF ReceiveScanResults, ApplyScanResults, Relevant, t, TypeOK
  <2>5. /\ pc' \in {"check", "drain", "panicked"}
        /\ outcome' \in {outcome, "scanned range not found!"}
    BY <1>12 DEF ReceiveScanResults, ApplyScanResults, Panic
  <2> QED BY <1>12, <2>1, <2>3, <2>4, <2>5, WorkersNonEmpty
          DEF ReceiveScanResults, t, TypeOK
<1> QED
  BY <1>1, <1>2, <1>3, <1>4, <1>5, <1>6, <1>7, <1>8, <1>9, <1>10, <1>11,
     <1>12, <1>13, <1>14, <1>15, <1>16, <1>17, <1>18, <1>19, <1>20, <1>21,
     <1>22, <1>23, <1>24, <1>25, <1>26
     DEF Next, MainStep, WorkerStep, FetcherStep
-----------------------------------------------------------------------------
(* Where the work is *)

\* Initially no task, request or result exists.
LEMMA InitShape == Init => Shape
  BY DEF Init, Shape, HandShape, CurrentShape, RequestShape, QuietShape, Stopped

\* A request is sent only by a worker that waits for no other.
LEMMA RequestKeepsShape ==
  ASSUME TypeOK, RequestShape, NEW w \in Workers, w \notin Waiting,
         NEW v \in {"blocks requested", "frontiers requested"},
         worker' = [worker EXCEPT ![w] = v], Request(w), fetcher' = fetcher
  PROVE  RequestShape'
<1>0. requests \in Seq(Workers) /\ DOMAIN worker = Workers
  BY DEF TypeOK
<1>1. Waiting' = Waiting \union {w}
  BY <1>0 DEF Waiting
<1>2. AllIn(requests, Waiting) /\ Distinct(requests)
  BY DEF RequestShape, AllIn, Distinct
<1>3. CASE fetcher # "running"
  <2>1. requests' = << >>
    BY <1>3 DEF RequestShape, Request
  <2> QED BY <2>1, EmptyAllIn DEF RequestShape, AllIn, Distinct
<1>4. CASE fetcher = "running"
  <2>1. AllIn(requests, Waiting')
    BY <1>1, <1>2 DEF AllIn
  <2>2. AllIn(Append(requests, w), Waiting')
    BY <1>0, <1>1, <2>1, AppendAllIn
  <2>3. Distinct(Append(requests, w))
    BY <1>0, <1>2, AppendDistinct DEF AllIn
  <2>4. requests' = Append(requests, w)
    BY <1>4 DEF Request
  <2> QED BY <1>4, <2>2, <2>3, <2>4 DEF RequestShape, AllIn, Distinct
<1> QED BY <1>3, <1>4

\* The oldest request belongs to a worker that waits.
LEMMA HeadWaiting ==
  ASSUME TypeOK, RequestShape, requests # << >>
  PROVE  Head(requests) \in Waiting
<1>1. requests \in Seq(Workers)
  BY DEF TypeOK
<1>2. AllIn(requests, Waiting)
  BY DEF RequestShape, AllIn
<1> QED BY <1>1, <1>2, HeadAllIn

\* Serving the oldest request leaves the others waiting.
LEMMA FetchKeepsShape ==
  ASSUME TypeOK, RequestShape, FetchFromServer
  PROVE  RequestShape'
<1>0. /\ requests \in Seq(Workers) /\ DOMAIN worker = Workers
      /\ requests # << >> /\ fetcher' = "running"
  BY DEF TypeOK, FetchFromServer
<1>1. AllIn(requests, Waiting) /\ Distinct(requests)
  BY DEF RequestShape, AllIn, Distinct
<1>2. Head(requests) = requests[1] /\ requests[1] \in Workers
  BY <1>0, <1>1, HeadAllIn
<1>3. Waiting \ {requests[1]} \subseteq Waiting'
  BY <1>0, <1>2 DEF Waiting, FetchFromServer
<1>4. /\ AllIn(Tail(requests), Waiting)
      /\ Distinct(Tail(requests))
      /\ \A i \in 1..Len(Tail(requests)) : Tail(requests)[i] # requests[1]
  BY <1>0, <1>1, TailAllIn, TailDistinct
<1>5. AllIn(Tail(requests), Waiting')
  BY <1>3, <1>4 DEF AllIn
<1>6. requests' = Tail(requests)
  BY DEF FetchFromServer
<1> QED BY <1>0, <1>4, <1>5, <1>6 DEF RequestShape, AllIn, Distinct

\* Every step that is neither a worker's, nor the fetcher's, nor the start of
\* the scan leaves the workers and the requests alone.
OtherStep ==
  \/ ServerGrows \/ StartSync \/ ChainHeightFails \/ WalletAhead
  \/ NextWorker \/ NoWorkerIdle \/ PrepareNextScanRange \/ NothingToScan
  \/ AddScanTask \/ NoIdleWorkers \/ ReceiveScanResults \/ NoScanResults
  \/ ResultsClosed \/ JoinFetcher \/ Finished \/ UNCHANGED vars

\* OtherStep is what its name says.
LEMMA OtherSteps ==
  ASSUME OtherStep
  PROVE  UNCHANGED <<current, worker, requests, is_scanning>>
BY DEF OtherStep, ServerGrows, StartSync, ChainHeightFails, WalletAhead,
   NextWorker, NoWorkerIdle, PrepareNextScanRange, NothingToScan, AddScanTask,
   NoIdleWorkers, ReceiveScanResults, NoScanResults, ResultsClosed,
   JoinFetcher, Finished, vars, pool

\* The cases of a step.
LEMMA StepCases ==
  ASSUME [Next]_vars
  PROVE  \/ OtherStep
         \/ UpdateScanRanges
         \/ \E w \in Workers : WorkerStep(w) \/ ScanPanics(w)
         \/ FetchFromServer \/ FetchFails \/ FetcherEnds
BY DEF Next, MainStep, FetcherStep, OtherStep

\* PrepareNextScanRange fills the hand and AddScanTask empties it.
LEMMA HandStep == HandShape /\ [Next]_vars => HandShape'
  BY DEF HandShape, Next, vars, wallet, main, pool, Finished,
     ServerGrows, StartSync, ChainHeightFails, Panic, MainStep, WalletAhead,
     UpdateScanRanges, NextWorker, NoWorkerIdle, PrepareNextScanRange,
     NothingToScan, AddScanTask, NoIdleWorkers, ReceiveScanResults,
     ApplyScanResults, NoScanResults, ResultsClosed, JoinFetcher, WorkerStep,
     ReceiveScanTask, RequestBlocks, RequestFrontiers, SendScanResults,
     ClearScanning, AnswerLost, ScanPanics, Die, WorkerEnds, FetcherStep,
     FetchFromServer, FetchFails, FetcherEnds

\* A worker takes a task when it leaves waiting and gives it up when it has
\* sent its results or panics.
LEMMA CurrentStep ==
  TypeOK /\ CurrentShape /\ RequestShape /\ [Next]_vars => CurrentShape'
<1> SUFFICES ASSUME TypeOK, CurrentShape, RequestShape, [Next]_vars
             PROVE  CurrentShape'
  OBVIOUS
<1>0. /\ current \in [Workers -> Seq(ScanTasks)]
      /\ DOMAIN worker = Workers
      /\ requests \in Seq(Workers)
  BY DEF TypeOK
<1>1. CASE OtherStep
  BY <1>1, OtherSteps DEF CurrentShape
<1>2. CASE UpdateScanRanges
  BY <1>2 DEF UpdateScanRanges, CurrentShape
<1>3. ASSUME NEW w \in Workers, WorkerStep(w) \/ ScanPanics(w)
      PROVE  CurrentShape'
  <2>1. CASE ReceiveScanTask(w)
    <3> DEFINE t == Head(scan_tasks[w])
    <3>1. << t >> # << >>
      OBVIOUS
    <3> HIDE DEF t
    <3> QED BY <1>0, <2>1, <3>1 DEF CurrentShape, ReceiveScanTask, t
  <2>2. CASE RequestBlocks(w) \/ RequestFrontiers(w)
    BY <1>0, <2>2 DEF CurrentShape, RequestBlocks, RequestFrontiers
  <2>3. CASE SendScanResults(w)
    BY <1>0, <2>3 DEF CurrentShape, SendScanResults
  <2>4. CASE ClearScanning(w) \/ WorkerEnds(w)
    BY <1>0, <2>4 DEF CurrentShape, ClearScanning, WorkerEnds
  <2>5. CASE AnswerLost(w) \/ ScanPanics(w)
    <3>1. Die(w)
      BY <2>5 DEF AnswerLost, ScanPanics
    <3> QED BY <1>0, <3>1 DEF CurrentShape, Die
  <2> QED BY <1>3, <2>1, <2>2, <2>3, <2>4, <2>5 DEF WorkerStep
<1>4. CASE FetchFromServer
  <2>1. Head(requests) \in Waiting
    BY <1>4, HeadWaiting DEF FetchFromServer
  <2> QED BY <1>0, <1>4, <2>1 DEF FetchFromServer, CurrentShape, Waiting, pool
<1>5. CASE FetchFails \/ FetcherEnds
  BY <1>5 DEF FetchFails, FetcherEnds, pool, CurrentShape
<1> QED BY <1>1, <1>2, <1>3, <1>4, <1>5, StepCases

\* Requests are sent and answered one per waiting worker.
LEMMA RequestStep ==
  TypeOK /\ RequestShape /\ QuietShape /\ [Next]_vars => RequestShape'
<1> SUFFICES ASSUME TypeOK, RequestShape, QuietShape, [Next]_vars
             PROVE  RequestShape'
  OBVIOUS
<1>0. requests \in Seq(Workers) /\ DOMAIN worker = Workers
  BY DEF TypeOK
<1>i. pc = "idle" \/ pc = "height" => requests = << >>
  BY HeadWaiting DEF QuietShape, Stopped, Waiting
<1>1. CASE OtherStep
  <2>1. Waiting' = Waiting /\ requests' = requests
    BY <1>1, OtherSteps DEF Waiting
  <2>2. fetcher' # "running" => fetcher # "running" \/ requests = << >>
    BY <1>1, <1>i
       DEF OtherStep, ServerGrows, StartSync, ChainHeightFails, WalletAhead,
           NextWorker, NoWorkerIdle, PrepareNextScanRange, NothingToScan,
           AddScanTask, NoIdleWorkers, ReceiveScanResults, NoScanResults,
           ResultsClosed, JoinFetcher, Finished, vars
  <2> QED BY <2>1, <2>2 DEF RequestShape
<1>2. CASE UpdateScanRanges
  <2>1. requests' = << >>
    BY <1>2, <1>i DEF UpdateScanRanges
  <2> QED BY <2>1, EmptyAllIn DEF RequestShape, AllIn, Distinct
<1>3. ASSUME NEW w \in Workers, RequestBlocks(w) \/ RequestFrontiers(w)
      PROVE  RequestShape'
  <2>1. w \notin Waiting /\ Request(w) /\ fetcher' = fetcher
    BY <1>3 DEF RequestBlocks, RequestFrontiers, Waiting
  <2>2. \/ worker' = [worker EXCEPT ![w] = "blocks requested"]
        \/ worker' = [worker EXCEPT ![w] = "frontiers requested"]
    BY <1>3 DEF RequestBlocks, RequestFrontiers
  <2> QED BY <2>1, <2>2, RequestKeepsShape
<1>4. ASSUME NEW w \in Workers,
             \/ ReceiveScanTask(w) \/ SendScanResults(w) \/ ClearScanning(w)
             \/ ScanPanics(w) \/ WorkerEnds(w)
      PROVE  RequestShape'
  <2>1. requests' = requests /\ fetcher' = fetcher
    BY <1>4 DEF ReceiveScanTask, SendScanResults, ClearScanning, ScanPanics,
                Die, WorkerEnds
  <2>2. Waiting \subseteq Waiting'
    BY <1>0, <1>4 DEF ReceiveScanTask, SendScanResults, ClearScanning,
                      ScanPanics, Die, WorkerEnds, Waiting
  <2> QED BY <2>1, <2>2 DEF RequestShape
<1>5. ASSUME NEW w \in Workers, AnswerLost(w)
      PROVE  RequestShape'
  <2>1. requests' = << >>
    BY <1>5 DEF AnswerLost, Die, RequestShape
  <2> QED BY <2>1, EmptyAllIn DEF RequestShape, AllIn, Distinct
<1>6. CASE FetchFromServer
  BY <1>6, FetchKeepsShape
<1>7. CASE FetchFails \/ FetcherEnds
  <2>1. requests' = << >>
    BY <1>7 DEF FetchFails, FetcherEnds
  <2> QED BY <2>1, EmptyAllIn DEF RequestShape, AllIn, Distinct
<1> QED BY <1>1, <1>2, <1>3, <1>4, <1>5, <1>6, <1>7, StepCases DEF WorkerStep

\* The results channel is closed only when every worker has stopped.
LEMMA QuietStep ==
  TypeOK /\ RequestShape /\ QuietShape /\ [Next]_vars => QuietShape'
<1> SUFFICES ASSUME TypeOK, RequestShape, QuietShape, [Next]_vars
             PROVE  QuietShape'
  OBVIOUS
<1>0. DOMAIN worker = Workers /\ requests \in Seq(Workers)
  BY DEF TypeOK
<1>1. CASE OtherStep
  <2>1. \A w \in Workers : Stopped(w)' <=> Stopped(w)
    BY <1>1, OtherSteps DEF Stopped
  <2>2. pc' \in {"idle", "height", "join"} =>
          (\A w \in Workers : Stopped(w)) /\ scan_results' = << >>
    BY <1>1 DEF QuietShape, OtherStep, ServerGrows, StartSync,
       ChainHeightFails, Panic, WalletAhead, NextWorker, NoWorkerIdle,
       PrepareNextScanRange, NothingToScan, AddScanTask, NoIdleWorkers,
       ReceiveScanResults, ApplyScanResults, NoScanResults, ResultsClosed,
       JoinFetcher, Finished, vars, main, pool
  <2> QED BY <2>1, <2>2 DEF QuietShape
<1>2. CASE UpdateScanRanges
  BY <1>2 DEF UpdateScanRanges, QuietShape
<1>3. ASSUME NEW w \in Workers, WorkerStep(w) \/ ScanPanics(w)
      PROVE  QuietShape'
  <2>1. pc' = pc
    BY <1>3 DEF WorkerStep, ReceiveScanTask, RequestBlocks, RequestFrontiers,
                SendScanResults, ClearScanning, AnswerLost, ScanPanics, Die,
                WorkerEnds, main
  <2>2. ~ Stopped(w)
    BY <1>3 DEF WorkerStep, ReceiveScanTask, RequestBlocks, RequestFrontiers,
                SendScanResults, ClearScanning, AnswerLost, ScanPanics,
                WorkerEnds, Stopped
  <2> QED BY <2>1, <2>2 DEF QuietShape
<1>4. CASE FetchFromServer
  <2>1. Head(requests) \in Waiting /\ pc' = pc
    BY <1>4, HeadWaiting DEF FetchFromServer, main
  <2>2. ~ \A w \in Workers : Stopped(w)
    BY <2>1 DEF Waiting, Stopped
  <2> QED BY <2>1, <2>2 DEF QuietShape
<1>5. CASE FetchFails \/ FetcherEnds
  BY <1>5 DEF FetchFails, FetcherEnds, main, pool, QuietShape, Stopped
<1> QED BY <1>1, <1>2, <1>3, <1>4, <1>5, StepCases
-----------------------------------------------------------------------------
(* The list of ranges stays a partition *)

PartitionOf(s) ==
  /\ \A k \in 1..Len(s) : s[k].start < s[k].end
  /\ \A k \in 1..(Len(s) - 1) : s[k].end = s[k + 1].start
  /\ s # << >> => s[1].start = Max2(Birthday, SaplingActivation)

\* update_scan_ranges pushes a range that starts where the last one ends.
LEMMA AppendPartition ==
  ASSUME NEW s \in Seq(ScanRanges), NEW r \in ScanRanges, PartitionOf(s),
         r.start < r.end,
         s = << >> => r.start = Max2(Birthday, SaplingActivation),
         s # << >> => r.start = s[Len(s)].end
  PROVE  PartitionOf(Append(s, r))
<1> DEFINE u == Append(s, r)
<1>1. /\ Len(s) \in Nat
      /\ Len(u) = Len(s) + 1
      /\ \A i \in 1..(Len(s) + 1) : u[i] = IF i = Len(s) + 1 THEN r ELSE s[i]
      /\ s = << >> <=> Len(s) = 0
  OBVIOUS
<1> HIDE DEF u
<1>2. \A k \in 1..Len(u) : u[k].start < u[k].end
  BY <1>1 DEF PartitionOf
<1>3. ASSUME NEW k \in 1..(Len(u) - 1) PROVE u[k].end = u[k + 1].start
  <2>1. k \in 1..Len(s) /\ k # Len(s) + 1 /\ u[k] = s[k]
    BY <1>1
  <2>2. CASE k = Len(s)
    BY <1>1, <2>1, <2>2
  <2>3. CASE k # Len(s)
    BY <1>1, <2>1, <2>3 DEF PartitionOf
  <2> QED BY <2>2, <2>3
<1>4. u[1].start = Max2(Birthday, SaplingActivation)
  BY <1>1 DEF PartitionOf
<1> QED BY <1>2, <1>3, <1>4 DEF PartitionOf, u

\* Splitting a range at a height strictly inside it loses none.
LEMMA PreparePartition ==
  ASSUME NEW s \in Seq(ScanRanges), NEW k \in 1..Len(s), PartitionOf(s)
  PROVE  PartitionOf(Splice(s, k, Prepared(s[k])))
<1> DEFINE r == s[k]
           t == Splice(s, k, Prepared(r))
<1>1. /\ Len(t) = IF Splits(r) THEN Len(s) + 1 ELSE Len(s)
      /\ \A i \in 1..(k - 1) : t[i] = s[i]
      /\ t[k] = Batch(r)
      /\ Splits(r) => /\ t[k + 1] = Rest(r)
                      /\ \A i \in (k + 2)..(Len(s) + 1) : t[i] = s[i - 1]
      /\ ~ Splits(r) => \A i \in (k + 1)..Len(s) : t[i] = s[i]
      /\ t # << >>
  <2>1. t \in Seq(ScanRanges)
    BY PreparedRanges
  <2>2. Len(t) # 0
    BY PreparedRanges
  <2> QED BY <2>1, <2>2, PreparedRanges
<1>2. r.start \in Nat /\ r.end \in Nat /\ Len(s) \in Nat /\ r.start < r.end
  <2>1. r \in ScanRanges /\ Len(s) \in Nat
    BY ElementOfSeq, LenProperties
  <2>2. r.start < r.end
    BY DEF PartitionOf
  <2> HIDE DEF r
  <2> QED BY <2>1, <2>2 DEF ScanRanges
<1> HIDE DEF t
<1>3. /\ t[k].start = r.start
      /\ t[k].end = IF Splits(r) THEN r.start + BatchSize ELSE r.end
      /\ Splits(r) => t[k + 1].start = r.start + BatchSize /\ t[k + 1].end = r.end
  BY <1>1 DEF Batch, Rest, BatchEnd
<1>a. BatchSize \in Nat /\ BatchSize > 0
  BY EngineAssumption
<1>b. Splits(r) => r.start + BatchSize < r.end
  BY DEF Splits
<1>c. /\ \A i \in 1..Len(s) : s[i].start < s[i].end
      /\ \A i \in 1..(Len(s) - 1) : s[i].end = s[i + 1].start
      /\ s[1].start = Max2(Birthday, SaplingActivation)
  BY EmptySeq DEF PartitionOf
<1> DEFINE b == Splits(r)
<1> HIDE DEF r, b
<1>d. /\ r = s[k]
      /\ b => r.start + BatchSize < r.end
      /\ Len(t) = IF b THEN Len(s) + 1 ELSE Len(s)
      /\ \A i \in 1..(k - 1) : t[i] = s[i]
      /\ t[k].start = r.start
      /\ t[k].end = IF b THEN r.start + BatchSize ELSE r.end
      /\ b => t[k + 1].start = r.start + BatchSize /\ t[k + 1].end = r.end
      /\ b => \A i \in (k + 2)..(Len(s) + 1) : t[i] = s[i - 1]
      /\ ~ b => \A i \in (k + 1)..Len(s) : t[i] = s[i]
  BY <1>1, <1>3, <1>b DEF b, r
<1>4. ASSUME NEW i \in 1..Len(t) PROVE t[i].start < t[i].end
  <2>1. CASE i < k
    <3>1. i \in 1..(k - 1) /\ i \in 1..Len(s)
      BY <1>2, <2>1
    <3>2. t[i] = s[i]
      BY <1>d, <3>1
    <3> QED BY <1>c, <3>1, <3>2
  <2>2. CASE i = k
    BY <1>2, <1>a, <1>d, <2>2
  <2>3. CASE i > k /\ ~ b
    <3>1. i \in (k + 1)..Len(s) /\ i \in 1..Len(s)
      BY <1>2, <1>d, <2>3
    <3>2. t[i] = s[i]
      BY <1>d, <2>3, <3>1
    <3> QED BY <1>c, <3>1, <3>2
  <2>4. CASE i = k + 1 /\ b
    BY <1>2, <1>a, <1>d, <2>4
  <2>5. CASE i > k + 1 /\ b
    <3>1. i - 1 \in 1..Len(s) /\ t[i] = s[i - 1]
      BY <1>2, <1>d, <2>5
    <3> QED BY <1>c, <3>1
  <2> QED BY <1>2, <1>d, <2>1, <2>2, <2>3, <2>4, <2>5
<1>5. ASSUME NEW i \in 1..(Len(t) - 1) PROVE t[i].end = t[i + 1].start
  <2>0. i \in Int /\ k \in Int /\ 1 <= i
    BY <1>2, <1>d
  <2>1. CASE i < k - 1
    <3>1. /\ i \in 1..(Len(s) - 1) /\ i \in 1..(k - 1) /\ i + 1 \in 1..(k - 1)
      BY <1>2, <2>0, <2>1
    <3> QED BY <1>c, <1>d, <3>1
  <2>2. CASE i = k - 1
    <3>1. i \in 1..(Len(s) - 1) /\ i \in 1..(k - 1) /\ i + 1 = k
      BY <1>2, <2>0, <2>2
    <3> QED BY <1>c, <1>d, <3>1
  <2>3. CASE i >= k /\ ~ b
    <3>1. /\ i \in 1..(Len(s) - 1) /\ i + 1 \in (k + 1)..Len(s)
          /\ i = k \/ i \in (k + 1)..Len(s)
      BY <1>2, <1>d, <2>0, <2>3
    <3>2. t[i + 1] = s[i + 1] /\ t[i].end = s[i].end
      BY <1>d, <2>3, <3>1
    <3> QED BY <1>c, <3>1, <3>2
  <2>4. CASE i = k /\ b
    BY <1>d, <2>4
  <2>5. CASE i > k /\ b
    <3>1. /\ i \in (k + 1)..Len(s) /\ i + 1 \in (k + 2)..(Len(s) + 1)
          /\ (i + 1) - 1 = i
          /\ i = k + 1 \/ i \in (k + 2)..(Len(s) + 1)
          /\ i - 1 \in 1..(Len(s) - 1) /\ (i - 1) + 1 = i
      BY <1>2, <1>d, <2>0, <2>5
    <3>2. t[i + 1] = s[i]
      BY <1>d, <2>5, <3>1
    <3>3. t[i].end = s[i - 1].end
      <4>1. CASE i = k + 1
        <5>1. i - 1 = k
          BY <4>1, <2>0
        <5> QED BY <1>d, <2>5, <4>1, <5>1
      <4>2. CASE i \in (k + 2)..(Len(s) + 1)
        BY <1>d, <2>5, <4>2
      <4> QED BY <3>1, <4>1, <4>2
    <3> QED BY <1>c, <3>1, <3>2, <3>3
  <2> QED BY <2>0, <2>1, <2>2, <2>3, <2>4, <2>5
<1>6. t[1].start = Max2(Birthday, SaplingActivation)
  <2>1. CASE k = 1
    BY <1>c, <1>d, <2>1
  <2>2. CASE k # 1
    <3>1. 1 \in 1..(k - 1)
      BY <1>2, <2>2
    <3> QED BY <1>c, <1>d, <3>1
  <2> QED BY <2>1, <2>2
<1> QED BY <1>4, <1>5, <1>6 DEF PartitionOf, t, r

\* A change of priorities keeps the partition.
LEMMA MarkPartition ==
  ASSUME NEW s \in Seq(ScanRanges), NEW u \in Seq(ScanRanges), PartitionOf(s),
         Len(u) = Len(s),
         \A i \in 1..Len(s) : u[i].start = s[i].start /\ u[i].end = s[i].end
  PROVE  PartitionOf(u)
<1>1. Len(s) \in Nat /\ (u # << >> => s # << >> /\ 1 \in 1..Len(s))
  BY EmptySeq
<1>2. \A k \in 1..Len(u) : u[k].start < u[k].end
  BY DEF PartitionOf
<1>3. ASSUME NEW k \in 1..(Len(u) - 1) PROVE u[k].end = u[k + 1].start
  <2>1. k \in 1..(Len(s) - 1) /\ k \in 1..Len(s) /\ k + 1 \in 1..Len(s)
    BY <1>1
  <2> QED BY <2>1 DEF PartitionOf
<1> QED BY <1>1, <1>2, <1>3 DEF PartitionOf

\* The three operations that change the list.
LEMMA RangesSteps ==
  ASSUME [Next]_vars
  PROVE  \/ scan_ranges' = scan_ranges
         \/ UpdateScanRanges \/ PrepareNextScanRange \/ ReceiveScanResults
BY DEF Next, vars, wallet, MainStep, ServerGrows, StartSync, ChainHeightFails,
   WalletAhead, NextWorker, NoWorkerIdle, NothingToScan, AddScanTask,
   NoIdleWorkers, NoScanResults, ResultsClosed, JoinFetcher, WorkerStep,
   ReceiveScanTask, RequestBlocks, RequestFrontiers, SendScanResults,
   ClearScanning, AnswerLost, ScanPanics, Die, WorkerEnds, FetcherStep,
   FetchFromServer, FetchFails, FetcherEnds, Finished

\* A scan result changes priorities only, whether its range is found or not.
LEMMA ResultsRanges ==
  ASSUME TypeOK, ReceiveScanResults
  PROVE  /\ scan_ranges' \in Seq(ScanRanges)
         /\ Len(scan_ranges') = Len(scan_ranges)
         /\ \A i \in 1..Len(scan_ranges) :
              /\ scan_ranges'[i].start = scan_ranges[i].start
              /\ scan_ranges'[i].end = scan_ranges[i].end
              /\ scan_ranges'[i].priority \in {scan_ranges[i].priority, "Scanned"}
<1> DEFINE t == Head(scan_results)
<1>1. CASE Found(t)
  <2>1. scan_ranges' = [scan_ranges EXCEPT ![FoundAt(t)].priority = "Scanned"]
    BY <1>1 DEF ReceiveScanResults, ApplyScanResults
  <2> QED BY <1>1, <2>1, MarkedRanges
<1>2. CASE ~ Found(t)
  BY <1>2 DEF ReceiveScanResults, ApplyScanResults, TypeOK
<1> QED BY <1>1, <1>2

\* Every step keeps the partition.
LEMMA PartitionStep ==
  TypeOK /\ RangesPartition /\ [Next]_vars => RangesPartition'
<1> SUFFICES ASSUME TypeOK, RangesPartition, [Next]_vars PROVE RangesPartition'
  OBVIOUS
<1>0. /\ scan_ranges \in Seq(ScanRanges)
      /\ chain_height \in Nat
      /\ PartitionOf(scan_ranges)
  BY DEF TypeOK, RangesPartition, PartitionOf
<1>s. SUFFICES PartitionOf(scan_ranges')
  BY DEF RangesPartition, PartitionOf
<1>1. CASE scan_ranges' = scan_ranges
  BY <1>0, <1>1
<1>2. CASE UpdateScanRanges
  <2> DEFINE r == ChainTipScanRange
  <2>1. r \in ScanRanges /\ scan_ranges' = Append(scan_ranges, r)
    BY <1>2, ChainTipType DEF UpdateScanRanges
  <2>2. r.start = WalletHeight /\ r.end = chain_height + 1
    BY DEF ChainTipScanRange
  <2>3. r.start < r.end
    BY <1>0, <1>2, <2>2, WalletHeightType DEF UpdateScanRanges
  <2>4. IF scan_ranges = << >> THEN r.start = Max2(Birthday, SaplingActivation)
                               ELSE r.start = scan_ranges[Len(scan_ranges)].end
    BY <2>2 DEF WalletHeight
  <2> HIDE DEF r
  <2> QED BY <1>0, <2>1, <2>3, <2>4, AppendPartition
<1>3. CASE PrepareNextScanRange
  <2>1. Selected \in 1..Len(scan_ranges)
    BY <1>3, SelectedIndex DEF PrepareNextScanRange
  <2>2. scan_ranges' = Splice(scan_ranges, Selected, Prepared(scan_ranges[Selected]))
    BY <1>3 DEF PrepareNextScanRange
  <2> QED BY <1>0, <2>1, <2>2, PreparePartition
<1>4. CASE ReceiveScanResults
  BY <1>0, <1>4, ResultsRanges, MarkPartition
<1> QED BY <1>1, <1>2, <1>3, <1>4, RangesSteps
-----------------------------------------------------------------------------
(* Every task in flight stays listed *)

\* Appending ranges and changing priorities to Scanned, as the other two
\* operations do, keeps every listed task listed.
LEMMA ListedKept ==
  ASSUME TypeOK, scan_ranges' \in Seq(ScanRanges),
         Len(scan_ranges') >= Len(scan_ranges),
         \A i \in 1..Len(scan_ranges) :
           /\ scan_ranges'[i].start = scan_ranges[i].start
           /\ scan_ranges'[i].end = scan_ranges[i].end
           /\ scan_ranges'[i].priority \in {scan_ranges[i].priority, "Scanned"}
  PROVE  ListedTasks \subseteq ListedTasks'
<1>0. scan_ranges \in Seq(ScanRanges)
  BY DEF TypeOK
<1>1. Len(scan_ranges) \in Nat /\ Len(scan_ranges') \in Nat
  BY <1>0, LenProperties
<1> SUFFICES ASSUME NEW t \in ListedTasks PROVE t \in ListedTasks'
  OBVIOUS
<1>2. PICK k \in 1..Len(scan_ranges) :
        SameBlocks(scan_ranges[k], t) /\ scan_ranges[k].priority # "Historic"
  BY DEF ListedTasks, Listed
<1>3. k \in 1..Len(scan_ranges')
  BY <1>1
<1>4. SameBlocks(scan_ranges'[k], t) /\ scan_ranges'[k].priority # "Historic"
  BY <1>2 DEF SameBlocks
<1> QED BY <1>3, <1>4 DEF ListedTasks, Listed

\* prepare_next_scan_range replaces a range no task in flight is about, and
\* lists the batch it hands out.
LEMMA PreparedListed ==
  ASSUME TypeOK, PrepareNextScanRange, TypeOK'
  PROVE  /\ ListedTasks \subseteq ListedTasks'
         /\ AllIn(hand', ListedTasks')
<1> DEFINE k == Selected
           r == scan_ranges[k]
           u == Splice(scan_ranges, k, Prepared(r))
<1>0. scan_ranges \in Seq(ScanRanges)
  BY DEF TypeOK
<1>1. k \in 1..Len(scan_ranges) /\ Selectable(k)
  BY SelectedIndex DEF PrepareNextScanRange
<1>2. scan_ranges' = u
  BY DEF PrepareNextScanRange
<1>3. /\ Len(u) = IF Splits(r) THEN Len(scan_ranges) + 1 ELSE Len(scan_ranges)
      /\ \A i \in 1..(k - 1) : u[i] = scan_ranges[i]
      /\ u[k] = Batch(r)
      /\ Splits(r) => /\ u[k + 1] = Rest(r)
                      /\ \A i \in (k + 2)..(Len(scan_ranges) + 1) :
                           u[i] = scan_ranges[i - 1]
      /\ ~ Splits(r) => \A i \in (k + 1)..Len(scan_ranges) : u[i] = scan_ranges[i]
  BY <1>0, <1>1, PreparedRanges
<1>4. Len(scan_ranges) \in Nat
  BY <1>0, LenProperties
<1>5. r.priority = "Historic"
  <2>1. r \in ScanRanges
    BY <1>0, <1>1, ElementOfSeq
  <2> QED BY <1>1, <2>1 DEF Selectable, ScanRanges, Priorities
<1> HIDE DEF k, r, u
<1>6. ASSUME NEW t \in ListedTasks PROVE t \in ListedTasks'
  <2>1. PICK j \in 1..Len(scan_ranges) :
          SameBlocks(scan_ranges[j], t) /\ scan_ranges[j].priority # "Historic"
    BY DEF ListedTasks, Listed
  <2>2. j # k
    BY <1>5, <2>1 DEF r
  <2>3. \E i \in 1..Len(u) : u[i] = scan_ranges[j]
    <3>1. CASE j < k
      <4>1. j \in 1..(k - 1) /\ j \in 1..Len(u)
        BY <1>1, <1>3, <1>4, <3>1
      <4> QED BY <1>3, <4>1
    <3>2. CASE j > k /\ ~ Splits(r)
      <4>1. j \in (k + 1)..Len(scan_ranges) /\ j \in 1..Len(u)
        BY <1>1, <1>3, <1>4, <3>2
      <4> QED BY <1>3, <3>2, <4>1
    <3>3. CASE j > k /\ Splits(r)
      <4>1. /\ j + 1 \in (k + 2)..(Len(scan_ranges) + 1)
            /\ j + 1 \in 1..Len(u) /\ (j + 1) - 1 = j
        BY <1>1, <1>3, <1>4, <3>3
      <4> QED BY <1>3, <3>3, <4>1
    <3> QED BY <1>1, <2>2, <3>1, <3>2, <3>3
  <2> QED BY <1>2, <2>1, <2>3 DEF ListedTasks, Listed
<1>7. AllIn(hand', ListedTasks')
  <2> DEFINE t == [start |-> r.start, end |-> BatchEnd(r),
                   prev |-> r.start - 1 \in wallet_blocks]
  <2>1. hand' = << t >>
    BY DEF PrepareNextScanRange, r, k
  <2>2. t.start = r.start /\ t.end = BatchEnd(r)
    OBVIOUS
  <2> HIDE DEF t
  <2>3. t \in ScanTasks
    <3>1. << t >> \in Seq(ScanTasks)
      BY <2>1 DEF TypeOK
    <3> QED BY <3>1
  <2>4. k \in 1..Len(u)
    BY <1>1, <1>3, <1>4
  <2>5. SameBlocks(u[k], t) /\ u[k].priority # "Historic"
    BY <1>3, <2>2 DEF SameBlocks, Batch
  <2>6. t \in ListedTasks'
    BY <1>2, <2>3, <2>4, <2>5 DEF ListedTasks, Listed
  <2> QED BY <2>1, <2>3, <2>6, SingleAllIn
<1> QED BY <1>6, <1>7

\* Whatever a step does to the list, a listed task stays listed.
LEMMA ListedGrow ==
  ASSUME TypeOK, TypeOK', [Next]_vars
  PROVE  ListedTasks \subseteq ListedTasks'
<1>0. scan_ranges \in Seq(ScanRanges) /\ scan_ranges' \in Seq(ScanRanges)
  BY DEF TypeOK
<1>1. CASE scan_ranges' = scan_ranges
  BY <1>1 DEF ListedTasks
<1>2. CASE UpdateScanRanges
  <2>1. ChainTipScanRange \in ScanRanges
        /\ scan_ranges' = Append(scan_ranges, ChainTipScanRange)
    BY <1>2, ChainTipType DEF UpdateScanRanges
  <2>2. /\ Len(scan_ranges') >= Len(scan_ranges)
        /\ \A i \in 1..Len(scan_ranges) : scan_ranges'[i] = scan_ranges[i]
    BY <1>0, <2>1, AppendProperties
  <2> QED BY <1>0, <2>2, ListedKept
<1>3. CASE PrepareNextScanRange
  BY <1>3, PreparedListed
<1>4. CASE ReceiveScanResults
  <2>1. Len(scan_ranges) \in Nat
    BY <1>0, LenProperties
  <2> QED BY <1>0, <1>4, <2>1, ResultsRanges, ListedKept
<1> QED BY <1>1, <1>2, <1>3, <1>4, RangesSteps

\* Tasks only move: from the main task to a worker, from the worker to the
\* results.  None appears that was not prepared.
LEMMA TasksListedStep ==
  TypeOK /\ Shape /\ TasksListed /\ TypeOK' /\ [Next]_vars => TasksListed'
<1> SUFFICES ASSUME TypeOK, Shape, TasksListed, TypeOK', [Next]_vars
             PROVE  TasksListed'
  OBVIOUS
<1> DEFINE L == ListedTasks'
<1>0. /\ hand \in Seq(ScanTasks)
      /\ scan_results \in Seq(ScanTasks)
      /\ scan_tasks \in [Workers -> Seq(ScanTasks)]
      /\ current \in [Workers -> Seq(ScanTasks)]
      /\ probe \in Workers
  BY DEF TypeOK
<1>1. ListedTasks \subseteq L
  BY ListedGrow
<1>2. /\ AllIn(hand, L)
      /\ AllIn(scan_results, L)
      /\ \A w \in Workers : AllIn(scan_tasks[w], L)
      /\ \A w \in Workers : AllIn(current[w], L)
  BY <1>1, WiderAllIn DEF TasksListed
<1>3. AllIn(<< >>, L)
  BY EmptyAllIn
<1>4. SUFFICES /\ AllIn(hand', L)
               /\ AllIn(scan_results', L)
               /\ \A w \in Workers : AllIn(scan_tasks'[w], L)
               /\ \A w \in Workers : AllIn(current'[w], L)
  BY DEF TasksListed
<1> HIDE DEF L
<1>5. CASE UNCHANGED <<hand, scan_results, scan_tasks, current>>
  BY <1>2, <1>5
<1>6. CASE UpdateScanRanges
  BY <1>2, <1>3, <1>6 DEF UpdateScanRanges
<1>7. CASE PrepareNextScanRange
  <2>1. AllIn(hand', L)
    BY <1>7, PreparedListed DEF L
  <2> QED BY <1>2, <1>7, <2>1 DEF PrepareNextScanRange, pool
<1>8. CASE AddScanTask
  <2>1. hand # << >>
    <3>1. Len(hand) = 1
      BY <1>8 DEF AddScanTask, Shape, HandShape
    <3> QED BY <3>1
  <2>2. hand[1] \in ScanTasks /\ hand[1] \in L
    BY <1>0, <1>2, <2>1, HeadAllIn
  <2>3. scan_tasks[probe] \in Seq(ScanTasks) /\ AllIn(scan_tasks[probe], L)
    BY <1>0, <1>2
  <2>4. AllIn(Append(scan_tasks[probe], hand[1]), L)
    BY <2>2, <2>3, AppendAllIn
  <2>5. \A w \in Workers : AllIn(scan_tasks'[w], L)
    BY <1>0, <1>2, <1>8, <2>4 DEF AddScanTask
  <2> QED BY <1>2, <1>3, <1>8, <2>5 DEF AddScanTask
<1>9. CASE ReceiveScanResults
  <2>1. AllIn(Tail(scan_results), L)
    BY <1>0, <1>2, <1>9, TailAllIn DEF ReceiveScanResults
  <2> QED BY <1>2, <1>9, <2>1 DEF ReceiveScanResults
<1>10. ASSUME NEW w \in Workers, ReceiveScanTask(w)
       PROVE  /\ AllIn(hand', L)
              /\ AllIn(scan_results', L)
              /\ \A v \in Workers : AllIn(scan_tasks'[v], L)
              /\ \A v \in Workers : AllIn(current'[v], L)
  <2>1. /\ scan_tasks[w] \in Seq(ScanTasks) /\ scan_tasks[w] # << >>
        /\ AllIn(scan_tasks[w], L)
    BY <1>0, <1>2, <1>10 DEF ReceiveScanTask
  <2> DEFINE t == Head(scan_tasks[w])
  <2>2. t \in ScanTasks /\ t \in L
    BY <2>1, HeadAllIn
  <2>3. AllIn(Tail(scan_tasks[w]), L)
    BY <2>1, TailAllIn
  <2> HIDE DEF t
  <2>4. AllIn(<< t >>, L)
    BY <2>2, SingleAllIn
  <2> DEFINE c == << t >>
  <2>5. current' = [current EXCEPT ![w] = c]
    BY <1>10 DEF ReceiveScanTask, t
  <2> HIDE DEF c
  <2>6. \A v \in Workers : AllIn(current'[v], L)
    BY <1>0, <1>2, <2>4, <2>5 DEF c
  <2>7. \A v \in Workers : AllIn(scan_tasks'[v], L)
    BY <1>0, <1>2, <1>10, <2>3 DEF ReceiveScanTask
  <2> QED BY <1>2, <1>10, <2>6, <2>7 DEF ReceiveScanTask, main
<1>11. ASSUME NEW w \in Workers, SendScanResults(w)
       PROVE  /\ AllIn(hand', L)
              /\ AllIn(scan_results', L)
              /\ \A v \in Workers : AllIn(scan_tasks'[v], L)
              /\ \A v \in Workers : AllIn(current'[v], L)
  <2>1. current[w] \in Seq(ScanTasks) /\ current[w] # << >> /\ AllIn(current[w], L)
    BY <1>0, <1>2, <1>11 DEF SendScanResults, Shape, CurrentShape
  <2>2. current[w][1] \in ScanTasks /\ current[w][1] \in L
    BY <2>1, HeadAllIn
  <2>3. AllIn(scan_results', L)
    BY <1>0, <1>2, <1>11, <2>2, AppendAllIn DEF SendScanResults
  <2>4. \A v \in Workers : AllIn(current'[v], L)
    BY <1>0, <1>2, <1>3, <1>11 DEF SendScanResults
  <2> QED BY <1>2, <1>11, <2>3, <2>4 DEF SendScanResults, main
<1>12. ASSUME NEW w \in Workers, AnswerLost(w) \/ ScanPanics(w)
       PROVE  /\ AllIn(hand', L)
              /\ AllIn(scan_results', L)
              /\ \A v \in Workers : AllIn(scan_tasks'[v], L)
              /\ \A v \in Workers : AllIn(current'[v], L)
  <2>1. Die(w)
    BY <1>12 DEF AnswerLost, ScanPanics
  <2> QED BY <1>0, <1>2, <1>3, <2>1 DEF Die, main
<1>13. \/ UNCHANGED <<hand, scan_results, scan_tasks, current>>
       \/ UpdateScanRanges \/ PrepareNextScanRange \/ AddScanTask
       \/ ReceiveScanResults
       \/ \E w \in Workers : \/ ReceiveScanTask(w) \/ SendScanResults(w)
                             \/ AnswerLost(w) \/ ScanPanics(w)
  BY DEF Next, vars, main, pool, MainStep, ServerGrows, StartSync,
     ChainHeightFails, WalletAhead, NextWorker, NoWorkerIdle, NothingToScan,
     NoIdleWorkers, NoScanResults, ResultsClosed, JoinFetcher, WorkerStep,
     RequestBlocks, RequestFrontiers, ClearScanning, WorkerEnds, FetcherStep,
     FetchFromServer, FetchFails, FetcherEnds, Finished
<1> QED BY <1>5, <1>6, <1>7, <1>8, <1>9, <1>10, <1>11, <1>12, <1>13

\* The range of a result is found, so mark_scanned does not panic.
LEMMA FindStep ==
  TypeOK /\ TasksListed /\ MarkScannedFinds /\ [Next]_vars => MarkScannedFinds'
<1> SUFFICES ASSUME TypeOK, TasksListed, MarkScannedFinds, [Next]_vars
             PROVE  MarkScannedFinds'
  OBVIOUS
<1>1. CASE ReceiveScanResults
  <2>1. /\ scan_results \in Seq(ScanTasks) /\ scan_results # << >>
        /\ AllIn(scan_results, ListedTasks)
    BY <1>1 DEF ReceiveScanResults, TypeOK, TasksListed
  <2>2. Head(scan_results) \in ListedTasks
    BY <2>1, HeadAllIn
  <2>3. Found(Head(scan_results))
    BY <2>2 DEF ListedTasks, Listed, Found
  <2> QED BY <1>1, <2>3 DEF ReceiveScanResults, ApplyScanResults, MarkScannedFinds
<1>2. CASE ~ ReceiveScanResults
  BY <1>2 DEF MarkScannedFinds, Next, vars, main, MainStep, ServerGrows,
     StartSync, ChainHeightFails, Panic, WalletAhead, UpdateScanRanges,
     NextWorker, NoWorkerIdle, PrepareNextScanRange, NothingToScan,
     AddScanTask, NoIdleWorkers, NoScanResults, ResultsClosed, JoinFetcher,
     WorkerStep, ReceiveScanTask, RequestBlocks, RequestFrontiers,
     SendScanResults, ClearScanning, AnswerLost, ScanPanics, Die, WorkerEnds,
     FetcherStep, FetchFromServer, FetchFails, FetcherEnds, Finished
<1> QED BY <1>1, <1>2
-----------------------------------------------------------------------------
(* The theorems *)

\* The wallet starts with no range and nothing in flight.
LEMMA InitInv == Init => EngineInv
<1> SUFFICES ASSUME Init PROVE EngineInv
  OBVIOUS
<1>1. RangesPartition
  BY DEF Init, RangesPartition
<1>2. TasksListed
  BY EmptyAllIn DEF Init, TasksListed
<1>3. MarkScannedFinds
  BY DEF Init, MarkScannedFinds
<1> QED BY <1>1, <1>2, <1>3, InitType, InitShape DEF EngineInv

\* The invariant is inductive.
LEMMA InvStep == EngineInv /\ [Next]_vars => EngineInv'
<1> SUFFICES ASSUME EngineInv, [Next]_vars PROVE EngineInv'
  OBVIOUS
<1>0. TypeOK /\ Shape /\ RangesPartition /\ TasksListed /\ MarkScannedFinds
  BY DEF EngineInv
<1>1. TypeOK'
  BY <1>0, TypeStep
<1>2. Shape'
  BY <1>0, HandStep, CurrentStep, RequestStep, QuietStep DEF Shape
<1>3. RangesPartition'
  BY <1>0, PartitionStep
<1>4. TasksListed'
  BY <1>0, <1>1, TasksListedStep
<1>5. MarkScannedFinds'
  BY <1>0, FindStep
<1> QED BY <1>1, <1>2, <1>3, <1>4, <1>5 DEF EngineInv

\* The inductive invariant holds in every reachable state.
THEOREM EngineInvariant == Spec => []EngineInv
  BY InitInv, InvStep, PTL DEF Spec

\* Every variable of the engine keeps its type, for any number of workers.
THEOREM EngineTypeCorrect == Spec => []TypeOK
<1>1. EngineInv => TypeOK
  BY DEF EngineInv
<1> QED BY <1>1, EngineInvariant, PTL

\* Whatever the workers, the server and the fetcher do, update_scan_ranges,
\* prepare_next_scan_range and mark_scanned keep the list of ranges free of
\* gaps, overlaps and empty ranges.
THEOREM RangesStayPartition == Spec => []RangesPartition
<1>1. EngineInv => RangesPartition
  BY DEF EngineInv
<1> QED BY <1>1, EngineInvariant, PTL

\* mark_scanned never meets "scanned range not found": a result always has a
\* range in the list, in whatever order results arrive.
THEOREM ScannedRangeIsFound == Spec => []MarkScannedFinds
<1>1. EngineInv => MarkScannedFinds
  BY DEF EngineInv
<1> QED BY <1>1, EngineInvariant, PTL

-----------------------------------------------------------------------------
(* Following the tasks: each batch is scanned once, the trees hold what the   *)
(* list says is scanned, a sync that returns Ok has scanned everything, and   *)
(* the engine implements HeightScan.                                          *)

\* The ranges of a list, without their order.
RangesOf(s) == {s[k] : k \in 1..Len(s)}

\* The list entry of a batch that is being scanned.
Entry(t) == [start |-> t.start, end |-> t.end, priority |-> "Ignored"]

\* The tasks in flight, as a function of their places.
Flight == [p \in Places |-> TaskAt(p)]

\* No two tasks in flight start at the same height.
TasksApart ==
  \A p, q \in Places : Flight[p].start = Flight[q].start => p = q

\* Every task in flight is in the list, and Ignored there.
TasksIgnored == \A p \in Places : Entry(Flight[p]) \in RangesOf(scan_ranges)

\* A batch handed out has at most BATCH_SIZE blocks.
BatchesSmall ==
  \A r \in RangesOf(scan_ranges) :
    r.priority = "Ignored" => r.end - r.start <= BatchSize

\* A worker scans one task at a time.
OneTask == \A w \in Workers : Len(current[w]) \in {0, 1}

\* The inductive invariant about the tasks.
TaskInv ==
  /\ EngineInv
  /\ OneTask
  /\ TasksApart
  /\ TasksIgnored
  /\ BatchesSmall
  /\ TreesMatchRanges
-----------------------------------------------------------------------------
(* The ranges of the list as a set *)

\* An earlier range of a partition ends before a later one starts.
LEMMA PartitionOrder ==
  ASSUME NEW s \in Seq(ScanRanges), PartitionOf(s),
         NEW i \in 1..Len(s), NEW j \in 1..Len(s), i < j
  PROVE  s[i].end <= s[j].start
<1>0. /\ Len(s) \in Nat
      /\ \A k \in 1..Len(s) : s[k].start \in Nat /\ s[k].end \in Nat
  <2>1. \A k \in 1..Len(s) : s[k] \in ScanRanges
    BY ElementOfSeq
  <2> QED BY <2>1, LenProperties DEF ScanRanges
<1>1. /\ \A k \in 1..Len(s) : s[k].start < s[k].end
      /\ \A k \in 1..(Len(s) - 1) : s[k].end = s[k + 1].start
  BY DEF PartitionOf
<1> DEFINE T == {k \in (i + 1)..Len(s) : ~ (s[i].end <= s[k].start)}
<1>2. SUFFICES ASSUME T # {} PROVE FALSE
  BY <1>0
<1>3. PICK x \in T : \A y \in T : x <= y
  <2>1. T \subseteq Nat
    BY <1>0
  <2> HIDE DEF T
  <2> QED BY <1>2, <2>1, LeastNat
<1>4. x \in (i + 1)..Len(s) /\ ~ (s[i].end <= s[x].start)
  OBVIOUS
<1>5. x # i + 1
  <2>1. i \in 1..(Len(s) - 1)
    BY <1>0
  <2> QED BY <1>0, <1>1, <1>4, <2>1
<1>6. x - 1 \in (i + 1)..Len(s) /\ x - 1 \in 1..(Len(s) - 1) /\ (x - 1) + 1 = x
  BY <1>0, <1>4, <1>5
<1>7. x - 1 \notin T
  <2> HIDE DEF T
  <2> QED BY <1>0, <1>3, <1>4
<1>8. s[i].end <= s[x - 1].start
  BY <1>6, <1>7
<1>9. s[x - 1].start < s[x - 1].end /\ s[x - 1].end = s[x].start
  <2>1. x - 1 \in 1..Len(s)
    BY <1>0, <1>6
  <2> QED BY <1>1, <1>6, <2>1
<1>10. /\ s[i].end \in Nat /\ s[x - 1].start \in Nat /\ s[x - 1].end \in Nat
       /\ s[x].start \in Nat
  <2>1. x - 1 \in 1..Len(s) /\ x \in 1..Len(s)
    BY <1>0, <1>4, <1>6
  <2> QED BY <1>0, <2>1
<1> QED BY <1>4, <1>8, <1>9, <1>10

\* Two positions of a partition hold ranges without a common height.
LEMMA PartitionApart ==
  ASSUME NEW s \in Seq(ScanRanges), PartitionOf(s)
  PROVE  /\ \A i \in 1..Len(s) :
              /\ s[i] \in ScanRanges
              /\ s[i].start \in Nat /\ s[i].end \in Nat /\ s[i].start < s[i].end
         /\ \A i, j \in 1..Len(s) :
              i # j => s[i].end <= s[j].start \/ s[j].end <= s[i].start
         /\ \A i, j \in 1..Len(s) : s[i].start = s[j].start => i = j
<1>1. \A i \in 1..Len(s) :
        /\ s[i] \in ScanRanges
        /\ s[i].start \in Nat /\ s[i].end \in Nat /\ s[i].start < s[i].end
  <2>1. \A k \in 1..Len(s) : s[k] \in ScanRanges
    BY ElementOfSeq
  <2> QED BY <2>1 DEF ScanRanges, PartitionOf
<1>2. \A i, j \in 1..Len(s) :
        i # j => s[i].end <= s[j].start \/ s[j].end <= s[i].start
  <2> SUFFICES ASSUME NEW i \in 1..Len(s), NEW j \in 1..Len(s), i # j
               PROVE  s[i].end <= s[j].start \/ s[j].end <= s[i].start
    OBVIOUS
  <2>0. Len(s) \in Nat
    BY LenProperties
  <2>1. i < j \/ j < i
    BY <2>0
  <2> QED BY <2>1, PartitionOrder
<1>3. \A i, j \in 1..Len(s) : s[i].start = s[j].start => i = j
  BY <1>1, <1>2
<1> QED BY <1>1, <1>2, <1>3

\* The same for the set of ranges: a range is known by where it starts.
LEMMA RangesApart ==
  ASSUME NEW s \in Seq(ScanRanges), PartitionOf(s),
         NEW a \in RangesOf(s), NEW b \in RangesOf(s)
  PROVE  /\ a.start \in Nat /\ a.end \in Nat /\ a.start < a.end
         /\ a \in ScanRanges
         /\ a = b \/ a.end <= b.start \/ b.end <= a.start
         /\ a.start = b.start => a = b
<1>1. PICK i \in 1..Len(s), j \in 1..Len(s) : a = s[i] /\ b = s[j]
  BY DEF RangesOf
<1> QED BY <1>1, PartitionApart

\* What update_scan_ranges, prepare_next_scan_range and mark_scanned do to
\* the set of ranges.
LEMMA AppendSet ==
  ASSUME NEW s \in Seq(ScanRanges), NEW r \in ScanRanges
  PROVE  RangesOf(Append(s, r)) = RangesOf(s) \union {r}
<1> DEFINE u == Append(s, r)
<1>1. /\ Len(s) \in Nat
      /\ Len(u) = Len(s) + 1
      /\ \A i \in 1..(Len(s) + 1) : u[i] = IF i = Len(s) + 1 THEN r ELSE s[i]
  OBVIOUS
<1> HIDE DEF u
<1>2. RangesOf(u) \subseteq RangesOf(s) \union {r}
  BY <1>1 DEF RangesOf
<1>3. RangesOf(s) \subseteq RangesOf(u)
  <2> SUFFICES ASSUME NEW k \in 1..Len(s) PROVE s[k] \in RangesOf(u)
    BY DEF RangesOf
  <2>1. k \in 1..Len(u) /\ u[k] = s[k]
    BY <1>1
  <2> QED BY <2>1 DEF RangesOf
<1>4. r \in RangesOf(u)
  <2>1. Len(u) \in 1..Len(u) /\ u[Len(u)] = r
    BY <1>1
  <2> QED BY <2>1 DEF RangesOf
<1> QED BY <1>2, <1>3, <1>4 DEF u

\* A batch and, when it was split, the rest take the place of a range.
LEMMA PreparedSet ==
  ASSUME NEW s \in Seq(ScanRanges), PartitionOf(s), NEW k \in 1..Len(s)
  PROVE  RangesOf(Splice(s, k, Prepared(s[k]))) =
           (RangesOf(s) \ {s[k]}) \union {Batch(s[k])}
             \union (IF Splits(s[k]) THEN {Rest(s[k])} ELSE {})
<1> DEFINE r == s[k]
           t == Splice(s, k, Prepared(r))
<1>1. /\ Len(t) = IF Splits(r) THEN Len(s) + 1 ELSE Len(s)
      /\ \A i \in 1..(k - 1) : t[i] = s[i]
      /\ t[k] = Batch(r)
      /\ Splits(r) => /\ t[k + 1] = Rest(r)
                      /\ \A i \in (k + 2)..(Len(s) + 1) : t[i] = s[i - 1]
      /\ ~ Splits(r) => \A i \in (k + 1)..Len(s) : t[i] = s[i]
  BY PreparedRanges
<1>2. Len(s) \in Nat
  BY LenProperties
<1>3. \A i \in 1..Len(s) : s[i] = r => i = k
  BY PartitionApart
<1> DEFINE b == Splits(r)
           B == Batch(r)
           E == Rest(r)
<1> HIDE DEF t, r, b, B, E
<1>4. /\ Len(t) = IF b THEN Len(s) + 1 ELSE Len(s)
      /\ \A i \in 1..(k - 1) : t[i] = s[i]
      /\ t[k] = B
      /\ b => /\ t[k + 1] = E
              /\ \A i \in (k + 2)..(Len(s) + 1) : t[i] = s[i - 1]
      /\ ~ b => \A i \in (k + 1)..Len(s) : t[i] = s[i]
  BY <1>1 DEF b, B, E
<1> DEFINE N == (RangesOf(s) \ {r}) \union {B} \union (IF b THEN {E} ELSE {})
<1>5. ASSUME NEW i \in 1..Len(t) PROVE t[i] \in N
  <2>1. CASE i < k
    <3>1. i \in 1..(k - 1) /\ i \in 1..Len(s) /\ i # k
      BY <1>2, <2>1
    <3>2. t[i] = s[i] /\ s[i] # r
      BY <1>3, <1>4, <3>1
    <3> QED BY <3>1, <3>2 DEF RangesOf
  <2>2. CASE i = k
    BY <1>4, <2>2
  <2>3. CASE i > k /\ ~ b
    <3>1. i \in (k + 1)..Len(s) /\ i \in 1..Len(s) /\ i # k
      BY <1>2, <1>4, <2>3
    <3>2. t[i] = s[i] /\ s[i] # r
      BY <1>3, <1>4, <2>3, <3>1
    <3> QED BY <3>1, <3>2 DEF RangesOf
  <2>4. CASE i = k + 1 /\ b
    BY <1>4, <2>4
  <2>5. CASE i > k + 1 /\ b
    <3>1. i - 1 \in 1..Len(s) /\ i - 1 # k /\ i \in (k + 2)..(Len(s) + 1)
      BY <1>2, <1>4, <2>5
    <3>2. t[i] = s[i - 1] /\ s[i - 1] # r
      BY <1>3, <1>4, <2>5, <3>1
    <3> QED BY <3>1, <3>2 DEF RangesOf
  <2> QED BY <1>2, <1>4, <2>1, <2>2, <2>3, <2>4, <2>5
<1>6. ASSUME NEW j \in 1..Len(s), j # k PROVE s[j] \in RangesOf(t)
  <2>1. CASE j < k
    <3>1. j \in 1..(k - 1) /\ j \in 1..Len(t)
      BY <1>2, <1>4, <2>1
    <3> QED BY <1>4, <3>1 DEF RangesOf
  <2>2. CASE j > k /\ ~ b
    <3>1. j \in (k + 1)..Len(s) /\ j \in 1..Len(t)
      BY <1>2, <1>4, <2>2
    <3> QED BY <1>4, <2>2, <3>1 DEF RangesOf
  <2>3. CASE j > k /\ b
    <3>1. /\ j + 1 \in (k + 2)..(Len(s) + 1) /\ j + 1 \in 1..Len(t)
          /\ (j + 1) - 1 = j
      BY <1>2, <1>4, <2>3
    <3>2. t[j + 1] = s[j]
      BY <1>4, <2>3, <3>1
    <3> QED BY <3>1, <3>2 DEF RangesOf
  <2> QED BY <1>2, <1>6, <2>1, <2>2, <2>3
<1>7. B \in RangesOf(t) /\ (b => E \in RangesOf(t))
  <2>1. k \in 1..Len(t) /\ (b => k + 1 \in 1..Len(t))
    BY <1>2, <1>4
  <2> QED BY <1>4, <2>1 DEF RangesOf
<1>8. RangesOf(t) \subseteq N
  <2> HIDE DEF N
  <2> QED BY <1>5 DEF RangesOf
<1>9. N \subseteq RangesOf(t)
  <2>1. ASSUME NEW x \in RangesOf(s), x # r PROVE x \in RangesOf(t)
    <3>1. PICK j \in 1..Len(s) : x = s[j]
      BY DEF RangesOf
    <3>2. j # k
      BY <2>1, <3>1 DEF r
    <3> QED BY <1>6, <3>1, <3>2
  <2> QED BY <1>7, <2>1
<1>10. RangesOf(t) = N
  BY <1>8, <1>9
<1> QED BY <1>10 DEF t, r, b, B, E

\* One range becomes Scanned.
LEMMA MarkedSet ==
  ASSUME NEW s \in Seq(ScanRanges), PartitionOf(s), NEW k \in 1..Len(s)
  PROVE  RangesOf([s EXCEPT ![k].priority = "Scanned"]) =
           (RangesOf(s) \ {s[k]})
             \union {[start |-> s[k].start, end |-> s[k].end,
                      priority |-> "Scanned"]}
<1> DEFINE r == s[k]
           m == [r EXCEPT !.priority = "Scanned"]
           u == [s EXCEPT ![k] = m]
<1>1. r \in ScanRanges
  BY ElementOfSeq
<1>2. m \in ScanRanges
      /\ m = [start |-> r.start, end |-> r.end, priority |-> "Scanned"]
  BY <1>1 DEF ScanRanges, Priorities
<1>3. \A i \in 1..Len(s) : s[i] = r => i = k
  BY PartitionApart
<1> HIDE DEF m, r
<1>4. /\ Len(u) = Len(s)
      /\ \A j \in 1..Len(s) : u[j] = IF j = k THEN m ELSE s[j]
  BY <1>2, ExceptSeq
<1> HIDE DEF u
<1>5. RangesOf(u) = (RangesOf(s) \ {r}) \union {m}
  <2>1. RangesOf(u) \subseteq (RangesOf(s) \ {r}) \union {m}
    BY <1>3, <1>4 DEF RangesOf
  <2>2. ASSUME NEW j \in 1..Len(s), s[j] # r PROVE s[j] \in RangesOf(u)
    <3>1. u[j] = s[j]
      BY <1>4, <2>2 DEF r
    <3> QED BY <1>4, <3>1 DEF RangesOf
  <2>3. m \in RangesOf(u)
    BY <1>4 DEF RangesOf
  <2> QED BY <2>1, <2>2, <2>3 DEF RangesOf
<1> QED BY <1>2, <1>5 DEF u, m, r
-----------------------------------------------------------------------------
(* The tasks in flight only move *)

\* What the places are, one disjunct per variable that holds tasks.
PlaceShape ==
  \A p : p \in Places <=>
    \/ \E i \in DOMAIN hand : p = <<"hand", 0, i>>
    \/ \E i \in DOMAIN scan_results : p = <<"results", 0, i>>
    \/ \E w \in Workers : \E i \in DOMAIN scan_tasks[w] : p = <<"queue", w, i>>
    \/ \E w \in Workers : \E i \in DOMAIN current[w] : p = <<"scan", w, i>>

\* The task at each place.
FlightShape ==
  /\ DOMAIN Flight = Places
  /\ \A i \in DOMAIN hand : Flight[<<"hand", 0, i>>] = hand[i]
  /\ \A i \in DOMAIN scan_results : Flight[<<"results", 0, i>>] = scan_results[i]
  /\ \A w \in Workers : \A i \in DOMAIN scan_tasks[w] :
       Flight[<<"queue", w, i>>] = scan_tasks[w][i]
  /\ \A w \in Workers : \A i \in DOMAIN current[w] :
       Flight[<<"scan", w, i>>] = current[w][i]

\* Places is what PlaceShape says.
LEMMA PlacesAre == PlaceShape
BY DEF PlaceShape, Places

\* Flight is what FlightShape says.
LEMMA FlightIs == FlightShape
<1>0. PlaceShape
  BY PlacesAre
<1>1. ASSUME NEW i \in DOMAIN hand
      PROVE  Flight[<<"hand", 0, i>>] = hand[i]
  <2>1. <<"hand", 0, i>> \in Places
    BY <1>0 DEF PlaceShape
  <2>2. TaskAt(<<"hand", 0, i>>) = hand[i]
    BY DEF TaskAt
  <2> QED BY <2>1, <2>2 DEF Flight
<1>2. ASSUME NEW i \in DOMAIN scan_results
      PROVE  Flight[<<"results", 0, i>>] = scan_results[i]
  <2>1. <<"results", 0, i>> \in Places
    BY <1>0 DEF PlaceShape
  <2>2. TaskAt(<<"results", 0, i>>) = scan_results[i]
    BY DEF TaskAt
  <2> QED BY <2>1, <2>2 DEF Flight
<1>3. ASSUME NEW w \in Workers, NEW i \in DOMAIN scan_tasks[w]
      PROVE  Flight[<<"queue", w, i>>] = scan_tasks[w][i]
  <2>1. <<"queue", w, i>> \in Places
    BY <1>0 DEF PlaceShape
  <2>2. TaskAt(<<"queue", w, i>>) = scan_tasks[w][i]
    BY DEF TaskAt
  <2> QED BY <2>1, <2>2 DEF Flight
<1>4. ASSUME NEW w \in Workers, NEW i \in DOMAIN current[w]
      PROVE  Flight[<<"scan", w, i>>] = current[w][i]
  <2>1. <<"scan", w, i>> \in Places
    BY <1>0 DEF PlaceShape
  <2>2. TaskAt(<<"scan", w, i>>) = current[w][i]
    BY DEF TaskAt
  <2> QED BY <2>1, <2>2 DEF Flight
<1> QED BY <1>1, <1>2, <1>3, <1>4 DEF FlightShape, Flight

\* Both hold after a step as well.
LEMMA ShapesNext == PlaceShape' /\ FlightShape'
BY PlacesAre, FlightIs, PTL

\* After a step each task in flight is one that was in flight before, at the
\* place f gives; no task is in two places.
Carried(f) ==
  /\ f \in [Places' -> Places]
  /\ \A p, q \in Places' : f[p] = f[q] => p = q
  /\ \A p \in Places' : Flight'[p] = Flight[f[p]]

\* No task in flight gets lost, except the ones at the places of L.
Kept(f, L) == \A q \in Places \ L : \E p \in Places' : f[p] = q

\* Nothing moves.
LEMMA MoveNone ==
  ASSUME UNCHANGED <<hand, scan_results, scan_tasks, current>>
  PROVE  \E f : Carried(f) /\ Kept(f, {})
<1> DEFINE f == [p \in Places' |-> p]
<1>1. Places' = Places
  BY DEF Places
<1>2. Flight' = Flight
  BY <1>1 DEF Flight, TaskAt
<1> WITNESS f
<1> QED BY <1>1, <1>2 DEF Carried, Kept

\* One task moves, from h to n.
LEMMA MoveOne ==
  ASSUME NEW h \in Places, NEW n, n \notin Places,
         Places' = (Places \ {h}) \union {n},
         Flight'[n] = Flight[h],
         \A p \in Places \ {h} : Flight'[p] = Flight[p]
  PROVE  \E f : Carried(f) /\ Kept(f, {})
<1> DEFINE f == [p \in Places' |-> IF p = n THEN h ELSE p]
<1>1. f \in [Places' -> Places]
  OBVIOUS
<1>2. \A p, q \in Places' : f[p] = f[q] => p = q
  OBVIOUS
<1>3. \A p \in Places' : Flight'[p] = Flight[f[p]]
  OBVIOUS
<1>4. \A q \in Places : \E p \in Places' : f[p] = q
  OBVIOUS
<1> HIDE DEF f
<1> QED BY <1>1, <1>2, <1>3, <1>4 DEF Carried, Kept

\* add_scan_task moves the task from the main task to the end of a queue.
LEMMA MoveAdded ==
  ASSUME TypeOK, Shape, AddScanTask
  PROVE  \E f : Carried(f) /\ Kept(f, {})
<1>0. /\ hand \in Seq(ScanTasks)
      /\ scan_tasks \in [Workers -> Seq(ScanTasks)]
      /\ probe \in Workers
  BY DEF TypeOK
<1>s. PlaceShape /\ FlightShape /\ PlaceShape' /\ FlightShape'
  BY PlacesAre, FlightIs, ShapesNext
<1> DEFINE s == scan_tasks[probe]
           L == Len(s) + 1
           u == Append(s, hand[1])
<1>1. Len(hand) = 1 /\ DOMAIN hand = {1}
  BY <1>0 DEF AddScanTask, Shape, HandShape
<1>2. s \in Seq(ScanTasks)
  BY <1>0
<1>a. hand[1] \in ScanTasks
  <2>1. 1 \in 1..Len(hand)
    BY <1>1
  <2> QED BY <1>0, <2>1, ElementOfSeq
<1>3. /\ Len(s) \in Nat
      /\ DOMAIN s = 1..Len(s) /\ DOMAIN u = 1..L
      /\ u[L] = hand[1] /\ \A i \in 1..Len(s) : u[i] = s[i]
  <2> HIDE DEF s
  <2> QED BY <1>2, <1>a, AppendProperties, LenProperties
<1>4. /\ hand' = << >> /\ DOMAIN hand' = {}
      /\ scan_results' = scan_results /\ current' = current
      /\ scan_tasks' = [scan_tasks EXCEPT ![probe] = u]
  BY DEF AddScanTask
<1> HIDE DEF u
<1>5. /\ scan_tasks'[probe] = u
      /\ \A w \in Workers : w # probe => scan_tasks'[w] = scan_tasks[w]
  BY <1>0, <1>4
<1> DEFINE h == <<"hand", 0, 1>>
           n == <<"queue", probe, L>>
<1>6. L \in Nat /\ L \notin 1..Len(s) /\ 1..L = (1..Len(s)) \union {L}
  BY <1>3
<1> HIDE DEF L
<1>b. \A w \in Workers :
        /\ w = probe => DOMAIN scan_tasks'[w] = DOMAIN scan_tasks[w] \union {L}
        /\ w # probe => DOMAIN scan_tasks'[w] = DOMAIN scan_tasks[w]
  BY <1>3, <1>5, <1>6
<1>c. L \notin DOMAIN scan_tasks[probe]
  BY <1>3, <1>6
<1>7. h \in Places
  BY <1>1, <1>s DEF PlaceShape
<1>8. n \notin Places
  BY <1>c, <1>s DEF PlaceShape
<1>9. Places' = (Places \ {h}) \union {n}
  <2>1. \A p \in Places' : p \in Places \/ p = n
    BY <1>4, <1>b, <1>s DEF PlaceShape
  <2>2. h \notin Places'
    BY <1>4, <1>s DEF PlaceShape
  <2>3. n \in Places'
    BY <1>0, <1>b, <1>s DEF PlaceShape
  <2>4. \A p \in Places : p \in Places' \/ p = h
    BY <1>1, <1>4, <1>b, <1>s DEF PlaceShape
  <2> HIDE DEF h, n
  <2> QED BY <1>7, <1>8, <2>1, <2>2, <2>3, <2>4
<1>10. Flight'[n] = Flight[h]
  <2>1. Flight'[n] = scan_tasks'[probe][L]
    BY <1>0, <1>b, <1>s DEF FlightShape
  <2>2. Flight[h] = hand[1]
    BY <1>1, <1>s DEF FlightShape
  <2> QED BY <1>3, <1>5, <2>1, <2>2
<1>11. ASSUME NEW p \in Places \ {h} PROVE Flight'[p] = Flight[p]
  <2>1. CASE \E i \in DOMAIN hand : p = <<"hand", 0, i>>
    BY <1>1, <2>1
  <2>2. CASE \E i \in DOMAIN scan_results : p = <<"results", 0, i>>
    BY <1>4, <1>s, <2>2 DEF FlightShape
  <2>3. CASE \E w \in Workers : \E i \in DOMAIN scan_tasks[w] : p = <<"queue", w, i>>
    <3>1. PICK w \in Workers : \E i \in DOMAIN scan_tasks[w] : p = <<"queue", w, i>>
      BY <2>3
    <3>2. PICK i \in DOMAIN scan_tasks[w] : p = <<"queue", w, i>>
      BY <3>1
    <3>3. scan_tasks'[w][i] = scan_tasks[w][i]
      BY <1>3, <1>5
    <3>4. i \in DOMAIN scan_tasks'[w]
      BY <1>b
    <3> QED BY <1>s, <3>2, <3>3, <3>4 DEF FlightShape
  <2>4. CASE \E w \in Workers : \E i \in DOMAIN current[w] : p = <<"scan", w, i>>
    BY <1>4, <1>s, <2>4 DEF FlightShape
  <2> QED BY <1>s, <2>1, <2>2, <2>3, <2>4 DEF PlaceShape
<1> HIDE DEF h, n
<1> QED BY <1>7, <1>8, <1>9, <1>10, <1>11, MoveOne

\* A worker moves its results to the end of the results channel.
LEMMA MoveSent ==
  ASSUME TypeOK, Shape, OneTask, NEW w \in Workers, SendScanResults(w)
  PROVE  \E f : Carried(f) /\ Kept(f, {})
<1>0. /\ scan_results \in Seq(ScanTasks)
      /\ current \in [Workers -> Seq(ScanTasks)]
  BY DEF TypeOK
<1>s. PlaceShape /\ FlightShape /\ PlaceShape' /\ FlightShape'
  BY PlacesAre, FlightIs, ShapesNext
<1> DEFINE s == scan_results
           L == Len(s) + 1
           u == Append(s, current[w][1])
<1>1. DOMAIN current[w] = {1} /\ current[w][1] \in ScanTasks
  <2>1. current[w] \in Seq(ScanTasks) /\ current[w] # << >> /\ Len(current[w]) \in {0, 1}
    BY <1>0 DEF SendScanResults, Shape, CurrentShape, OneTask
  <2>2. Len(current[w]) = 1
    <3>1. Len(current[w]) \in Nat \ {0}
      BY <2>1, EmptySeq
    <3> QED BY <2>1, <3>1
  <2>3. 1 \in 1..Len(current[w])
    BY <2>2
  <2>4. current[w][1] \in ScanTasks
    BY <2>1, <2>3, ElementOfSeq
  <2> QED BY <2>1, <2>2, <2>4, LenProperties
<1>3. /\ Len(s) \in Nat
      /\ DOMAIN s = 1..Len(s) /\ DOMAIN u = 1..L
      /\ u[L] = current[w][1] /\ \A i \in 1..Len(s) : u[i] = s[i]
  BY <1>0, <1>1, AppendProperties, LenProperties
<1>4. /\ scan_results' = u /\ hand' = hand /\ scan_tasks' = scan_tasks
      /\ current' = [current EXCEPT ![w] = << >>]
  BY DEF SendScanResults, main
<1> HIDE DEF u
<1>5. /\ DOMAIN current'[w] = {}
      /\ \A v \in Workers : v # w => current'[v] = current[v]
  BY <1>0, <1>4
<1> DEFINE h == <<"scan", w, 1>>
           n == <<"results", 0, L>>
<1>6. L \in Nat /\ L \notin 1..Len(s) /\ 1..L = (1..Len(s)) \union {L}
  BY <1>3
<1> HIDE DEF L
<1>b. DOMAIN scan_results' = DOMAIN scan_results \union {L}
      /\ L \notin DOMAIN scan_results
  BY <1>3, <1>4, <1>6
<1>7. h \in Places
  BY <1>1, <1>s DEF PlaceShape
<1>8. n \notin Places
  BY <1>b, <1>s DEF PlaceShape
<1>9. Places' = (Places \ {h}) \union {n}
  <2>1. \A p \in Places' : p \in Places \/ p = n
    BY <1>4, <1>5, <1>b, <1>s DEF PlaceShape
  <2>2. h \notin Places'
    BY <1>5, <1>s DEF PlaceShape
  <2>3. n \in Places'
    BY <1>b, <1>s DEF PlaceShape
  <2>4. \A p \in Places : p \in Places' \/ p = h
    BY <1>1, <1>4, <1>5, <1>b, <1>s DEF PlaceShape
  <2> HIDE DEF h, n
  <2> QED BY <1>7, <1>8, <2>1, <2>2, <2>3, <2>4
<1>10. Flight'[n] = Flight[h]
  <2>1. Flight'[n] = scan_results'[L]
    BY <1>b, <1>s DEF FlightShape
  <2>2. Flight[h] = current[w][1]
    BY <1>1, <1>s DEF FlightShape
  <2> QED BY <1>3, <1>4, <2>1, <2>2
<1>11. ASSUME NEW p \in Places \ {h} PROVE Flight'[p] = Flight[p]
  <2>1. CASE \E i \in DOMAIN hand : p = <<"hand", 0, i>>
    BY <1>4, <1>s, <2>1 DEF FlightShape
  <2>2. CASE \E i \in DOMAIN scan_results : p = <<"results", 0, i>>
    <3>1. PICK i \in DOMAIN scan_results : p = <<"results", 0, i>>
      BY <2>2
    <3>2. i \in DOMAIN scan_results' /\ scan_results'[i] = scan_results[i]
      BY <1>3, <1>4, <1>b
    <3> QED BY <1>s, <3>1, <3>2 DEF FlightShape
  <2>3. CASE \E v \in Workers : \E i \in DOMAIN scan_tasks[v] : p = <<"queue", v, i>>
    BY <1>4, <1>s, <2>3 DEF FlightShape
  <2>4. CASE \E v \in Workers : \E i \in DOMAIN current[v] : p = <<"scan", v, i>>
    <3>1. PICK v \in Workers : \E i \in DOMAIN current[v] : p = <<"scan", v, i>>
      BY <2>4
    <3>2. PICK i \in DOMAIN current[v] : p = <<"scan", v, i>>
      BY <3>1
    <3>3. v # w
      BY <1>1, <3>2
    <3> QED BY <1>5, <1>s, <3>2, <3>3 DEF FlightShape
  <2> QED BY <1>s, <2>1, <2>2, <2>3, <2>4 DEF PlaceShape
<1> HIDE DEF h, n
<1> QED BY <1>7, <1>8, <1>9, <1>10, <1>11, MoveOne

\* A worker takes the oldest task of its queue; the others move up.
LEMMA MoveTaken ==
  ASSUME TypeOK, Shape, NEW w \in Workers, ReceiveScanTask(w)
  PROVE  \E f : Carried(f) /\ Kept(f, {})
<1>0. /\ scan_tasks \in [Workers -> Seq(ScanTasks)]
      /\ current \in [Workers -> Seq(ScanTasks)]
  BY DEF TypeOK
<1>s. PlaceShape /\ FlightShape /\ PlaceShape' /\ FlightShape'
  BY PlacesAre, FlightIs, ShapesNext
<1> DEFINE s == scan_tasks[w]
           t == Tail(s)
           c == << Head(s) >>
<1>1. s \in Seq(ScanTasks) /\ s # << >>
  BY <1>0 DEF ReceiveScanTask
<1>2. /\ Len(s) \in Nat \ {0} /\ DOMAIN s = 1..Len(s)
      /\ DOMAIN t = 1..(Len(s) - 1)
      /\ \A i \in 1..(Len(s) - 1) : t[i] = s[i + 1]
      /\ DOMAIN c = {1} /\ c[1] = s[1]
  <2> HIDE DEF s
  <2> QED BY <1>1, HeadTailProperties, LenProperties
<1>3. /\ hand' = hand /\ scan_results' = scan_results
      /\ scan_tasks' = [scan_tasks EXCEPT ![w] = t]
      /\ current' = [current EXCEPT ![w] = c]
  BY DEF ReceiveScanTask, main
<1>4. current[w] = << >> /\ DOMAIN current[w] = {}
  BY DEF ReceiveScanTask, Shape, CurrentShape
<1> HIDE DEF t, c
<1>5. /\ scan_tasks'[w] = t /\ current'[w] = c
      /\ \A v \in Workers : v # w => /\ scan_tasks'[v] = scan_tasks[v]
                                     /\ current'[v] = current[v]
  BY <1>0, <1>3
<1> DEFINE F(p) == IF p = <<"scan", w, 1>> THEN <<"queue", w, 1>>
                   ELSE IF p[1] = "queue" /\ p[2] = w THEN <<"queue", w, p[3] + 1>>
                   ELSE p
<1> DEFINE G(p) == IF p = <<"queue", w, 1>> THEN <<"scan", w, 1>>
                   ELSE IF p[1] = "queue" /\ p[2] = w THEN <<"queue", w, p[3] - 1>>
                   ELSE p
<1>6. ASSUME NEW p \in Places'
      PROVE  F(p) \in Places /\ Flight'[p] = Flight[F(p)] /\ G(F(p)) = p
  <2>1. CASE \E i \in DOMAIN hand' : p = <<"hand", 0, i>>
    <3>1. F(p) = p /\ G(p) = p
      BY <2>1
    <3> HIDE DEF F, G
    <3> QED BY <1>3, <1>s, <2>1, <3>1 DEF PlaceShape, FlightShape
  <2>2. CASE \E i \in DOMAIN scan_results' : p = <<"results", 0, i>>
    <3>1. F(p) = p /\ G(p) = p
      BY <2>2
    <3> HIDE DEF F, G
    <3> QED BY <1>3, <1>s, <2>2, <3>1 DEF PlaceShape, FlightShape
  <2>3. ASSUME NEW v \in Workers, NEW i \in DOMAIN scan_tasks'[v],
               p = <<"queue", v, i>>
        PROVE  F(p) \in Places /\ Flight'[p] = Flight[F(p)] /\ G(F(p)) = p
    <3>1. CASE v = w
      <4>1. i \in 1..(Len(s) - 1) /\ i \in Nat /\ i + 1 \in 1..Len(s)
            /\ i + 1 # 1 /\ (i + 1) - 1 = i
        BY <1>2, <1>5, <3>1
      <4>2. F(p) = <<"queue", w, i + 1>>
        BY <2>3, <3>1
      <4>3. G(<<"queue", w, i + 1>>) = p
        BY <2>3, <3>1, <4>1
      <4>4. <<"queue", w, i + 1>> \in Places
        BY <1>2, <1>s, <4>1 DEF PlaceShape
      <4>5. Flight[<<"queue", w, i + 1>>] = s[i + 1]
        BY <1>2, <1>s, <4>1 DEF FlightShape
      <4>6. Flight'[p] = t[i]
        BY <1>5, <1>s, <2>3, <3>1 DEF FlightShape
      <4> HIDE DEF F, G, s
      <4> QED BY <1>2, <4>1, <4>2, <4>3, <4>4, <4>5, <4>6
    <3>2. CASE v # w
      <4>1. F(p) = p /\ G(p) = p
        BY <2>3, <3>2
      <4> HIDE DEF F, G
      <4> QED BY <1>5, <1>s, <2>3, <3>2, <4>1 DEF PlaceShape, FlightShape
    <3> QED BY <3>1, <3>2
  <2>4. ASSUME NEW v \in Workers, NEW i \in DOMAIN current'[v],
               p = <<"scan", v, i>>
        PROVE  F(p) \in Places /\ Flight'[p] = Flight[F(p)] /\ G(F(p)) = p
    <3>1. CASE v = w
      <4>1. i = 1
        BY <1>2, <1>5, <3>1
      <4>2. F(p) = <<"queue", w, 1>> /\ G(<<"queue", w, 1>>) = p
        BY <2>4, <3>1, <4>1
      <4>3. <<"queue", w, 1>> \in Places /\ Flight[<<"queue", w, 1>>] = s[1]
        BY <1>2, <1>s DEF PlaceShape, FlightShape
      <4>4. Flight'[p] = c[1]
        BY <1>5, <1>s, <2>4, <3>1, <4>1 DEF FlightShape
      <4> HIDE DEF F, G
      <4> QED BY <1>2, <4>2, <4>3, <4>4
    <3>2. CASE v # w
      <4>1. F(p) = p /\ G(p) = p
        BY <2>4, <3>2
      <4> HIDE DEF F, G
      <4> QED BY <1>5, <1>s, <2>4, <3>2, <4>1 DEF PlaceShape, FlightShape
    <3> QED BY <3>1, <3>2
  <2> HIDE DEF F, G
  <2> QED BY <1>s, <2>1, <2>2, <2>3, <2>4 DEF PlaceShape
<1>7. ASSUME NEW q \in Places
      PROVE  G(q) \in Places' /\ F(G(q)) = q
  <2>1. CASE \E i \in DOMAIN hand : q = <<"hand", 0, i>>
    <3>1. F(q) = q /\ G(q) = q
      BY <2>1
    <3> HIDE DEF F, G
    <3> QED BY <1>3, <1>s, <2>1, <3>1 DEF PlaceShape
  <2>2. CASE \E i \in DOMAIN scan_results : q = <<"results", 0, i>>
    <3>1. F(q) = q /\ G(q) = q
      BY <2>2
    <3> HIDE DEF F, G
    <3> QED BY <1>3, <1>s, <2>2, <3>1 DEF PlaceShape
  <2>3. ASSUME NEW v \in Workers, NEW i \in DOMAIN scan_tasks[v],
               q = <<"queue", v, i>>
        PROVE  G(q) \in Places' /\ F(G(q)) = q
    <3>1. CASE v = w /\ i = 1
      <4>1. G(q) = <<"scan", w, 1>> /\ F(<<"scan", w, 1>>) = q
        BY <2>3, <3>1
      <4>2. <<"scan", w, 1>> \in Places'
        BY <1>2, <1>5, <1>s DEF PlaceShape
      <4> HIDE DEF F, G
      <4> QED BY <4>1, <4>2
    <3>2. CASE v = w /\ i # 1
      <4>1. i - 1 \in 1..(Len(s) - 1) /\ (i - 1) + 1 = i
        BY <1>2, <3>2
      <4>2. G(q) = <<"queue", w, i - 1>>
        BY <2>3, <3>2
      <4>3. F(<<"queue", w, i - 1>>) = q
        BY <2>3, <3>2, <4>1
      <4>4. <<"queue", w, i - 1>> \in Places'
        BY <1>2, <1>5, <1>s, <4>1 DEF PlaceShape
      <4> HIDE DEF F, G
      <4> QED BY <4>2, <4>3, <4>4
    <3>3. CASE v # w
      <4>1. F(q) = q /\ G(q) = q
        BY <2>3, <3>3
      <4> HIDE DEF F, G
      <4> QED BY <1>5, <1>s, <2>3, <3>3, <4>1 DEF PlaceShape
    <3> QED BY <3>1, <3>2, <3>3
  <2>4. ASSUME NEW v \in Workers, NEW i \in DOMAIN current[v],
               q = <<"scan", v, i>>
        PROVE  G(q) \in Places' /\ F(G(q)) = q
    <3>1. v # w
      BY <1>4, <2>4
    <3>2. F(q) = q /\ G(q) = q
      BY <2>4, <3>1
    <3> HIDE DEF F, G
    <3> QED BY <1>5, <1>s, <2>4, <3>1, <3>2 DEF PlaceShape
  <2> HIDE DEF F, G
  <2> QED BY <1>s, <2>1, <2>2, <2>3, <2>4 DEF PlaceShape
<1> HIDE DEF F, G
<1> DEFINE f == [p \in Places' |-> F(p)]
<1>8. Carried(f)
  BY <1>6 DEF Carried
<1>9. Kept(f, {})
  BY <1>7 DEF Kept
<1> QED BY <1>8, <1>9

\* The main task takes the oldest result, which leaves; the others move up.
LEMMA MoveResults ==
  ASSUME TypeOK, ReceiveScanResults
  PROVE  /\ <<"results", 0, 1>> \in Places
         /\ Flight[<<"results", 0, 1>>] = Head(scan_results)
         /\ \E f : /\ Carried(f)
                   /\ Kept(f, {<<"results", 0, 1>>})
                   /\ \A p \in Places' : f[p] # <<"results", 0, 1>>
<1>0. scan_results \in Seq(ScanTasks) /\ scan_results # << >>
  BY DEF TypeOK, ReceiveScanResults
<1>s. PlaceShape /\ FlightShape /\ PlaceShape' /\ FlightShape'
  BY PlacesAre, FlightIs, ShapesNext
<1> DEFINE s == scan_results
           t == Tail(s)
           h == <<"results", 0, 1>>
<1>2. /\ Len(s) \in Nat \ {0} /\ DOMAIN s = 1..Len(s)
      /\ DOMAIN t = 1..(Len(s) - 1)
      /\ \A i \in 1..(Len(s) - 1) : t[i] = s[i + 1]
      /\ Head(s) = s[1] /\ 1 \in DOMAIN s
  BY <1>0, HeadTailProperties, LenProperties
<1>3. /\ hand' = hand /\ scan_results' = t
      /\ scan_tasks' = scan_tasks /\ current' = current
  BY DEF ReceiveScanResults
<1> HIDE DEF t
<1>4. h \in Places /\ Flight[h] = Head(s)
  BY <1>2, <1>s DEF PlaceShape, FlightShape
<1> DEFINE F(p) == IF p[1] = "results" THEN <<"results", 0, p[3] + 1>> ELSE p
           G(p) == IF p[1] = "results" THEN <<"results", 0, p[3] - 1>> ELSE p
<1>6. ASSUME NEW p \in Places'
      PROVE  /\ F(p) \in Places /\ Flight'[p] = Flight[F(p)]
             /\ G(F(p)) = p /\ F(p) # h
  <2>1. CASE \E i \in DOMAIN hand' : p = <<"hand", 0, i>>
    <3>1. F(p) = p /\ G(p) = p /\ p # h
      BY <2>1
    <3> HIDE DEF F, G
    <3> QED BY <1>3, <1>s, <2>1, <3>1 DEF PlaceShape, FlightShape
  <2>2. ASSUME NEW i \in DOMAIN scan_results', p = <<"results", 0, i>>
        PROVE  /\ F(p) \in Places /\ Flight'[p] = Flight[F(p)]
               /\ G(F(p)) = p /\ F(p) # h
    <3>1. i \in 1..(Len(s) - 1) /\ i \in Nat /\ i + 1 \in 1..Len(s)
          /\ i + 1 # 1 /\ (i + 1) - 1 = i
      BY <1>2, <1>3
    <3>2. F(p) = <<"results", 0, i + 1>>
      BY <2>2
    <3>3. G(<<"results", 0, i + 1>>) = p /\ <<"results", 0, i + 1>> # h
      BY <2>2, <3>1
    <3>4. /\ <<"results", 0, i + 1>> \in Places
          /\ Flight[<<"results", 0, i + 1>>] = s[i + 1]
      BY <1>2, <1>s, <3>1 DEF PlaceShape, FlightShape
    <3>5. Flight'[p] = t[i]
      BY <1>3, <1>s, <2>2 DEF FlightShape
    <3> HIDE DEF F, G
    <3> QED BY <1>2, <3>1, <3>2, <3>3, <3>4, <3>5
  <2>3. CASE \E v \in Workers : \E i \in DOMAIN scan_tasks'[v] : p = <<"queue", v, i>>
    <3>1. F(p) = p /\ G(p) = p /\ p # h
      BY <2>3
    <3> HIDE DEF F, G
    <3> QED BY <1>3, <1>s, <2>3, <3>1 DEF PlaceShape, FlightShape
  <2>4. CASE \E v \in Workers : \E i \in DOMAIN current'[v] : p = <<"scan", v, i>>
    <3>1. F(p) = p /\ G(p) = p /\ p # h
      BY <2>4
    <3> HIDE DEF F, G
    <3> QED BY <1>3, <1>s, <2>4, <3>1 DEF PlaceShape, FlightShape
  <2> HIDE DEF F, G, h
  <2> QED BY <1>s, <2>1, <2>2, <2>3, <2>4 DEF PlaceShape
<1>7. ASSUME NEW q \in Places, q # h
      PROVE  G(q) \in Places' /\ F(G(q)) = q
  <2>1. CASE \E i \in DOMAIN hand : q = <<"hand", 0, i>>
    <3>1. F(q) = q /\ G(q) = q
      BY <2>1
    <3> HIDE DEF F, G
    <3> QED BY <1>3, <1>s, <2>1, <3>1 DEF PlaceShape
  <2>2. ASSUME NEW i \in DOMAIN scan_results, q = <<"results", 0, i>>
        PROVE  G(q) \in Places' /\ F(G(q)) = q
    <3>1. i # 1
      BY <1>7, <2>2
    <3>2. i - 1 \in 1..(Len(s) - 1) /\ (i - 1) + 1 = i
      BY <1>2, <3>1
    <3>3. G(q) = <<"results", 0, i - 1>>
      BY <2>2
    <3>4. F(<<"results", 0, i - 1>>) = q
      BY <2>2, <3>2
    <3>5. <<"results", 0, i - 1>> \in Places'
      BY <1>2, <1>3, <1>s, <3>2 DEF PlaceShape
    <3> HIDE DEF F, G
    <3> QED BY <3>3, <3>4, <3>5
  <2>3. CASE \E v \in Workers : \E i \in DOMAIN scan_tasks[v] : q = <<"queue", v, i>>
    <3>1. F(q) = q /\ G(q) = q
      BY <2>3
    <3> HIDE DEF F, G
    <3> QED BY <1>3, <1>s, <2>3, <3>1 DEF PlaceShape
  <2>4. CASE \E v \in Workers : \E i \in DOMAIN current[v] : q = <<"scan", v, i>>
    <3>1. F(q) = q /\ G(q) = q
      BY <2>4
    <3> HIDE DEF F, G
    <3> QED BY <1>3, <1>s, <2>4, <3>1 DEF PlaceShape
  <2> HIDE DEF F, G
  <2> QED BY <1>s, <2>1, <2>2, <2>3, <2>4 DEF PlaceShape
<1> HIDE DEF F, G, h
<1> DEFINE f == [p \in Places' |-> F(p)]
<1>8. Carried(f)
  BY <1>6 DEF Carried
<1>9. Kept(f, {h})
  BY <1>7 DEF Kept
<1>10. \A p \in Places' : f[p] # h
  BY <1>6
<1> HIDE DEF f
<1>11. \E g : Carried(g) /\ Kept(g, {h}) /\ \A p \in Places' : g[p] # h
  BY <1>8, <1>9, <1>10
<1> QED BY <1>4, <1>11 DEF h

\* Tasks are dropped: a worker dies with its task and its queue, or
\* spawn_workers replaces the pool.
LEMMA MoveDropped ==
  ASSUME TypeOK, hand' = hand, scan_results' = scan_results,
         \A w \in Workers : scan_tasks'[w] \in {scan_tasks[w], << >>},
         \A w \in Workers : current'[w] \in {current[w], << >>}
  PROVE  \E f : Carried(f)
<1>s. PlaceShape /\ FlightShape /\ PlaceShape' /\ FlightShape'
  BY PlacesAre, FlightIs, ShapesNext
<1>0. DOMAIN << >> = {}
  OBVIOUS
<1> DEFINE f == [p \in Places' |-> p]
<1>1. ASSUME NEW p \in Places' PROVE p \in Places /\ Flight'[p] = Flight[p]
  <2>1. CASE \E i \in DOMAIN hand' : p = <<"hand", 0, i>>
    BY <1>s, <2>1 DEF PlaceShape, FlightShape
  <2>2. CASE \E i \in DOMAIN scan_results' : p = <<"results", 0, i>>
    BY <1>s, <2>2 DEF PlaceShape, FlightShape
  <2>3. CASE \E v \in Workers : \E i \in DOMAIN scan_tasks'[v] : p = <<"queue", v, i>>
    <3>1. PICK v \in Workers : \E i \in DOMAIN scan_tasks'[v] : p = <<"queue", v, i>>
      BY <2>3
    <3>2. scan_tasks'[v] = scan_tasks[v]
      BY <1>0, <3>1
    <3> QED BY <1>s, <3>1, <3>2 DEF PlaceShape, FlightShape
  <2>4. CASE \E v \in Workers : \E i \in DOMAIN current'[v] : p = <<"scan", v, i>>
    <3>1. PICK v \in Workers : \E i \in DOMAIN current'[v] : p = <<"scan", v, i>>
      BY <2>4
    <3>2. current'[v] = current[v]
      BY <1>0, <3>1
    <3> QED BY <1>s, <3>1, <3>2 DEF PlaceShape, FlightShape
  <2> QED BY <1>s, <2>1, <2>2, <2>3, <2>4 DEF PlaceShape
<1>2. Carried(f)
  BY <1>1 DEF Carried
<1> QED BY <1>2

\* prepare_next_scan_range: one task appears, in the hand of the main task.
LEMMA MovePrepared ==
  ASSUME TypeOK, Shape, PrepareNextScanRange
  PROVE  /\ <<"hand", 0, 1>> \notin Places
         /\ Places' = Places \union {<<"hand", 0, 1>>}
         /\ Flight'[<<"hand", 0, 1>>] = hand'[1]
         /\ \A p \in Places : Flight'[p] = Flight[p]
<1>s. PlaceShape /\ FlightShape /\ PlaceShape' /\ FlightShape'
  BY PlacesAre, FlightIs, ShapesNext
<1>1. hand = << >> /\ DOMAIN hand = {}
  BY DEF PrepareNextScanRange, Shape, HandShape
<1>2. DOMAIN hand' = {1}
  BY DEF PrepareNextScanRange
<1>3. UNCHANGED <<scan_results, scan_tasks, current>>
  BY DEF PrepareNextScanRange, pool
<1> DEFINE h == <<"hand", 0, 1>>
<1>4. h \notin Places
  BY <1>1, <1>s DEF PlaceShape
<1>5. \A p : p \in Places' <=> p \in Places \/ p = h
  BY <1>1, <1>2, <1>3, <1>s DEF PlaceShape
<1>6. Flight'[h] = hand'[1]
  BY <1>2, <1>s DEF FlightShape
<1>7. \A p \in Places : Flight'[p] = Flight[p]
  BY <1>1, <1>3, <1>s DEF PlaceShape, FlightShape
<1>8. Places' = Places \union {h}
  <2> HIDE DEF h
  <2> QED BY <1>5
<1> QED BY <1>4, <1>6, <1>7, <1>8
-----------------------------------------------------------------------------
(* What the tasks and the ranges say about each other *)

\* The steps by what they do to the tasks in flight.
LEMMA MoveCases ==
  ASSUME TypeOK, Shape, OneTask, [Next]_vars
  PROVE  \/ PrepareNextScanRange
         \/ ReceiveScanResults
         \/ UpdateScanRanges
         \/ \E w \in Workers : Die(w) /\ (AnswerLost(w) \/ ScanPanics(w))
         \/ /\ \E f : Carried(f) /\ Kept(f, {})
            /\ UNCHANGED <<scan_ranges, shard_trees>>
<1>1. ASSUME NEW w \in Workers, ReceiveScanTask(w)
      PROVE  /\ \E f : Carried(f) /\ Kept(f, {})
             /\ UNCHANGED <<scan_ranges, shard_trees>>
  BY <1>1, MoveTaken DEF ReceiveScanTask, wallet
<1>2. ASSUME NEW w \in Workers, SendScanResults(w)
      PROVE  /\ \E f : Carried(f) /\ Kept(f, {})
             /\ UNCHANGED <<scan_ranges, shard_trees>>
  BY <1>2, MoveSent DEF SendScanResults, wallet
<1>3. CASE AddScanTask
  BY <1>3, MoveAdded DEF AddScanTask, wallet
<1>4. ASSUME NEW w \in Workers, AnswerLost(w) \/ ScanPanics(w)
      PROVE  Die(w)
  BY <1>4 DEF AnswerLost, ScanPanics
<1>5. \/ /\ UNCHANGED <<hand, scan_results, scan_tasks, current>>
         /\ UNCHANGED <<scan_ranges, shard_trees>>
      \/ UpdateScanRanges \/ PrepareNextScanRange \/ AddScanTask
      \/ ReceiveScanResults
      \/ \E w \in Workers : \/ ReceiveScanTask(w) \/ SendScanResults(w)
                            \/ AnswerLost(w) \/ ScanPanics(w)
  BY DEF Next, vars, wallet, main, pool, MainStep, ServerGrows, StartSync,
     ChainHeightFails, WalletAhead, NextWorker, NoWorkerIdle, NothingToScan,
     NoIdleWorkers, NoScanResults, ResultsClosed, JoinFetcher, WorkerStep,
     RequestBlocks, RequestFrontiers, ClearScanning, WorkerEnds, FetcherStep,
     FetchFromServer, FetchFails, FetcherEnds, Finished
<1> QED BY <1>1, <1>2, <1>3, <1>4, <1>5, MoveNone

\* spawn_workers and a panic of a worker only drop tasks.
LEMMA DroppedCarried ==
  ASSUME TypeOK, UpdateScanRanges \/ \E w \in Workers : Die(w)
  PROVE  \E f : Carried(f)
<1>0. /\ scan_tasks \in [Workers -> Seq(ScanTasks)]
      /\ current \in [Workers -> Seq(ScanTasks)]
  BY DEF TypeOK
<1>1. /\ hand' = hand /\ scan_results' = scan_results
      /\ \A w \in Workers : scan_tasks'[w] \in {scan_tasks[w], << >>}
      /\ \A w \in Workers : current'[w] \in {current[w], << >>}
  BY <1>0 DEF UpdateScanRanges, Die, main
<1> QED BY <1>1, MoveDropped

\* A worker takes one task at a time.
LEMMA OneTaskStep == TypeOK /\ OneTask /\ [Next]_vars => OneTask'
<1> SUFFICES ASSUME TypeOK, OneTask, [Next]_vars PROVE OneTask'
  OBVIOUS
<1>0. current \in [Workers -> Seq(ScanTasks)]
  BY DEF TypeOK
<1>e. Len(<< >>) = 0
  OBVIOUS
<1>1. CASE current' = current
  BY <1>1 DEF OneTask
<1>2. CASE UpdateScanRanges
  BY <1>e, <1>2 DEF UpdateScanRanges, OneTask
<1>3. ASSUME NEW w \in Workers, ReceiveScanTask(w) PROVE OneTask'
  <2> DEFINE c == << Head(scan_tasks[w]) >>
  <2>1. current' = [current EXCEPT ![w] = c] /\ Len(c) = 1
    BY <1>3 DEF ReceiveScanTask
  <2> HIDE DEF c
  <2> QED BY <1>0, <2>1 DEF OneTask
<1>4. ASSUME NEW w \in Workers, SendScanResults(w) \/ Die(w) PROVE OneTask'
  BY <1>0, <1>e, <1>4 DEF SendScanResults, Die, OneTask
<1>5. \/ current' = current \/ UpdateScanRanges
      \/ \E w \in Workers : ReceiveScanTask(w) \/ SendScanResults(w) \/ Die(w)
  BY DEF Next, vars, wallet, main, pool, MainStep, ServerGrows, StartSync,
     ChainHeightFails, WalletAhead, NextWorker, NoWorkerIdle, NothingToScan,
     NoIdleWorkers, NoScanResults, ResultsClosed, JoinFetcher, WorkerStep,
     RequestBlocks, RequestFrontiers, ClearScanning, WorkerEnds, FetcherStep,
     FetchFromServer, FetchFails, FetcherEnds, Finished, AddScanTask,
     PrepareNextScanRange, ReceiveScanResults, AnswerLost, ScanPanics
<1> QED BY <1>1, <1>2, <1>3, <1>4, <1>5

\* The list entry of a batch that was scanned.
Done(t) == [start |-> t.start, end |-> t.end, priority |-> "Scanned"]

\* The list the invariant speaks of.
LEMMA ListFacts ==
  ASSUME EngineInv
  PROVE  /\ scan_ranges \in Seq(ScanRanges)
         /\ PartitionOf(scan_ranges)
BY DEF EngineInv, TypeOK, RangesPartition, PartitionOf

\* update_scan_ranges adds one range to scan.
LEMMA UpdateRanges ==
  ASSUME EngineInv, UpdateScanRanges
  PROVE  RangesOf(scan_ranges') = RangesOf(scan_ranges) \union {ChainTipScanRange}
<1>1. TypeOK
  BY DEF EngineInv
<1> QED BY <1>1, ListFacts, ChainTipType, AppendSet DEF UpdateScanRanges

\* prepare_next_scan_range replaces a Historic range by its batch and rest.
LEMMA PrepareRanges ==
  ASSUME EngineInv, PrepareNextScanRange
  PROVE  \E r \in RangesOf(scan_ranges) :
           /\ r.priority = "Historic"
           /\ RangesOf(scan_ranges') =
                (RangesOf(scan_ranges) \ {r}) \union {Batch(r)}
                  \union (IF Splits(r) THEN {Rest(r)} ELSE {})
           /\ hand'[1].start = r.start
           /\ Entry(hand'[1]) = Batch(r)
<1>0. TypeOK
  BY DEF EngineInv
<1> DEFINE k == Selected
           r == scan_ranges[k]
<1>1. k \in 1..Len(scan_ranges) /\ Selectable(k)
  BY <1>0, SelectedIndex DEF PrepareNextScanRange
<1>2. r \in ScanRanges /\ r \in RangesOf(scan_ranges)
  BY <1>1, ListFacts, ElementOfSeq DEF RangesOf
<1>3. r.priority = "Historic"
  BY <1>1, <1>2 DEF Selectable, ScanRanges, Priorities
<1>4. RangesOf(scan_ranges') =
        (RangesOf(scan_ranges) \ {r}) \union {Batch(r)}
          \union (IF Splits(r) THEN {Rest(r)} ELSE {})
  <2>1. scan_ranges' = Splice(scan_ranges, k, Prepared(r))
    BY DEF PrepareNextScanRange
  <2> HIDE DEF k
  <2> QED BY <1>1, <2>1, ListFacts, PreparedSet
<1>5. hand'[1] = [start |-> r.start, end |-> BatchEnd(r),
                  prev |-> r.start - 1 \in wallet_blocks]
  BY DEF PrepareNextScanRange
<1> HIDE DEF r, k
<1>6. hand'[1].start = r.start /\ hand'[1].end = BatchEnd(r)
  BY <1>5
<1>7. Entry(hand'[1]) = Batch(r)
  BY <1>6 DEF Entry, Batch
<1> QED BY <1>2, <1>3, <1>4, <1>6, <1>7

\* mark_scanned finds the entry of the batch and makes it Scanned.
LEMMA MarkRanges ==
  ASSUME EngineInv, TasksIgnored, ReceiveScanResults
  PROVE  LET t == Head(scan_results) IN
           /\ t \in ScanTasks
           /\ Entry(t) \in RangesOf(scan_ranges)
           /\ RangesOf(scan_ranges') =
                (RangesOf(scan_ranges) \ {Entry(t)}) \union {Done(t)}
           /\ shard_trees' = shard_trees \union Heights(t)
<1>0. TypeOK
  BY DEF EngineInv
<1> DEFINE t == Head(scan_results)
<1>1. t \in ScanTasks
  <2>1. scan_results \in Seq(ScanTasks) /\ scan_results # << >>
    BY <1>0 DEF TypeOK, ReceiveScanResults
  <2> QED BY <2>1, HeadTailProperties
<1>2. Entry(t) \in RangesOf(scan_ranges)
  <2>1. <<"results", 0, 1>> \in Places /\ Flight[<<"results", 0, 1>>] = t
    BY <1>0, MoveResults
  <2> QED BY <2>1 DEF TasksIgnored
<1> HIDE DEF t
<1>3. Found(t)
  <2>1. PICK k \in 1..Len(scan_ranges) : Entry(t) = scan_ranges[k]
    BY <1>2 DEF RangesOf
  <2>2. Entry(t).start = t.start /\ Entry(t).end = t.end
    BY DEF Entry
  <2> QED BY <2>1, <2>2 DEF Found, SameBlocks
<1> DEFINE k == FoundAt(t)
<1>4. k \in 1..Len(scan_ranges) /\ SameBlocks(scan_ranges[k], t)
  BY <1>0, <1>3, FoundIndex
<1>5. /\ scan_ranges' = [scan_ranges EXCEPT ![k].priority = "Scanned"]
      /\ shard_trees' = shard_trees \union Heights(t)
  BY <1>3 DEF ReceiveScanResults, ApplyScanResults, t
<1> HIDE DEF k
<1>6. scan_ranges[k] = Entry(t)
  <2>1. scan_ranges[k] \in RangesOf(scan_ranges)
    BY <1>4 DEF RangesOf
  <2>2. scan_ranges[k].start = Entry(t).start
    BY <1>4 DEF SameBlocks, Entry
  <2> QED BY <1>2, <2>1, <2>2, ListFacts, RangesApart
<1>7. RangesOf(scan_ranges') =
        (RangesOf(scan_ranges) \ {scan_ranges[k]})
          \union {[start |-> scan_ranges[k].start, end |-> scan_ranges[k].end,
                   priority |-> "Scanned"]}
  BY <1>4, <1>5, ListFacts, MarkedSet
<1>8. Done(t) = [start |-> scan_ranges[k].start, end |-> scan_ranges[k].end,
                 priority |-> "Scanned"]
  BY <1>4 DEF Done, SameBlocks
<1> QED BY <1>1, <1>2, <1>5, <1>6, <1>7, <1>8 DEF t

\* No two tasks start at the same height.
LEMMA ApartStep == TaskInv /\ [Next]_vars => TasksApart'
<1> SUFFICES ASSUME TaskInv, [Next]_vars PROVE TasksApart'
  OBVIOUS
<1>0. EngineInv /\ TypeOK /\ Shape /\ OneTask /\ TasksApart /\ TasksIgnored
  BY DEF TaskInv, EngineInv
<1>1. ASSUME NEW f, Carried(f) PROVE TasksApart'
  BY <1>0, <1>1 DEF TasksApart, Carried
<1>2. CASE PrepareNextScanRange
  <2> DEFINE h == <<"hand", 0, 1>>
  <2>1. /\ h \notin Places
        /\ Places' = Places \union {h}
        /\ Flight'[h] = hand'[1]
        /\ \A p \in Places : Flight'[p] = Flight[p]
    BY <1>0, <1>2, MovePrepared
  <2> HIDE DEF h
  <2>2. PICK r \in RangesOf(scan_ranges) :
          r.priority = "Historic" /\ hand'[1].start = r.start
    BY <1>0, <1>2, PrepareRanges
  <2>3. ASSUME NEW p \in Places, Flight[p].start = r.start PROVE FALSE
    <3>1. Entry(Flight[p]) \in RangesOf(scan_ranges)
      BY <1>0 DEF TasksIgnored
    <3>2. /\ Entry(Flight[p]).start = r.start
          /\ Entry(Flight[p]).priority = "Ignored"
      BY <2>3 DEF Entry
    <3>3. Entry(Flight[p]) = r
      BY <1>0, <3>1, <3>2, ListFacts, RangesApart
    <3> QED BY <2>2, <3>2, <3>3
  <2> QED BY <1>0, <2>1, <2>2, <2>3 DEF TasksApart
<1>3. CASE ReceiveScanResults
  BY <1>0, <1>1, <1>3, MoveResults
<1>4. CASE UpdateScanRanges \/ \E w \in Workers : Die(w)
  BY <1>0, <1>1, <1>4, DroppedCarried
<1> QED BY <1>0, <1>1, <1>2, <1>3, <1>4, MoveCases

\* Every task in flight keeps its entry in the list.
LEMMA IgnoredStep == TaskInv /\ [Next]_vars => TasksIgnored'
<1> SUFFICES ASSUME TaskInv, [Next]_vars PROVE TasksIgnored'
  OBVIOUS
<1>0. EngineInv /\ TypeOK /\ Shape /\ OneTask /\ TasksApart /\ TasksIgnored
  BY DEF TaskInv, EngineInv
<1>1. ASSUME NEW f, Carried(f), RangesOf(scan_ranges) \subseteq RangesOf(scan_ranges')
      PROVE  TasksIgnored'
  BY <1>0, <1>1 DEF TasksIgnored, Carried
<1>2. CASE PrepareNextScanRange
  <2> DEFINE h == <<"hand", 0, 1>>
  <2>1. /\ h \notin Places
        /\ Places' = Places \union {h}
        /\ Flight'[h] = hand'[1]
        /\ \A p \in Places : Flight'[p] = Flight[p]
    BY <1>0, <1>2, MovePrepared
  <2> HIDE DEF h
  <2>2. PICK r \in RangesOf(scan_ranges) :
          /\ r.priority = "Historic"
          /\ RangesOf(scan_ranges') =
               (RangesOf(scan_ranges) \ {r}) \union {Batch(r)}
                 \union (IF Splits(r) THEN {Rest(r)} ELSE {})
          /\ Entry(hand'[1]) = Batch(r)
    BY <1>0, <1>2, PrepareRanges
  <2>3. ASSUME NEW p \in Places PROVE Entry(Flight'[p]) \in RangesOf(scan_ranges')
    <3>1. Entry(Flight[p]) \in RangesOf(scan_ranges)
      BY <1>0 DEF TasksIgnored
    <3>2. Entry(Flight[p]).priority = "Ignored"
      BY DEF Entry
    <3>3. Entry(Flight[p]) # r
      BY <2>2, <3>2
    <3>4. Flight'[p] = Flight[p]
      BY <2>1
    <3> QED BY <2>2, <3>1, <3>3, <3>4
  <2>4. Entry(Flight'[h]) \in RangesOf(scan_ranges')
    BY <2>1, <2>2
  <2> QED BY <2>1, <2>3, <2>4 DEF TasksIgnored
<1>3. CASE ReceiveScanResults
  <2> DEFINE h == <<"results", 0, 1>>
             t == Head(scan_results)
  <2>1. h \in Places /\ Flight[h] = t
    BY <1>0, <1>3, MoveResults
  <2>2. PICK f : Carried(f) /\ \A p \in Places' : f[p] # h
    BY <1>0, <1>3, MoveResults
  <2>3. RangesOf(scan_ranges') =
          (RangesOf(scan_ranges) \ {Entry(t)}) \union {Done(t)}
    BY <1>0, <1>3, MarkRanges
  <2> HIDE DEF h, t
  <2> SUFFICES ASSUME NEW p \in Places'
               PROVE  Entry(Flight'[p]) \in RangesOf(scan_ranges')
    BY DEF TasksIgnored
  <2>4. f[p] \in Places /\ f[p] # h /\ Flight'[p] = Flight[f[p]]
    BY <2>2 DEF Carried
  <2>5. Entry(Flight[f[p]]) \in RangesOf(scan_ranges)
    BY <1>0, <2>4 DEF TasksIgnored
  <2>6. Flight[f[p]].start # t.start
    BY <1>0, <2>1, <2>4 DEF TasksApart
  <2>7. Entry(Flight[f[p]]) # Entry(t)
    <3>1. Entry(Flight[f[p]]).start = Flight[f[p]].start /\ Entry(t).start = t.start
      BY DEF Entry
    <3> QED BY <2>6, <3>1
  <2> QED BY <2>3, <2>4, <2>5, <2>7
<1>4. CASE UpdateScanRanges
  <2>1. RangesOf(scan_ranges) \subseteq RangesOf(scan_ranges')
    BY <1>0, <1>4, UpdateRanges
  <2> QED BY <1>0, <1>1, <1>4, <2>1, DroppedCarried
<1>5. ASSUME NEW w \in Workers, Die(w) PROVE TasksIgnored'
  <2>1. scan_ranges' = scan_ranges
    BY <1>5 DEF Die, wallet
  <2> QED BY <1>0, <1>1, <1>5, <2>1, DroppedCarried
<1>6. CASE scan_ranges' = scan_ranges /\ \E f : Carried(f)
  BY <1>1, <1>6
<1> QED BY <1>0, <1>2, <1>3, <1>4, <1>5, <1>6, MoveCases

\* The three operations on the list, for the conjuncts about ranges only.
LEMMA SmallStep == TaskInv /\ [Next]_vars => BatchesSmall'
<1> SUFFICES ASSUME TaskInv, [Next]_vars PROVE BatchesSmall'
  OBVIOUS
<1>0. EngineInv /\ TypeOK /\ TasksIgnored /\ BatchesSmall
  BY DEF TaskInv, EngineInv
<1>1. CASE scan_ranges' = scan_ranges
  BY <1>0, <1>1 DEF BatchesSmall
<1>2. CASE UpdateScanRanges
  <2>1. ChainTipScanRange.priority = "Historic"
    BY DEF ChainTipScanRange
  <2> QED BY <1>0, <1>2, <2>1, UpdateRanges DEF BatchesSmall
<1>3. CASE PrepareNextScanRange
  <2>1. PICK r \in RangesOf(scan_ranges) :
          /\ r.priority = "Historic"
          /\ RangesOf(scan_ranges') =
               (RangesOf(scan_ranges) \ {r}) \union {Batch(r)}
                 \union (IF Splits(r) THEN {Rest(r)} ELSE {})
    BY <1>0, <1>3, PrepareRanges
  <2>2. r.start \in Nat /\ r.end \in Nat /\ r.start < r.end
    BY <1>0, ListFacts, RangesApart
  <2>3. Batch(r).end - Batch(r).start <= BatchSize
    BY <2>2, EngineAssumption DEF Batch, BatchEnd, Splits
  <2>4. Rest(r).priority = "Historic"
    BY <2>1 DEF Rest
  <2> QED BY <1>0, <2>1, <2>3, <2>4 DEF BatchesSmall
<1>4. CASE ReceiveScanResults
  <2> DEFINE t == Head(scan_results)
  <2>1. RangesOf(scan_ranges') =
          (RangesOf(scan_ranges) \ {Entry(t)}) \union {Done(t)}
    BY <1>0, <1>4, MarkRanges
  <2>2. Done(t).priority = "Scanned"
    BY DEF Done
  <2> HIDE DEF t
  <2> QED BY <1>0, <2>1, <2>2 DEF BatchesSmall
<1> QED BY <1>1, <1>2, <1>3, <1>4, RangesSteps

\* The heights of the Scanned ranges of a set.
ScannedHeights(R) == UNION {Heights(r) : r \in {x \in R : x.priority = "Scanned"}}

\* TreesMatchRanges speaks of the set of ranges.
LEMMA TreesAre ==
  TreesMatchRanges <=> shard_trees = ScannedHeights(RangesOf(scan_ranges))
<1>1. ScannedHeights(RangesOf(scan_ranges)) =
        UNION {Heights(scan_ranges[k]) :
                 k \in {j \in 1..Len(scan_ranges) :
                          scan_ranges[j].priority = "Scanned"}}
  BY DEF ScannedHeights, RangesOf
<1> QED BY <1>1 DEF TreesMatchRanges

\* A result adds its heights to the trees and makes its range Scanned in one
\* step; no other operation touches either.
LEMMA TreesStep == TaskInv /\ [Next]_vars => TreesMatchRanges'
<1> SUFFICES ASSUME TaskInv, [Next]_vars PROVE TreesMatchRanges'
  OBVIOUS
<1>0. EngineInv /\ TypeOK /\ TasksIgnored
      /\ shard_trees = ScannedHeights(RangesOf(scan_ranges))
  BY TreesAre DEF TaskInv, EngineInv
<1>n. TreesMatchRanges' <=> shard_trees' = ScannedHeights(RangesOf(scan_ranges'))
  <2>1. ScannedHeights(RangesOf(scan_ranges')) =
          UNION {Heights(scan_ranges'[k]) :
                   k \in {j \in 1..Len(scan_ranges') :
                            scan_ranges'[j].priority = "Scanned"}}
    BY DEF ScannedHeights, RangesOf
  <2> QED BY <2>1 DEF TreesMatchRanges
<1>1. CASE UNCHANGED <<scan_ranges, shard_trees>>
  BY <1>0, <1>1, <1>n
<1>2. CASE UpdateScanRanges
  <2>1. ChainTipScanRange.priority = "Historic" /\ shard_trees' = shard_trees
    BY <1>2 DEF ChainTipScanRange, UpdateScanRanges
  <2>2. ScannedHeights(RangesOf(scan_ranges')) = ScannedHeights(RangesOf(scan_ranges))
    BY <1>0, <1>2, <2>1, UpdateRanges DEF ScannedHeights
  <2> QED BY <1>0, <1>n, <2>1, <2>2
<1>3. CASE PrepareNextScanRange
  <2>1. PICK r \in RangesOf(scan_ranges) :
          /\ r.priority = "Historic"
          /\ RangesOf(scan_ranges') =
               (RangesOf(scan_ranges) \ {r}) \union {Batch(r)}
                 \union (IF Splits(r) THEN {Rest(r)} ELSE {})
    BY <1>0, <1>3, PrepareRanges
  <2>2. /\ Rest(r).priority = "Historic" /\ Batch(r).priority = "Ignored"
        /\ shard_trees' = shard_trees
    BY <1>3, <2>1 DEF Rest, Batch, PrepareNextScanRange
  <2>3. {x \in RangesOf(scan_ranges') : x.priority = "Scanned"} =
          {x \in RangesOf(scan_ranges) : x.priority = "Scanned"}
    BY <2>1, <2>2
  <2> QED BY <1>0, <1>n, <2>2, <2>3 DEF ScannedHeights
<1>4. CASE ReceiveScanResults
  <2> DEFINE t == Head(scan_results)
             S == {x \in RangesOf(scan_ranges) : x.priority = "Scanned"}
  <2>1. /\ RangesOf(scan_ranges') =
             (RangesOf(scan_ranges) \ {Entry(t)}) \union {Done(t)}
        /\ shard_trees' = shard_trees \union Heights(t)
    BY <1>0, <1>4, MarkRanges
  <2> HIDE DEF t
  <2>2. /\ Done(t).priority = "Scanned" /\ Entry(t).priority = "Ignored"
        /\ Heights(Done(t)) = Heights(t)
    BY DEF Done, Entry, Heights
  <2>3. {x \in RangesOf(scan_ranges') : x.priority = "Scanned"} = S \union {Done(t)}
    BY <2>1, <2>2
  <2>4. ScannedHeights(RangesOf(scan_ranges')) =
          ScannedHeights(RangesOf(scan_ranges)) \union Heights(t)
    <3> HIDE DEF S
    <3>1. UNION {Heights(r) : r \in S \union {Done(t)}} =
            (UNION {Heights(r) : r \in S}) \union Heights(Done(t))
      OBVIOUS
    <3> QED BY <2>2, <2>3, <3>1 DEF ScannedHeights, S
  <2> QED BY <1>0, <1>n, <2>1, <2>4
<1>5. UNCHANGED <<scan_ranges, shard_trees>> \/ UpdateScanRanges
      \/ PrepareNextScanRange \/ ReceiveScanResults
  BY DEF Next, vars, wallet, MainStep, ServerGrows, StartSync, ChainHeightFails,
     WalletAhead, NextWorker, NoWorkerIdle, NothingToScan, AddScanTask,
     NoIdleWorkers, NoScanResults, ResultsClosed, JoinFetcher, WorkerStep,
     ReceiveScanTask, RequestBlocks, RequestFrontiers, SendScanResults,
     ClearScanning, AnswerLost, ScanPanics, Die, WorkerEnds, FetcherStep,
     FetchFromServer, FetchFails, FetcherEnds, Finished
<1> QED BY <1>1, <1>2, <1>3, <1>4, <1>5

\* Nothing is in flight at first.
LEMMA InitTasks == Init => TaskInv
<1> SUFFICES ASSUME Init PROVE TaskInv
  OBVIOUS
<1>1. Places = {}
  <2>1. PlaceShape
    BY PlacesAre
  <2>2. /\ DOMAIN hand = {} /\ DOMAIN scan_results = {}
        /\ \A w \in Workers : DOMAIN scan_tasks[w] = {} /\ DOMAIN current[w] = {}
    BY DEF Init
  <2> QED BY <2>1, <2>2 DEF PlaceShape
<1>2. RangesOf(scan_ranges) = {}
  BY DEF Init, RangesOf
<1>3. shard_trees = ScannedHeights(RangesOf(scan_ranges))
  BY <1>2 DEF Init, ScannedHeights
<1>4. OneTask
  <2>1. Len(<< >>) = 0
    OBVIOUS
  <2> QED BY <2>1 DEF Init, OneTask
<1> QED BY <1>1, <1>2, <1>3, <1>4, InitInv, TreesAre
        DEF TaskInv, TasksApart, TasksIgnored, BatchesSmall

\* The invariant is inductive.
LEMMA TaskInvStep == TaskInv /\ [Next]_vars => TaskInv'
<1> SUFFICES ASSUME TaskInv, [Next]_vars PROVE TaskInv'
  OBVIOUS
<1>1. EngineInv'
  BY InvStep DEF TaskInv
<1>2. OneTask'
  BY OneTaskStep DEF TaskInv, EngineInv
<1> QED BY <1>1, <1>2, ApartStep, IgnoredStep, SmallStep, TreesStep DEF TaskInv

\* Two ranges of the list that differ share no height.
LEMMA HeightsApart ==
  ASSUME NEW s \in Seq(ScanRanges), PartitionOf(s),
         NEW a \in RangesOf(s), NEW b \in RangesOf(s), a # b
  PROVE  Heights(a) \intersect Heights(b) = {}
<1>1. /\ a.start \in Nat /\ a.end \in Nat /\ b.start \in Nat /\ b.end \in Nat
      /\ a.end <= b.start \/ b.end <= a.start
  BY RangesApart
<1> QED BY <1>1 DEF Heights

\* A task has the heights of its entry.
LEMMA EntryHeights ==
  ASSUME NEW t
  PROVE  /\ Heights(Entry(t)) = Heights(t)
         /\ Entry(t).start = t.start /\ Entry(t).end = t.end
         /\ Entry(t).priority = "Ignored"
BY DEF Entry, Heights

\* The invariant says what EachBatchOnce says.
LEMMA TasksOnce == TaskInv => EachBatchOnce
<1> SUFFICES ASSUME TaskInv PROVE EachBatchOnce
  OBVIOUS
<1>0. /\ EngineInv /\ TasksApart /\ TasksIgnored
      /\ shard_trees = ScannedHeights(RangesOf(scan_ranges))
  BY TreesAre DEF TaskInv
<1>l. scan_ranges \in Seq(ScanRanges) /\ PartitionOf(scan_ranges)
  BY <1>0, ListFacts
<1>f. \A p \in Places : TaskAt(p) = Flight[p]
  BY DEF Flight
<1>1. ASSUME NEW p \in Places, NEW q \in Places, p # q
      PROVE  Heights(TaskAt(p)) \intersect Heights(TaskAt(q)) = {}
  <2>1. /\ Entry(Flight[p]) \in RangesOf(scan_ranges)
        /\ Entry(Flight[q]) \in RangesOf(scan_ranges)
    BY <1>0 DEF TasksIgnored
  <2>2. Flight[p].start # Flight[q].start
    BY <1>0, <1>1 DEF TasksApart
  <2>3. Entry(Flight[p]) # Entry(Flight[q])
    BY <2>2, EntryHeights
  <2>4. Heights(Entry(Flight[p])) \intersect Heights(Entry(Flight[q])) = {}
    BY <1>l, <2>1, <2>3, HeightsApart
  <2> QED BY <1>f, <2>4, EntryHeights
<1>2. ASSUME NEW p \in Places
      PROVE  /\ \E k \in 1..Len(scan_ranges) :
                  /\ SameBlocks(scan_ranges[k], TaskAt(p))
                  /\ scan_ranges[k].priority = "Ignored"
             /\ Heights(TaskAt(p)) \intersect shard_trees = {}
  <2> DEFINE t == Flight[p]
  <2>0. TaskAt(p) = t
    BY <1>f
  <2>1. Entry(t) \in RangesOf(scan_ranges)
    BY <1>0 DEF TasksIgnored
  <2> HIDE DEF t
  <2>2. PICK k \in 1..Len(scan_ranges) : Entry(t) = scan_ranges[k]
    BY <2>1 DEF RangesOf
  <2>3. SameBlocks(scan_ranges[k], t) /\ scan_ranges[k].priority = "Ignored"
    BY <2>2, EntryHeights DEF SameBlocks
  <2>4. ASSUME NEW h \in Heights(t), h \in shard_trees PROVE FALSE
    <3>1. PICK r \in RangesOf(scan_ranges) : r.priority = "Scanned" /\ h \in Heights(r)
      BY <1>0, <2>4 DEF ScannedHeights
    <3>2. r # Entry(t)
      BY <3>1, EntryHeights
    <3>3. Heights(r) \intersect Heights(Entry(t)) = {}
      BY <1>l, <2>1, <3>2, HeightsApart
    <3> QED BY <2>4, <3>1, <3>3, EntryHeights
  <2> QED BY <2>0, <2>2, <2>3, <2>4
<1> QED BY <1>1, <1>2 DEF EachBatchOnce

\* The invariant about the tasks holds in every reachable state.
THEOREM TaskInvariant == Spec => []TaskInv
  BY InitTasks, TaskInvStep, PTL DEF Spec

\* No height is scanned twice: whatever order the workers pick up, finish or
\* fail in, no two tasks in flight share a height, each has its Ignored entry
\* in the list, and none of its heights is in the shard trees yet.
THEOREM BatchesScannedOnce == Spec => []EachBatchOnce
  BY TaskInvariant, TasksOnce, PTL

\* The shard trees hold the note commitments of the Scanned ranges, all of
\* them and no others.
THEOREM TreesFollowRanges == Spec => []TreesMatchRanges
<1>1. TaskInv => TreesMatchRanges
  BY DEF TaskInv
<1> QED BY <1>1, TaskInvariant, PTL
-----------------------------------------------------------------------------
(* The engine implements HeightScan *)

\* Every range lies between the first start and the last end.
LEMMA RangesWithin ==
  ASSUME NEW s \in Seq(ScanRanges), PartitionOf(s), NEW r \in RangesOf(s)
  PROVE  /\ s # << >>
         /\ Max2(Birthday, SaplingActivation) <= r.start
         /\ r.end <= s[Len(s)].end
<1>1. PICK i \in 1..Len(s) : r = s[i]
  BY DEF RangesOf
<1>2. Len(s) \in Nat /\ 1 \in 1..Len(s) /\ Len(s) \in 1..Len(s)
  BY LenProperties
<1>3. s # << >>
  BY <1>2, EmptySeq
<1>4. \A j \in 1..Len(s) :
        s[j].start \in Nat /\ s[j].end \in Nat /\ s[j].start < s[j].end
  BY PartitionApart
<1>5. s[1].start = Max2(Birthday, SaplingActivation)
  BY <1>3 DEF PartitionOf
<1>6. s[1].start <= s[i].start
  <2>1. CASE i = 1
    BY <1>4, <2>1
  <2>2. CASE i # 1
    <3>1. 1 < i
      BY <1>2, <2>2
    <3>2. s[1].end <= s[i].start
      BY <1>2, <3>1, PartitionOrder
    <3> QED BY <1>2, <1>4, <3>2
  <2> QED BY <2>1, <2>2
<1>7. s[i].end <= s[Len(s)].end
  <2>1. CASE i = Len(s)
    BY <1>4, <2>1
  <2>2. CASE i # Len(s)
    <3>1. i < Len(s)
      BY <1>2, <2>2
    <3>2. s[i].end <= s[Len(s)].start
      BY <1>2, <3>1, PartitionOrder
    <3> QED BY <1>2, <1>4, <3>2
  <2> QED BY <2>1, <2>2
<1> QED BY <1>1, <1>3, <1>5, <1>6, <1>7

\* The wallet height changes only when update_scan_ranges adds a range.
LEMMA HeightKept ==
  ASSUME EngineInv, EngineInv', [Next]_vars, ~ UpdateScanRanges
  PROVE  WalletHeight' = WalletHeight
<1>0. TypeOK /\ scan_ranges \in Seq(ScanRanges) /\ scan_ranges' \in Seq(ScanRanges)
  BY DEF EngineInv, TypeOK
<1> DEFINE s == scan_ranges
           u == scan_ranges'
<1>1. CASE u = s
  BY <1>1 DEF WalletHeight
<1>2. CASE PrepareNextScanRange
  <2> DEFINE k == Selected
             r == s[k]
  <2>1. k \in 1..Len(s)
    BY <1>0, <1>2, SelectedIndex DEF PrepareNextScanRange
  <2>2. u = Splice(s, k, Prepared(r))
    BY <1>2 DEF PrepareNextScanRange
  <2> HIDE DEF k
  <2>3. /\ Len(u) = IF Splits(r) THEN Len(s) + 1 ELSE Len(s)
        /\ \A i \in 1..(k - 1) : u[i] = s[i]
        /\ u[k] = Batch(r)
        /\ Splits(r) => /\ u[k + 1] = Rest(r)
                        /\ \A i \in (k + 2)..(Len(s) + 1) : u[i] = s[i - 1]
        /\ ~ Splits(r) => \A i \in (k + 1)..Len(s) : u[i] = s[i]
    BY <1>0, <2>1, <2>2, PreparedRanges
  <2>4. Len(s) \in Nat /\ s # << >> /\ u # << >>
    <3>1. Len(s) \in Nat
      BY <1>0, LenProperties
    <3>2. Len(s) # 0 /\ Len(u) # 0
      BY <2>1, <2>3, <3>1
    <3> QED BY <3>1, <3>2, EmptySeq
  <2>5. u[Len(u)].end = s[Len(s)].end
    <3> DEFINE b == Splits(r)
    <3>0. /\ b => Rest(r).end = r.end
          /\ ~ b => Batch(r).end = r.end
      BY DEF Rest, Batch, BatchEnd
    <3> HIDE DEF r, b
    <3>1. CASE b /\ k = Len(s)
      BY <2>3, <2>4, <3>0, <3>1 DEF r, b
    <3>2. CASE b /\ k # Len(s)
      <4>1. Len(u) = Len(s) + 1 /\ Len(s) + 1 \in (k + 2)..(Len(s) + 1)
            /\ (Len(s) + 1) - 1 = Len(s)
        BY <2>1, <2>3, <2>4, <3>2 DEF b
      <4>2. u[Len(s) + 1] = s[Len(s)]
        BY <2>3, <3>2, <4>1 DEF b
      <4> QED BY <4>1, <4>2
    <3>3. CASE ~ b /\ k = Len(s)
      BY <2>3, <3>0, <3>3 DEF r, b
    <3>4. CASE ~ b /\ k # Len(s)
      <4>1. Len(u) = Len(s) /\ Len(s) \in (k + 1)..Len(s)
        BY <2>1, <2>3, <2>4, <3>4 DEF b
      <4> QED BY <2>3, <3>4, <4>1 DEF b
    <3> QED BY <3>1, <3>2, <3>3, <3>4
  <2> QED BY <2>4, <2>5 DEF WalletHeight
<1>3. CASE ReceiveScanResults
  <2>1. /\ Len(u) = Len(s)
        /\ \A i \in 1..Len(s) : u[i].end = s[i].end
    BY <1>0, <1>3, ResultsRanges
  <2>2. CASE s = << >>
    <3>1. u = << >>
      BY <1>0, <2>1, <2>2, EmptySeq
    <3> QED BY <2>2, <3>1 DEF WalletHeight
  <2>3. CASE s # << >>
    <3>1. Len(s) \in 1..Len(s) /\ u # << >>
      BY <1>0, <2>1, <2>3, EmptySeq
    <3> QED BY <2>1, <2>3, <3>1 DEF WalletHeight
  <2> QED BY <2>2, <2>3
<1> QED BY <1>0, <1>1, <1>2, <1>3, RangesSteps

\* update_scan_ranges extends what is known up to the server's height.
LEMMA UpdateExtends ==
  ASSUME EngineInv, UpdateScanRanges
  PROVE  Scan!Extend
<1>0. TypeOK /\ scan_ranges \in Seq(ScanRanges) /\ chain_height \in Nat
  BY DEF EngineInv, TypeOK
<1> DEFINE r == ChainTipScanRange
           u == Append(scan_ranges, r)
<1>1. r \in ScanRanges /\ r.end = chain_height + 1
  BY <1>0, ChainTipType DEF ChainTipScanRange
<1>2. scan_ranges' = u /\ shard_trees' = shard_trees
  BY DEF UpdateScanRanges
<1> HIDE DEF r
<1>3. u # << >> /\ u[Len(u)] = r
  BY <1>0, <1>1
<1>4. WalletHeight' = chain_height + 1
  BY <1>1, <1>2, <1>3 DEF WalletHeight
<1>5. WalletHeight <= chain_height /\ WalletHeight \in Nat
  BY <1>0, WalletHeightType DEF UpdateScanRanges
<1> QED BY <1>0, <1>2, <1>4, <1>5 DEF Scan!Extend

\* A result scans a batch of heights that are known and were not scanned.
LEMMA ResultsScan ==
  ASSUME TaskInv, TaskInv', ReceiveScanResults, [Next]_vars
  PROVE  Scan!Scan
<1>0. EngineInv /\ EngineInv' /\ TypeOK /\ TasksIgnored /\ BatchesSmall /\ EachBatchOnce
  BY TasksOnce DEF TaskInv, EngineInv
<1> DEFINE t == Head(scan_results)
           e == Entry(t)
           lo == t.start
           hi == t.end - 1
<1>1. /\ t \in ScanTasks
      /\ e \in RangesOf(scan_ranges)
      /\ shard_trees' = shard_trees \union Heights(t)
  BY <1>0, MarkRanges
<1>2. Heights(t) \intersect shard_trees = {}
  <2>1. /\ <<"results", 0, 1>> \in Places
        /\ Flight[<<"results", 0, 1>>] = t
    BY <1>0, MoveResults
  <2>2. TaskAt(<<"results", 0, 1>>) = t
    BY <2>1 DEF Flight
  <2> QED BY <1>0, <2>1, <2>2 DEF EachBatchOnce
<1> HIDE DEF t
<1>3. /\ e.start = lo /\ e.end = t.end /\ e.priority = "Ignored"
  BY EntryHeights
<1>4. /\ Max2(Birthday, SaplingActivation) <= lo
      /\ t.end <= WalletHeight
  BY <1>0, <1>1, <1>3, ListFacts, RangesWithin DEF WalletHeight
<1>5. lo \in Nat /\ t.end \in Nat /\ lo < t.end
  BY <1>0, <1>1, <1>3, ListFacts, RangesApart
<1>6. t.end - lo <= BatchSize
  BY <1>0, <1>1, <1>3 DEF BatchesSmall
<1>7. WalletHeight \in Nat /\ Max2(Birthday, SaplingActivation) \in Nat
      /\ BatchSize \in Nat
  BY <1>0, WalletHeightType, EngineAssumption DEF Max2
<1>8. WalletHeight' = WalletHeight
  <2>1. ~ UpdateScanRanges
    BY DEF UpdateScanRanges, ReceiveScanResults
  <2> QED BY <1>0, <2>1, HeightKept
<1>9. /\ lo \in Max2(Birthday, SaplingActivation)..(WalletHeight - 1)
      /\ hi \in lo..(WalletHeight - 1)
      /\ hi - lo < BatchSize
  BY <1>4, <1>5, <1>6, <1>7
<1>10. lo..hi = Heights(t)
  BY DEF Heights
<1> HIDE DEF lo, hi
<1> QED BY <1>1, <1>2, <1>8, <1>9, <1>10 DEF Scan!Scan

\* Every step of the engine is a step of HeightScan or changes nothing there.
LEMMA ScanStep ==
  TaskInv /\ TaskInv' /\ [Next]_vars => [Scan!Next]_(Scan!vars)
<1> SUFFICES ASSUME TaskInv, TaskInv', [Next]_vars
             PROVE  [Scan!Next]_(Scan!vars)
  OBVIOUS
<1>0. EngineInv /\ EngineInv'
  BY DEF TaskInv
<1>1. CASE UpdateScanRanges
  BY <1>0, <1>1, UpdateExtends DEF Scan!Next
<1>2. CASE ReceiveScanResults
  BY <1>2, ResultsScan DEF Scan!Next
<1>3. CASE ~ UpdateScanRanges /\ ~ ReceiveScanResults
  <2>1. WalletHeight' = WalletHeight
    BY <1>0, <1>3, HeightKept
  <2>2. shard_trees' = shard_trees
    BY <1>3 DEF Next, vars, wallet, MainStep, ServerGrows, StartSync,
       ChainHeightFails, WalletAhead, NextWorker, NoWorkerIdle, NothingToScan,
       AddScanTask, NoIdleWorkers, NoScanResults, ResultsClosed, JoinFetcher,
       WorkerStep, ReceiveScanTask, RequestBlocks, RequestFrontiers,
       SendScanResults, ClearScanning, AnswerLost, ScanPanics, Die, WorkerEnds,
       FetcherStep, FetchFromServer, FetchFails, FetcherEnds, Finished,
       PrepareNextScanRange
  <2> QED BY <2>1, <2>2 DEF Scan!vars
<1> QED BY <1>1, <1>2, <1>3

\* The engine implements HeightScan: for any number of workers and whatever
\* fails, every height is scanned at most once, in batches of at most
\* BATCH_SIZE, between the first sync's start and the height reported.
THEOREM EngineImplementsHeightScan == Spec => ImplementsHeightScan
<1>1. Init => Scan!Init
  <2> SUFFICES ASSUME Init PROVE Scan!Init
    OBVIOUS
  <2>1. scan_ranges = << >> /\ shard_trees = {}
    BY DEF Init
  <2>2. WalletHeight = Max2(Birthday, SaplingActivation)
    BY <2>1 DEF WalletHeight
  <2> QED BY <2>1, <2>2 DEF Scan!Init
<1> QED BY <1>1, ScanStep, TaskInvariant, PTL
        DEF Spec, ImplementsHeightScan, Scan!Spec
-----------------------------------------------------------------------------
(* A sync that returns Ok has scanned everything *)

\* As long as no request fails no task is dropped: every Ignored range has
\* its task in flight, and an Ok leaves no range that is not Scanned.
NoFailure == fetcher # "panicked" /\ \A w \in Workers : worker[w] # "dead"

\* A worker ends with an empty queue, after the last task was handed out.
EndedIdle ==
  \A w \in Workers :
    worker[w] = "ended" => /\ scan_tasks[w] = << >>
                           /\ pc \notin {"check", "assign", "poll"}

\* Every batch that is not yet applied is in flight.
IgnoredInFlight ==
  \A r \in RangesOf(scan_ranges) :
    r.priority = "Ignored" => \E p \in Places : Flight[p].start = r.start

\* The loop has handed out every range when it ends.
AllHandedOut ==
  pc \in {"drain", "join"} =>
    \A r \in RangesOf(scan_ranges) : r.priority # "Historic"

\* Where Ok comes from.
OkComplete ==
  outcome = "Ok" =>
    pc = "idle" /\ \A r \in RangesOf(scan_ranges) : r.priority = "Scanned"

\* The inductive invariant of a sync whose server answers.
CompleteInv ==
  /\ TaskInv
  /\ NoFailure
  /\ EndedIdle
  /\ IgnoredInFlight
  /\ AllHandedOut
  /\ OkComplete

\* Only a failing request makes a worker or the fetcher panic.
LEMMA NoFailureStep ==
  ASSUME ~ ServerMayFail, EngineInv, NoFailure, [Next]_vars
  PROVE  NoFailure'
<1>0. DOMAIN worker = Workers /\ TypeOK /\ Shape
  BY DEF EngineInv, TypeOK
<1>1. CASE OtherStep
  <2>1. worker' = worker
    BY <1>1, OtherSteps
  <2>2. fetcher' # "panicked"
    BY <1>1 DEF NoFailure, OtherStep, ServerGrows, StartSync,
       ChainHeightFails, WalletAhead, NextWorker, NoWorkerIdle,
       PrepareNextScanRange, NothingToScan, AddScanTask, NoIdleWorkers,
       ReceiveScanResults, NoScanResults, ResultsClosed, JoinFetcher,
       Finished, vars
  <2> QED BY <2>1, <2>2 DEF NoFailure
<1>2. CASE UpdateScanRanges
  BY <1>2 DEF UpdateScanRanges, NoFailure
<1>3. ASSUME NEW w \in Workers, WorkerStep(w) \/ ScanPanics(w)
      PROVE  NoFailure'
  BY <1>0, <1>3 DEF NoFailure, WorkerStep, ReceiveScanTask, RequestBlocks,
     RequestFrontiers, SendScanResults, ClearScanning, AnswerLost, ScanPanics,
     WorkerEnds
<1>4. CASE FetchFromServer \/ FetchFails \/ FetcherEnds
  BY <1>0, <1>4 DEF NoFailure, FetchFromServer, FetchFails, FetcherEnds, pool
<1> QED BY <1>1, <1>2, <1>3, <1>4, StepCases

\* A queue is filled only while the main task assigns, when no worker ended.
LEMMA EndedStep ==
  ASSUME EngineInv, EndedIdle, [Next]_vars
  PROVE  EndedIdle'
<1>0. /\ DOMAIN worker = Workers /\ TypeOK /\ Shape
      /\ scan_tasks \in [Workers -> Seq(ScanTasks)]
  BY DEF EngineInv, TypeOK
<1>1. CASE OtherStep
  <2>1. worker' = worker
    BY <1>1, OtherSteps
  <2>2. CASE AddScanTask
    BY <2>1, <2>2 DEF EndedIdle, AddScanTask
  <2>3. CASE ~ AddScanTask
    <3>1. /\ scan_tasks' = scan_tasks
          /\ pc' \in {"check", "assign", "poll"} => pc \in {"check", "assign", "poll"}
      BY <1>1, <2>3 DEF OtherStep, ServerGrows, StartSync,
         ChainHeightFails, Panic, WalletAhead, NextWorker, NoWorkerIdle,
         PrepareNextScanRange, NothingToScan, NoIdleWorkers,
         ReceiveScanResults, ApplyScanResults, NoScanResults, ResultsClosed,
         JoinFetcher, Finished, vars, main, pool
    <3> QED BY <2>1, <3>1 DEF EndedIdle
  <2> QED BY <2>2, <2>3
<1>2. CASE UpdateScanRanges
  BY <1>2 DEF UpdateScanRanges, EndedIdle
<1>3. ASSUME NEW w \in Workers, WorkerStep(w) \/ ScanPanics(w)
      PROVE  EndedIdle'
  <2>1. pc' = pc /\ \A v \in Workers :
          v # w => worker'[v] = worker[v] /\ scan_tasks'[v] = scan_tasks[v]
    BY <1>0, <1>3 DEF WorkerStep, ReceiveScanTask, RequestBlocks,
       RequestFrontiers, SendScanResults, ClearScanning, AnswerLost,
       ScanPanics, Die, WorkerEnds, main
  <2>2. worker'[w] = "ended" =>
          scan_tasks'[w] = << >> /\ pc \notin {"check", "assign", "poll"}
    BY <1>0, <1>3 DEF WorkerStep, ReceiveScanTask, RequestBlocks,
       RequestFrontiers, SendScanResults, ClearScanning, AnswerLost,
       ScanPanics, Die, WorkerEnds, main
  <2> QED BY <2>1, <2>2 DEF EndedIdle
<1>4. CASE FetchFromServer
  <2>1. pc' = pc /\ scan_tasks' = scan_tasks
    BY <1>4 DEF FetchFromServer, main
  <2>2. \A v \in Workers : worker'[v] = "ended" => worker[v] = "ended"
    BY <1>0, <1>4 DEF FetchFromServer
  <2> QED BY <2>1, <2>2 DEF EndedIdle
<1>5. CASE FetchFails \/ FetcherEnds
  BY <1>5 DEF FetchFails, FetcherEnds, main, pool, EndedIdle
<1> QED BY <1>1, <1>2, <1>3, <1>4, <1>5, StepCases

\* Nothing is in flight while no sync is scanning.
LEMMA QuietPlaces ==
  ASSUME EngineInv, NoFailure, EndedIdle, pc \in {"height", "join"}
  PROVE  Places = {}
<1>s. PlaceShape
  BY PlacesAre
<1>1. hand = << >> /\ scan_results = << >>
  BY DEF EngineInv, Shape, HandShape, QuietShape
<1>2. \A w \in Workers : worker[w] = "ended"
  BY DEF EngineInv, Shape, QuietShape, Stopped, NoFailure
<1>3. \A w \in Workers : scan_tasks[w] = << >> /\ current[w] = << >>
  BY <1>2 DEF EngineInv, Shape, CurrentShape, EndedIdle
<1>4. DOMAIN << >> = {}
  OBVIOUS
<1> QED BY <1>1, <1>3, <1>4, <1>s DEF PlaceShape

\* A batch is in flight from the step that hands it out to the step that
\* applies its result.
LEMMA InFlightStep ==
  ASSUME ~ ServerMayFail, TaskInv, NoFailure, EndedIdle, IgnoredInFlight,
         [Next]_vars
  PROVE  IgnoredInFlight'
<1>0. EngineInv /\ TypeOK /\ Shape /\ OneTask /\ TasksIgnored
  BY DEF TaskInv, EngineInv
<1>1. CASE PrepareNextScanRange
  <2> DEFINE h == <<"hand", 0, 1>>
  <2>1. /\ Places' = Places \union {h}
        /\ Flight'[h] = hand'[1]
        /\ \A p \in Places : Flight'[p] = Flight[p]
    BY <1>0, <1>1, MovePrepared
  <2> HIDE DEF h
  <2>2. PICK r \in RangesOf(scan_ranges) :
          /\ r.priority = "Historic"
          /\ RangesOf(scan_ranges') =
               (RangesOf(scan_ranges) \ {r}) \union {Batch(r)}
                 \union (IF Splits(r) THEN {Rest(r)} ELSE {})
          /\ hand'[1].start = r.start
    BY <1>0, <1>1, PrepareRanges
  <2>3. Rest(r).priority = "Historic" /\ Batch(r).start = r.start
    BY <2>2 DEF Rest, Batch
  <2> SUFFICES ASSUME NEW x \in RangesOf(scan_ranges'), x.priority = "Ignored"
               PROVE  \E p \in Places' : Flight'[p].start = x.start
    BY DEF IgnoredInFlight
  <2>4. CASE x \in RangesOf(scan_ranges)
    BY <2>1, <2>4 DEF IgnoredInFlight
  <2>5. CASE x = Batch(r)
    BY <2>1, <2>2, <2>3, <2>5
  <2> QED BY <2>2, <2>3, <2>4, <2>5
<1>2. CASE ReceiveScanResults
  <2> DEFINE h == <<"results", 0, 1>>
             t == Head(scan_results)
  <2>1. h \in Places /\ Flight[h] = t
    BY <1>0, <1>2, MoveResults
  <2>2. PICK f : Carried(f) /\ Kept(f, {h})
    BY <1>0, <1>2, MoveResults
  <2>3. /\ RangesOf(scan_ranges') =
             (RangesOf(scan_ranges) \ {Entry(t)}) \union {Done(t)}
        /\ Entry(t) \in RangesOf(scan_ranges)
    BY <1>0, <1>2, MarkRanges
  <2> HIDE DEF h, t
  <2> SUFFICES ASSUME NEW x \in RangesOf(scan_ranges'), x.priority = "Ignored"
               PROVE  \E p \in Places' : Flight'[p].start = x.start
    BY DEF IgnoredInFlight
  <2>4. x \in RangesOf(scan_ranges) /\ x # Entry(t)
    <3>1. Done(t).priority = "Scanned"
      BY DEF Done
    <3> QED BY <2>3, <3>1
  <2>5. x.start # t.start
    <3>1. x.start # Entry(t).start
      BY <1>0, <2>3, <2>4, ListFacts, RangesApart
    <3> QED BY <3>1, EntryHeights
  <2>6. PICK q \in Places : Flight[q].start = x.start
    BY <2>4 DEF IgnoredInFlight
  <2>7. q # h
    BY <2>1, <2>5, <2>6
  <2>8. PICK p \in Places' : f[p] = q
    BY <2>2, <2>7 DEF Kept
  <2>9. Flight'[p] = Flight[q]
    BY <2>2, <2>8 DEF Carried
  <2> QED BY <2>6, <2>9
<1>3. CASE UpdateScanRanges
  <2>1. Places = {}
    BY <1>0, <1>3, QuietPlaces DEF UpdateScanRanges
  <2>2. RangesOf(scan_ranges') = RangesOf(scan_ranges) \union {ChainTipScanRange}
    BY <1>0, <1>3, UpdateRanges
  <2>3. ChainTipScanRange.priority = "Historic"
    BY DEF ChainTipScanRange
  <2> QED BY <2>1, <2>2, <2>3 DEF IgnoredInFlight
<1>4. ASSUME NEW w \in Workers, AnswerLost(w) \/ ScanPanics(w) PROVE FALSE
  BY <1>4 DEF AnswerLost, ScanPanics, NoFailure
<1>5. ASSUME NEW f, Carried(f), Kept(f, {}), scan_ranges' = scan_ranges
      PROVE  IgnoredInFlight'
  <2> SUFFICES ASSUME NEW x \in RangesOf(scan_ranges), x.priority = "Ignored"
               PROVE  \E p \in Places' : Flight'[p].start = x.start
    BY <1>5 DEF IgnoredInFlight
  <2>1. PICK q \in Places : Flight[q].start = x.start
    BY DEF IgnoredInFlight
  <2>2. PICK p \in Places' : f[p] = q
    BY <1>5 DEF Kept
  <2>3. Flight'[p] = Flight[q]
    BY <1>5, <2>2 DEF Carried
  <2> QED BY <2>1, <2>3
<1> QED BY <1>0, <1>1, <1>2, <1>3, <1>4, <1>5, MoveCases

\* The loop ends when prepare_next_scan_range finds nothing to select.
LEMMA HandedOutStep ==
  ASSUME TaskInv, AllHandedOut, [Next]_vars
  PROVE  AllHandedOut'
<1>0. EngineInv /\ TypeOK /\ TasksIgnored
  BY DEF TaskInv, EngineInv
<1>1. CASE NothingToScan
  <2>1. scan_ranges' = scan_ranges
    BY <1>1 DEF NothingToScan, wallet
  <2>2. \A k \in 1..Len(scan_ranges) : scan_ranges[k].priority # "Historic"
    BY <1>1 DEF NothingToScan, Selectable
  <2> QED BY <2>1, <2>2 DEF AllHandedOut, RangesOf
<1>2. CASE ReceiveScanResults
  <2> DEFINE t == Head(scan_results)
  <2>1. RangesOf(scan_ranges') =
          (RangesOf(scan_ranges) \ {Entry(t)}) \union {Done(t)}
    BY <1>0, <1>2, MarkRanges
  <2>2. Done(t).priority = "Scanned"
    BY DEF Done
  <2>3. pc' \in {"drain", "join"} => pc \in {"drain", "join"}
    BY <1>2 DEF ReceiveScanResults, ApplyScanResults, Panic
  <2> HIDE DEF t
  <2> QED BY <2>1, <2>2, <2>3 DEF AllHandedOut
<1>3. CASE UpdateScanRanges \/ PrepareNextScanRange
  BY <1>3 DEF UpdateScanRanges, PrepareNextScanRange, AllHandedOut
<1>4. CASE /\ ~ NothingToScan /\ ~ ReceiveScanResults
           /\ ~ UpdateScanRanges /\ ~ PrepareNextScanRange
  <2>1. scan_ranges' = scan_ranges
    BY <1>4, RangesSteps
  <2>2. pc' \in {"drain", "join"} => pc \in {"drain", "join"}
    BY <1>4 DEF Next, vars, main, MainStep, ServerGrows, StartSync,
       ChainHeightFails, Panic, WalletAhead, NextWorker, NoWorkerIdle,
       AddScanTask, NoIdleWorkers, NoScanResults, ResultsClosed, JoinFetcher,
       WorkerStep, ReceiveScanTask, RequestBlocks, RequestFrontiers,
       SendScanResults, ClearScanning, AnswerLost, ScanPanics, Die, WorkerEnds,
       FetcherStep, FetchFromServer, FetchFails, FetcherEnds, Finished
  <2> QED BY <2>1, <2>2 DEF AllHandedOut
<1> QED BY <1>1, <1>2, <1>3, <1>4

\* Ok is returned with no task in flight and nothing left to hand out.
LEMMA OkStep ==
  ASSUME CompleteInv, [Next]_vars
  PROVE  OkComplete'
<1>0. EngineInv /\ TypeOK
  BY DEF CompleteInv, TaskInv, EngineInv
<1>1. CASE JoinFetcher
  <2>1. pc = "join" /\ scan_ranges' = scan_ranges
    BY <1>1 DEF JoinFetcher, wallet
  <2>2. Places = {}
    BY <1>0, <2>1, QuietPlaces DEF CompleteInv
  <2>3. ASSUME NEW r \in RangesOf(scan_ranges) PROVE r.priority = "Scanned"
    <3>1. r.priority # "Historic" /\ r.priority # "Ignored"
      BY <2>1, <2>2 DEF CompleteInv, AllHandedOut, IgnoredInFlight
    <3>2. r \in ScanRanges
      BY <1>0, ListFacts, RangesApart
    <3> QED BY <3>1, <3>2 DEF ScanRanges, Priorities
  <2>4. outcome' = "Ok" => pc' = "idle"
    BY <1>1 DEF JoinFetcher, Panic
  <2> QED BY <2>1, <2>3, <2>4 DEF OkComplete
<1>2. CASE ~ JoinFetcher
  <2>1. outcome' = "Ok" => outcome = "Ok"
    BY <1>2 DEF Next, vars, main, MainStep, ServerGrows, StartSync,
       ChainHeightFails, Panic, WalletAhead, UpdateScanRanges, NextWorker,
       NoWorkerIdle, PrepareNextScanRange, NothingToScan, AddScanTask,
       NoIdleWorkers, ReceiveScanResults, ApplyScanResults, NoScanResults,
       ResultsClosed, WorkerStep, ReceiveScanTask, RequestBlocks,
       RequestFrontiers, SendScanResults, ClearScanning, AnswerLost,
       ScanPanics, Die, WorkerEnds, FetcherStep, FetchFromServer, FetchFails,
       FetcherEnds, Finished
  <2>2. pc = "idle" /\ outcome' = "Ok" => pc' = "idle" /\ scan_ranges' = scan_ranges
    BY <1>2 DEF Next, vars, main, wallet, MainStep, ServerGrows, StartSync,
       ChainHeightFails, Panic, WalletAhead, UpdateScanRanges, NextWorker,
       NoWorkerIdle, PrepareNextScanRange, NothingToScan, AddScanTask,
       NoIdleWorkers, ReceiveScanResults, ApplyScanResults, NoScanResults,
       ResultsClosed, WorkerStep, ReceiveScanTask, RequestBlocks,
       RequestFrontiers, SendScanResults, ClearScanning, AnswerLost,
       ScanPanics, Die, WorkerEnds, FetcherStep, FetchFromServer, FetchFails,
       FetcherEnds, Finished
  <2> QED BY <2>1, <2>2 DEF CompleteInv, OkComplete
<1> QED BY <1>1, <1>2

\* "Syncs a wallet to the latest state of the blockchain": as long as the
\* server answers, a sync that returned Ok left no range that is not Scanned,
\* for any number of workers, batches and repeated syncs.
THEOREM OkSyncScannedAll == ~ ServerMayFail => (Spec => []OkMeansScanned)
<1> SUFFICES ASSUME ~ ServerMayFail PROVE Spec => []OkMeansScanned
  OBVIOUS
<1>1. Init => CompleteInv
  <2> SUFFICES ASSUME Init PROVE CompleteInv
    OBVIOUS
  <2>1. RangesOf(scan_ranges) = {}
    BY DEF Init, RangesOf
  <2>2. NoFailure /\ EndedIdle /\ AllHandedOut /\ OkComplete
    BY DEF Init, NoFailure, EndedIdle, AllHandedOut, OkComplete
  <2> QED BY <2>1, <2>2, InitTasks DEF CompleteInv, IgnoredInFlight
<1>2. CompleteInv /\ [Next]_vars => CompleteInv'
  <2> SUFFICES ASSUME CompleteInv, [Next]_vars PROVE CompleteInv'
    OBVIOUS
  <2>0. TaskInv /\ EngineInv /\ NoFailure /\ EndedIdle /\ IgnoredInFlight
        /\ AllHandedOut
    BY DEF CompleteInv, TaskInv
  <2>1. TaskInv'
    BY <2>0, TaskInvStep
  <2>2. NoFailure' /\ EndedIdle'
    BY <2>0, NoFailureStep, EndedStep
  <2>3. IgnoredInFlight'
    BY <2>0, InFlightStep
  <2>4. AllHandedOut' /\ OkComplete'
    BY <2>0, HandedOutStep, OkStep
  <2> QED BY <2>1, <2>2, <2>3, <2>4 DEF CompleteInv
<1>3. CompleteInv => OkMeansScanned
  BY DEF CompleteInv, OkComplete, OkMeansScanned, RangesOf
<1> QED BY <1>1, <1>2, <1>3, PTL DEF Spec
=============================================================================
