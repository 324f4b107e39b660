---------------------------- MODULE SelectionProofs ----------------------------
(***************************************************************************)
(* What select_spendable_notes returns, for every wallet and every target: *)
(* SelectionCovers is proved from an invariant of the loop.                *)
(***************************************************************************)
EXTENDS NoteSelection, SequenceFacts

Steps == {"sort", "loop", "found", "done", "error"}

\* The notes, the lists made of them, and an index that is at most one past
\* the end of the list it walks, also after the list was shortened.
Typed ==
  /\ IsFiniteSet(DOMAIN value) /\ DOMAIN value \subseteq Nat
  /\ \A n \in DOMAIN value : value[n] \in Nat
  /\ target \in Nat
  /\ unselected \in Seq(Able) /\ selected \in Seq(Able)
  /\ index \in 1 .. (Len(unselected) + 1)
  /\ step \in Steps

\* A note that pays for its input is in one of the lists and not in the other.
Parted ==
  /\ step = "sort" => selected = << >> /\ unselected = << >> /\ index = 1
  /\ step \notin {"sort", "error"} => Range(unselected) = Able \ Range(selected)

\* The list that is walked stays sorted.
Sorted == \A i, j \in 1 .. Len(unselected) : i < j => Before(unselected[i], unselected[j])

\* No note is taken twice, so that the sum over the list of the notes taken is
\* the sum over the set.
Counted ==
  /\ Cardinality(Range(selected)) = Len(selected)
  /\ Taken = Total(Range(selected))
  /\ Needed = target - Total(Range(selected))

\* What the index has passed is not enough.
Passed == Needed > 0 => \A i \in 1 .. Len(unselected) : i < index => value[unselected[i]] < Needed

\* While more is needed the notes taken are the largest, and none was taken if
\* one note is enough.
Largest ==
  Needed > 0 =>
    /\ \A n \in Range(selected), a \in Able \ Range(selected) : value[a] <= value[n]
    /\ selected # << >> => \A n \in Able : value[n] < target

\* Once enough is taken, the last note is the smallest that was enough.
Finished ==
  Needed <= 0 /\ target > 0 =>
    LET first == Range(Front(selected))
        rest == target - Total(first)
    IN /\ selected # << >>
       /\ rest > 0 /\ value[Last(selected)] >= rest
       /\ \A a \in Able \ first : value[a] >= rest => value[Last(selected)] <= value[a]
       /\ \A n \in first, a \in Able \ first : value[a] <= value[n]
       /\ \A n \in Able : value[n] >= target => first = {}

\* The loop ends for one of two reasons.
Ended == step \in {"found", "done"} => unselected = << >> \/ Needed <= 0

\* An error has a reason.
Blameless == unnamed = {} /\ unplaced = {} /\ Total(DOMAIN value) <= MaxMoney => step # "error"

LoopInv == Typed /\ Parted /\ Sorted /\ Counted /\ Passed /\ Largest /\ Finished /\ Ended /\ Blameless

-----------------------------------------------------------------------------
(* Taking a note from one list and putting it at the end of the other.       *)

\* The sum of the notes of a list, as calculate_remaining_needed is given it.
Picked(v, s) == SumFunction([i \in DOMAIN s |-> v[s[i]]])

\* t is s without its element at i.
IsWithout(t, s, i) ==
  /\ Len(t) = Len(s) - 1
  /\ \A j \in 1 .. (Len(s) - 1) : t[j] = IF j < i THEN s[j] ELSE s[j + 1]

\* A note that is pushed adds its value to the sum.
LEMMA PickedAppend ==
  ASSUME NEW A, NEW v, \A a \in A : v[a] \in Nat, NEW s \in Seq(A), NEW e \in A
  PROVE  Picked(v, Append(s, e)) = Picked(v, s) + v[e]
<1> DEFINE f == [i \in DOMAIN s |-> v[s[i]]]
           g == [i \in DOMAIN Append(s, e) |-> v[Append(s, e)[i]]]
           D == 1 .. Len(s)
           x == Len(s) + 1
<1>1. /\ Len(s) \in Nat /\ DOMAIN s = D /\ \A i \in D : s[i] \in A
  BY Elements
<1>2. DOMAIN Append(s, e) = D \cup {x} /\ Append(s, e)[x] = e
  OBVIOUS
<1>3. \A i \in D : Append(s, e)[i] = s[i]
  OBVIOUS
<1>4. DOMAIN f = D /\ DOMAIN g = D \cup {x} /\ x \notin D /\ IsFiniteSet(D)
  BY <1>1, <1>2, FS_Interval
<1>5. \A i \in D : f[i] \in Int /\ f[i] = g[i] /\ g[i] \in Int
  BY <1>1, <1>2, <1>3
<1>6. g[x] = v[e] /\ g[x] \in Int
  BY <1>2
<1>7. Picked(v, s) = SumFunctionOnSet(f, D)
  BY <1>4 DEF Picked, SumFunction
<1>8. Picked(v, Append(s, e)) = SumFunctionOnSet(g, D \cup {x})
  BY <1>4 DEF Picked, SumFunction
<1> HIDE DEF f, g, D, x
<1>9. SumFunctionOnSet(g, D \cup {x}) = SumFunctionOnSet(g, D) + g[x]
  BY <1>4, <1>5, <1>6, SumAdd
<1>10. SumFunctionOnSet(f, D) = SumFunctionOnSet(g, D)
  BY <1>4, <1>5, SumSame
<1> QED BY <1>6, <1>7, <1>8, <1>9, <1>10

\* What a pushed note does to the list of the notes taken.
LEMMA Pushed ==
  ASSUME NEW A, NEW s \in Seq(A), NEW e \in A
  PROVE  /\ Append(s, e) \in Seq(A) /\ Append(s, e) # << >> /\ Len(Append(s, e)) = Len(s) + 1
         /\ Range(Append(s, e)) = Range(s) \cup {e}
         /\ Front(Append(s, e)) = s /\ Last(Append(s, e)) = e
<1> DEFINE t == Append(s, e)
<1>1. Len(s) \in Nat /\ DOMAIN s = 1 .. Len(s)
  BY Elements
<1>2. /\ t \in Seq(A) /\ Len(t) = Len(s) + 1 /\ DOMAIN t = 1 .. (Len(s) + 1) /\ t # << >>
      /\ t[Len(s) + 1] = e
  OBVIOUS
<1>3. \A i \in 1 .. Len(s) : t[i] = s[i]
  OBVIOUS
<1> HIDE DEF t
<1>4. Range(t) = Range(s) \cup {e}
  BY <1>1, <1>2, <1>3 DEF Range
<1>5. Last(t) = e
  BY <1>2 DEF Last
<1>6. Front(t) = SubSeq(t, 1, Len(s))
  BY <1>1, <1>2 DEF Front
<1>7. SubSeq(t, 1, Len(s)) = s
  <2> DEFINE r == SubSeq(t, 1, Len(s))
  <2>1. r \in Seq(A) /\ Len(r) = Len(s)
    BY <1>1, <1>2
  <2>2. \A i \in 1 .. Len(s) : r[i] = t[i]
    BY <1>1, <1>2
  <2> HIDE DEF r
  <2>3. DOMAIN r = 1 .. Len(s) /\ r = [i \in 1 .. Len(s) |-> r[i]] /\ s = [i \in 1 .. Len(s) |-> s[i]]
    BY <2>1, <1>1
  <2>4. r = s
    BY <2>2, <2>3, <1>3
  <2> QED BY <2>4 DEF r
<1> QED BY <1>2, <1>4, <1>5, <1>6, <1>7 DEF t

\* Vec::remove.
LEMMA Removed ==
  ASSUME NEW A, NEW s \in Seq(A), NEW i \in 1 .. Len(s)
  PROVE  RemoveAt(s, i) \in Seq(A) /\ IsWithout(RemoveAt(s, i), s, i)
<1> DEFINE a == SubSeq(s, 1, i - 1)
           b == SubSeq(s, i + 1, Len(s))
<1>1. Len(s) \in Nat /\ i \in Nat /\ \A j \in 1 .. Len(s) : s[j] \in A
  BY Elements
<1>2. a \in Seq(A) /\ Len(a) = i - 1 /\ \A j \in 1 .. (i - 1) : a[j] = s[j]
  BY <1>1
<1>3. b \in Seq(A) /\ Len(b) = Len(s) - i /\ \A j \in 1 .. (Len(s) - i) : b[j] = s[i + j]
  BY <1>1
<1>4. RemoveAt(s, i) = a \o b
  BY DEF RemoveAt
<1> HIDE DEF a, b
<1>5. /\ a \o b \in Seq(A) /\ Len(a \o b) = Len(a) + Len(b)
      /\ \A j \in 1 .. (Len(a) + Len(b)) : (a \o b)[j] = IF j <= Len(a) THEN a[j] ELSE b[j - Len(a)]
  <2>1. a \in Seq(A) /\ b \in Seq(A)
    BY <1>2, <1>3
  <2> QED BY <2>1, ConcatProperties
<1>6. ASSUME NEW j \in 1 .. (Len(s) - 1)
      PROVE  (a \o b)[j] = IF j < i THEN s[j] ELSE s[j + 1]
  <2>1. j \in 1 .. (Len(a) + Len(b))
    BY <1>1, <1>2, <1>3
  <2>2. CASE j < i
    BY <1>1, <1>2, <1>5, <2>1, <2>2
  <2>3. CASE ~(j < i)
    <3>1. (a \o b)[j] = b[j - (i - 1)]
      BY <1>1, <1>2, <1>5, <2>1, <2>3
    <3>2. j - (i - 1) \in 1 .. (Len(s) - i) /\ i + (j - (i - 1)) = j + 1
      BY <1>1, <2>3
    <3> QED BY <3>1, <3>2, <1>3, <2>3
  <2> QED BY <2>2, <2>3
<1>7. Len(a \o b) = Len(s) - 1
  BY <1>1, <1>2, <1>3, <1>5
<1> QED BY <1>4, <1>5, <1>6, <1>7 DEF IsWithout

\* Vec::pop.
LEMMA Popped ==
  ASSUME NEW A, NEW s \in Seq(A), s # << >>
  PROVE  Front(s) \in Seq(A) /\ IsWithout(Front(s), s, Len(s)) /\ Len(s) \in 1 .. Len(s) /\ Last(s) = s[Len(s)]
<1>1. Len(s) \in Nat /\ Len(s) # 0
  OBVIOUS
<1>2. /\ Front(s) \in Seq(A) /\ Len(Front(s)) = Len(s) - 1
      /\ \A j \in 1 .. (Len(s) - 1) : Front(s)[j] = s[j]
  <2>0. PICK n \in Nat \ {0} : n = Len(s)
    BY <1>1
  <2> DEFINE m == n - 1
  <2>1. 1 \in Int /\ m \in Int /\ (1 <= m => m - 1 + 1 = m) /\ (~(1 <= m) => m = 0)
    OBVIOUS
  <2>2. \A j \in 1 .. m : s[j] \in A
    BY <2>0, Elements
  <2>3. Front(s) = SubSeq(s, 1, m)
    BY <2>0 DEF Front
  <2>4. m - 1 + 1 = m /\ \A j \in 1 .. m : 1 + j - 1 = j
    BY <2>1
  <2> HIDE DEF m
  <2>5. /\ SubSeq(s, 1, m) \in Seq(A) /\ Len(SubSeq(s, 1, m)) = m
        /\ \A j \in 1 .. m : SubSeq(s, 1, m)[j] = s[j]
    BY <2>1, <2>2, <2>4, SubSeqProperties
  <2> QED BY <2>0, <2>3, <2>5 DEF m
<1> QED BY <1>1, <1>2 DEF IsWithout, Last

\* A sorted list without one of its elements is sorted, and the element is gone.
LEMMA WithoutSorted ==
  ASSUME NEW A, NEW s \in Seq(A), NEW i \in 1 .. Len(s), NEW t \in Seq(A), IsWithout(t, s, i),
         A \subseteq Nat, \A a \in A : value[a] \in Nat,
         \A j, k \in 1 .. Len(s) : j < k => Before(s[j], s[k])
  PROVE  /\ \A j, k \in 1 .. Len(t) : j < k => Before(t[j], t[k])
         /\ Range(t) = Range(s) \ {s[i]}
<1>1. /\ Len(s) \in Nat /\ DOMAIN s = 1 .. Len(s) /\ Len(t) = Len(s) - 1 /\ DOMAIN t = 1 .. Len(t)
      /\ \A j \in 1 .. Len(s) : s[j] \in A
  BY Elements DEF IsWithout
<1>2. \A j \in 1 .. Len(t) : t[j] = IF j < i THEN s[j] ELSE s[j + 1]
  BY <1>1 DEF IsWithout
<1>3. ASSUME NEW j \in 1 .. Len(t), NEW k \in 1 .. Len(t), j < k
      PROVE  Before(t[j], t[k])
  <2>1. j \in 1 .. Len(s) /\ k \in 1 .. Len(s) /\ j + 1 \in 1 .. Len(s) /\ k + 1 \in 1 .. Len(s)
    BY <1>1
  <2>2. PICK p, q \in 1 .. Len(s) : p < q /\ t[j] = s[p] /\ t[k] = s[q]
    <3>1. CASE j < i /\ k < i
      BY <1>2, <2>1, <3>1, <1>3
    <3>2. CASE j < i /\ ~(k < i)
      <4>1. t[j] = s[j] /\ t[k] = s[k + 1] /\ j < k + 1
        BY <1>2, <3>2, <1>3
      <4> QED BY <4>1, <2>1
    <3>3. CASE ~(j < i)
      <4>1. t[j] = s[j + 1] /\ t[k] = s[k + 1] /\ j + 1 < k + 1
        BY <1>1, <1>2, <3>3, <1>3
      <4> QED BY <4>1, <2>1
    <3> QED BY <3>1, <3>2, <3>3
  <2> QED BY <2>2
<1>4. \A j, k \in 1 .. Len(s) : j # k => s[j] # s[k]
  <2> SUFFICES ASSUME NEW j \in 1 .. Len(s), NEW k \in 1 .. Len(s), j < k PROVE s[j] # s[k]
    BY <1>1
  <2>1. s[j] \in Nat /\ s[k] \in Nat /\ value[s[j]] \in Nat /\ Before(s[j], s[k])
    BY <1>1
  <2>2. \A a \in Nat : value[a] \in Nat => ~ Before(a, a)
    BY DEF Before
  <2> QED BY <2>1, <2>2
<1>5. ASSUME NEW x \in Range(t) PROVE x \in Range(s) \ {s[i]}
  <2>1. PICK j \in 1 .. Len(t) : x = t[j]
    BY <1>1 DEF Range
  <2>2. PICK p \in 1 .. Len(s) : x = s[p] /\ p # i
    <3>1. j \in 1 .. Len(s) /\ j + 1 \in 1 .. Len(s) /\ (~(j < i) => j + 1 # i)
      BY <1>1
    <3> QED BY <2>1, <1>2, <3>1
  <2> QED BY <2>2, <1>1, <1>4 DEF Range
<1>6. ASSUME NEW x \in Range(s), x # s[i] PROVE x \in Range(t)
  <2>1. PICK p \in 1 .. Len(s) : x = s[p]
    BY <1>1 DEF Range
  <2>2. p # i
    BY <2>1, <1>6
  <2>3. CASE p < i
    <3>1. p \in 1 .. Len(t) /\ t[p] = s[p]
      BY <1>1, <1>2, <2>3
    <3> QED BY <3>1, <2>1, <1>1 DEF Range
  <2>4. CASE ~(p < i)
    <3>1. p - 1 \in 1 .. Len(t) /\ ~(p - 1 < i) /\ p - 1 + 1 = p
      BY <1>1, <2>2, <2>4
    <3>2. t[p - 1] = s[p]
      BY <1>2, <3>1
    <3> QED BY <3>1, <3>2, <2>1, <1>1 DEF Range
  <2> QED BY <2>3, <2>4
<1> QED BY <1>3, <1>5, <1>6

-----------------------------------------------------------------------------
(* The invariant of the loop.                                                *)

\* What a turn that takes a note x, and leaves the list t, does to the lists.
LEMMA NoteTaken ==
  ASSUME Typed, Parted, Sorted, Counted, step = "loop", Needed > 0,
         NEW i \in 1 .. Len(unselected), NEW x, x = unselected[i],
         NEW t \in Seq(Able), IsWithout(t, unselected, i),
         value' = value, target' = target, step' = step,
         selected' = Append(selected, x), unselected' = t
  PROVE  /\ Able' = Able /\ x \in Able /\ x \notin Range(selected)
         /\ Sorted' /\ Counted' /\ Parted'
         /\ selected' \in Seq(Able) /\ Len(unselected') = Len(unselected) - 1
         /\ Range(selected') = Range(selected) \cup {x} /\ selected' # << >>
         /\ Front(selected') = selected /\ Last(selected') = x
         /\ Needed' = Needed - value[x] /\ Needed \in Int
<1>1. Able' = Able /\ \A a, b : Before(a, b)' <=> Before(a, b)
  BY DEF Able, Before
<1>2. /\ Able \subseteq Nat /\ \A a \in Able : value[a] \in Nat
      /\ Able \subseteq DOMAIN value
  BY DEF Able, Typed
<1>3. Len(unselected) \in Nat /\ DOMAIN unselected = 1 .. Len(unselected) /\ x \in Able
  <2>1. unselected \in Seq(Able)
    BY DEF Typed
  <2> QED BY <2>1, Elements
<1>4. x \in Range(unselected) /\ x \notin Range(selected)
  BY <1>3 DEF Range, Parted
<1>5. /\ \A j, k \in 1 .. Len(t) : j < k => Before(t[j], t[k])
      /\ Range(t) = Range(unselected) \ {x}
  <2>1. unselected \in Seq(Able) /\ \A j, k \in 1 .. Len(unselected) : j < k => Before(unselected[j], unselected[k])
    BY DEF Typed, Sorted
  <2> QED BY <1>2, <2>1, WithoutSorted
<1>6. Sorted'
  BY <1>1, <1>5 DEF Sorted
<1>7. selected \in Seq(Able) /\ IsFiniteSet(Able) /\ Range(selected) \subseteq Able
  <2>1. selected \in Seq(Able) /\ IsFiniteSet(DOMAIN value)
    BY DEF Typed
  <2>2. IsFiniteSet(Able)
    BY <1>2, <2>1, FS_Subset
  <2> QED BY <2>1, <2>2, Elements DEF Range
<1>8. /\ selected' \in Seq(Able) /\ selected' # << >> /\ Len(selected') = Len(selected) + 1
      /\ Range(selected') = Range(selected) \cup {x}
      /\ Front(selected') = selected /\ Last(selected') = x
  BY <1>3, <1>7, Pushed
<1>9. Needed = target - Picked(value, selected) /\ Needed' = target - Picked(value, Append(selected, x))
  BY DEF Needed, Taken, Picked
<1>10. Picked(value, Append(selected, x)) = Picked(value, selected) + value[x]
  BY <1>2, <1>3, <1>7, PickedAppend
<1>11. IsFiniteSet(Range(selected)) /\ \A a \in Range(selected) : value[a] \in Nat
  BY <1>2, <1>7, FS_Subset
<1>12. Total(Range(selected) \cup {x}) = Total(Range(selected)) + value[x] /\ Total(Range(selected)) \in Int
  <2>1. value[x] \in Int /\ \A a \in Range(selected) : value[a] \in Int
    BY <1>2, <1>3, <1>11
  <2> QED BY <1>4, <1>11, <2>1, SumAdd, SumInt DEF Total
<1>13. Needed \in Int /\ Needed' = Needed - value[x]
  <2>1. Needed \in Int /\ target \in Int /\ value[x] \in Int
    BY <1>2, <1>3, <1>12 DEF Typed, Counted
  <2>2. Picked(value, selected) \in Int
    <3> DEFINE f == [j \in DOMAIN selected |-> value[selected[j]]]
    <3>1. IsFiniteSet(DOMAIN f) /\ \A j \in DOMAIN f : f[j] \in Int
      <4>1. Len(selected) \in Nat /\ DOMAIN selected = 1 .. Len(selected) /\ \A j \in 1 .. Len(selected) : selected[j] \in Able
        BY <1>7, Elements
      <4>2. IsFiniteSet(DOMAIN f)
        BY <4>1, FS_Interval
      <4>3. ASSUME NEW j \in DOMAIN selected PROVE f[j] \in Int
        <5>1. selected[j] \in Able /\ f[j] = value[selected[j]]
          BY <4>1
        <5>2. value[selected[j]] \in Nat
          BY <5>1, <1>2
        <5> QED BY <5>1, <5>2
      <4> QED BY <4>2, <4>3
    <3>2. Picked(value, selected) = SumFunctionOnSet(f, DOMAIN f)
      BY DEF Picked, SumFunction
    <3> HIDE DEF f
    <3> QED BY <3>1, <3>2, SumInt
  <2> QED BY <1>9, <1>10, <2>1, <2>2
<1>14. Total(Range(selected))' = Total(Range(selected) \cup {x})
  BY <1>8 DEF Total
<1>15. Counted'
  <2>1. Cardinality(Range(selected) \cup {x}) = Cardinality(Range(selected)) + 1
    BY <1>4, <1>11, FS_AddElement
  <2>2. Cardinality(Range(selected'))  = Len(selected')
    BY <2>1, <1>8 DEF Counted
  <2>3. Needed' = target' - Total(Range(selected))'
    <3>1. Needed = target - Total(Range(selected)) /\ target \in Int /\ value[x] \in Int
      BY <1>2, <1>3 DEF Counted, Typed
    <3> QED BY <3>1, <1>12, <1>13, <1>14
  <2>4. Taken' = Total(Range(selected))'
    <3>1. Taken = Picked(value, selected) /\ Taken' = Picked(value, Append(selected, x))
      BY DEF Taken, Picked
    <3> QED BY <3>1, <1>10, <1>12, <1>14 DEF Counted
  <2> QED BY <2>2, <2>3, <2>4 DEF Counted
<1>16. Parted'
  BY <1>1, <1>5, <1>8 DEF Parted
<1>17. Len(unselected') = Len(unselected) - 1
  BY DEF IsWithout
<1> QED BY <1>1, <1>3, <1>4, <1>6, <1>8, <1>13, <1>15, <1>16, <1>17

\* Before the loop no note is taken.
LEMMA InitLoop == Init => LoopInv
<1> SUFFICES ASSUME Init PROVE LoopInv
  OBVIOUS
<1>1. PICK k \in 0 .. MaxNotes : value \in [1 .. k -> Values]
  BY DEF Init
<1>2. /\ DOMAIN value = 1 .. k /\ IsFiniteSet(1 .. k) /\ 1 .. k \subseteq Nat
      /\ \A n \in 1 .. k : value[n] \in Nat
  <2>1. k \in Int /\ 1 \in Int
    BY SelectionAssumption
  <2>2. IsFiniteSet(1 .. k) /\ 1 .. k \subseteq Nat
    BY <2>1, FS_Interval
  <2>3. Values \subseteq Nat
    BY SelectionAssumption
  <2>4. DOMAIN value = 1 .. k /\ \A n \in 1 .. k : value[n] \in Values
    BY <1>1
  <2> QED BY <2>2, <2>3, <2>4
<1>3. target \in Nat
  BY SelectionAssumption DEF Init
<1>4. selected = << >> /\ unselected = << >> /\ Range(selected) = {} /\ index = 1 /\ step = "sort"
  BY DEF Init, Range
<1>5. Needed = target /\ Taken = 0 /\ Total(Range(selected)) = 0 /\ Total({}) = 0
  <2>1. SumFunction([i \in DOMAIN selected |-> value[selected[i]]]) = 0
    <3> DEFINE f == [i \in DOMAIN selected |-> value[selected[i]]]
    <3>1. DOMAIN f = {}
      BY <1>4
    <3> HIDE DEF f
    <3>2. SumFunction(f) = 0
      BY <3>1, SumEmpty DEF SumFunction
    <3> QED BY <3>2 DEF f
  <2>2. SumFunctionOnSet(value, {}) = 0
    BY SumEmpty
  <2>3. Needed = target - 0
    BY <2>1 DEF Needed, Taken
  <2>4. Total({}) = 0
    BY <2>2 DEF Total
  <2>5. Total(Range(selected)) = 0
    BY <2>4, <1>4, Zenon
  <2>6. Taken = 0
    BY <2>1 DEF Taken
  <2> QED BY <1>3, <2>3, <2>4, <2>5, <2>6
<1>6. Typed
  BY <1>2, <1>3, <1>4 DEF Typed, Steps
<1>7. Counted
  BY <1>3, <1>4, <1>5, FS_EmptySet DEF Counted
<1>8. Parted /\ Sorted /\ Passed /\ Largest /\ Ended /\ Blameless
  BY <1>4 DEF Parted, Sorted, Passed, Largest, Ended, Blameless
<1>9. Finished
  BY <1>3, <1>5 DEF Finished
<1> QED BY <1>6, <1>7, <1>8, <1>9 DEF LoopInv

\* A step that leaves the notes, the target and what is selected alone needs
\* as much as before.
LEMMA SameNeed ==
  ASSUME value' = value, target' = target, selected' = selected
  PROVE  /\ Able' = Able /\ Needed' = Needed /\ Counted' = Counted
         /\ Finished' = Finished /\ Largest' = Largest
<1>1. Able' = Able /\ Needed' = Needed /\ Taken' = Taken
  BY DEF Able, Needed, Taken
<1>2. Counted' = Counted
  BY <1>1 DEF Counted, Total
<1>3. Finished' = Finished
  BY <1>1 DEF Finished, Total
<1>4. Largest' = Largest
  BY <1>1 DEF Largest
<1> QED BY <1>1, <1>2, <1>3, <1>4

\* Sorting makes a list of all the notes that pay for their input.
LEMMA SortLoop == LoopInv /\ Sort => LoopInv'
<1> SUFFICES ASSUME LoopInv, Sort PROVE LoopInv'
  OBVIOUS
<1>1. value' = value /\ target' = target /\ selected' = selected /\ index' = index /\ step' = "loop" /\ step = "sort"
  BY DEF Sort, wallet
<1>2. selected = << >> /\ index = 1 /\ Range(selected) = {}
  BY <1>1 DEF LoopInv, Parted, Range
<1>3. Able' = Able /\ Needed' = Needed /\ Counted' /\ Finished' /\ Largest'
  BY <1>1, SameNeed DEF LoopInv
<1>4. PICK s \in [1 .. Cardinality(Able) -> Able] :
        /\ Range(s) = Able /\ \A i, j \in DOMAIN s : i < j => Before(s[i], s[j])
        /\ unselected' = s
  BY DEF Sort
<1>5. Cardinality(Able) \in Nat /\ s \in Seq(Able) /\ DOMAIN s = 1 .. Len(s) /\ Len(s) \in Nat
  <2>1. IsFiniteSet(Able)
    BY FS_Subset DEF LoopInv, Typed, Able
  <2>2. Cardinality(Able) \in Nat
    BY <2>1, FS_CardinalityType
  <2>3. s \in Seq(Able)
    BY <2>2
  <2> QED BY <2>2, <2>3, Elements
<1>6. Typed'
  <2>1. IsFiniteSet(DOMAIN value)' /\ (DOMAIN value \subseteq Nat)' /\ (\A n \in DOMAIN value : value[n] \in Nat)' /\ target' \in Nat
    BY <1>1 DEF LoopInv, Typed
  <2>2. unselected' \in Seq(Able) /\ selected' \in Seq(Able)
    BY <1>1, <1>4, <1>5 DEF LoopInv, Typed
  <2>3. index' \in 1 .. (Len(unselected') + 1)
    BY <1>1, <1>2, <1>4, <1>5
  <2> QED BY <1>1, <1>3, <2>1, <2>2, <2>3 DEF Typed, Steps
<1>7. Parted'
  BY <1>1, <1>2, <1>3, <1>4 DEF Parted
<1>8. Sorted'
  <2>1. \A a, b : Before(a, b)' <=> Before(a, b)
    BY <1>1 DEF Before
  <2>2. \A i, j \in 1 .. Len(unselected') : i < j => Before(unselected'[i], unselected'[j])
    BY <1>4, <1>5
  <2> QED BY <2>1, <2>2 DEF Sorted
<1>9. Passed' /\ Ended' /\ Blameless'
  BY <1>1, <1>2, <1>4, <1>5 DEF Passed, Ended, Blameless
<1> QED BY <1>3, <1>6, <1>7, <1>8, <1>9 DEF LoopInv

\* A step that moves on, ends the loop or fails leaves the lists as they are.
LEMMA SameLists ==
  ASSUME LoopInv, step' \in Steps \ {"sort"}, step = "sort" => step' = "error",
         value' = value, target' = target, selected' = selected, unselected' = unselected,
         index' \in 1 .. (Len(unselected) + 1), step = "error" => step' = "error"
  PROVE  Typed' /\ Parted' /\ Sorted' /\ Counted' /\ Largest' /\ Finished' /\ Needed' = Needed
<1>1. Able' = Able /\ Needed' = Needed /\ Counted' /\ Finished' /\ Largest'
  BY SameNeed DEF LoopInv
<1>2. Typed'
  BY <1>1 DEF LoopInv, Typed
<1>3. Parted'
  BY <1>1 DEF LoopInv, Parted
<1>4. Sorted'
  <2>1. \A a, b : Before(a, b)' <=> Before(a, b)
    BY DEF Before
  <2> QED BY <2>1 DEF LoopInv, Sorted
<1> QED BY <1>1, <1>2, <1>3, <1>4

\* The value of a part of the wallet is at most that of the wallet.
LEMMA PartOfWallet ==
  ASSUME Typed, NEW S \in SUBSET DOMAIN value
  PROVE  Total(S) \in Nat /\ Total(DOMAIN value) \in Nat /\ Total(S) <= Total(DOMAIN value)
<1>1. IsFiniteSet(DOMAIN value) /\ \A n \in DOMAIN value : value[n] \in Nat
  BY DEF Typed
<1>2. IsFiniteSet(S) /\ \A n \in S : value[n] \in Nat
  BY <1>1, FS_Subset
<1> QED BY <1>1, <1>2, SumPart, SumNat DEF Total

\* A note without index, or one worth more than there is, is a reason.
LEMMA RefuseLoop == LoopInv /\ Refuse => LoopInv'
<1> SUFFICES ASSUME LoopInv, Refuse PROVE LoopInv'
  OBVIOUS
<1>1. /\ step = "sort" /\ step' = "error" /\ value' = value /\ target' = target /\ selected' = selected
      /\ unselected' = unselected /\ index' = index /\ unnamed' = unnamed /\ unplaced' = unplaced /\ Unusable
  BY DEF Refuse, wallet
<1>2. Typed' /\ Parted' /\ Sorted' /\ Counted' /\ Largest' /\ Finished' /\ Needed' = Needed
  <2>1. index' \in 1 .. (Len(unselected) + 1) /\ step' \in Steps \ {"sort"}
    BY <1>1 DEF LoopInv, Typed, Steps
  <2> QED BY <1>1, <2>1, SameLists
<1>3. Passed' /\ Ended'
  BY <1>1, <1>2 DEF LoopInv, Passed, Ended
<1>4. Blameless'
  <2>1. ASSUME NEW n \in DOMAIN value, value[n] > MaxMoney PROVE Total(DOMAIN value) > MaxMoney
    <3>1. value[n] \in Nat /\ n \notin {} /\ IsFiniteSet({}) /\ {} \cup {n} = {n}
      BY FS_EmptySet DEF LoopInv, Typed
    <3>2. SumFunctionOnSet(value, {} \cup {n}) = SumFunctionOnSet(value, {}) + value[n]
      BY <3>1, SumAdd
    <3>3. Total({n}) = value[n]
      BY <3>1, <3>2, SumEmpty DEF Total
    <3>4. Total({n}) <= Total(DOMAIN value) /\ Total(DOMAIN value) \in Nat
      BY PartOfWallet DEF LoopInv
    <3> QED BY <2>1, <3>1, <3>3, <3>4, SelectionAssumption
  <2>2. Total(DOMAIN value) \in Nat
    BY PartOfWallet DEF LoopInv
  <2>3. Total(DOMAIN value)' = Total(DOMAIN value)
    BY <1>1 DEF Total
  <2> QED BY <1>1, <2>1, <2>2, <2>3, SelectionAssumption DEF Blameless, Unusable
<1> QED BY <1>2, <1>3, <1>4 DEF LoopInv

\* So is a selection that is worth more than there is.
LEMMA OverflowLoop == LoopInv /\ Overflow => LoopInv'
<1> SUFFICES ASSUME LoopInv, Overflow PROVE LoopInv'
  OBVIOUS
<1>1. /\ step = "loop" /\ step' = "error" /\ value' = value /\ target' = target /\ selected' = selected
      /\ unselected' = unselected /\ index' = index /\ Taken > MaxMoney
  BY DEF Overflow, wallet
<1>2. Typed' /\ Parted' /\ Sorted' /\ Counted' /\ Largest' /\ Finished' /\ Needed' = Needed
  <2>1. index' \in 1 .. (Len(unselected) + 1) /\ step' \in Steps \ {"sort"}
    BY <1>1 DEF LoopInv, Typed, Steps
  <2> QED BY <1>1, <2>1, SameLists
<1>3. Passed' /\ Ended'
  BY <1>1, <1>2 DEF LoopInv, Passed, Ended
<1>4. Blameless'
  <2>1. Range(selected) \in SUBSET DOMAIN value
    <3>1. selected \in Seq(Able) /\ Able \subseteq DOMAIN value
      BY DEF LoopInv, Typed, Able
    <3> QED BY <3>1, Elements DEF Range
  <2>2. /\ Taken = Total(Range(selected)) /\ Total(Range(selected)) <= Total(DOMAIN value)
        /\ Total(Range(selected)) \in Nat /\ Total(DOMAIN value) \in Nat
    BY <2>1, PartOfWallet DEF LoopInv, Counted
  <2>3. Total(DOMAIN value)' = Total(DOMAIN value)
    BY <1>1 DEF Total
  <2> QED BY <1>1, <2>2, <2>3, SelectionAssumption DEF Blameless
<1> QED BY <1>2, <1>3, <1>4 DEF LoopInv

\* The loop ends.
LEMMA BreakLoop == LoopInv /\ Break => LoopInv'
<1> SUFFICES ASSUME LoopInv, Break PROVE LoopInv'
  OBVIOUS
<1>1. /\ step = "loop" /\ step' = "found" /\ value' = value /\ target' = target
      /\ selected' = selected /\ unselected' = unselected /\ index' = index
      /\ unselected = << >> \/ Needed <= 0
  BY DEF Break, wallet
<1>2. Typed' /\ Parted' /\ Sorted' /\ Counted' /\ Largest' /\ Finished' /\ Needed' = Needed
  <2>1. index' \in 1 .. (Len(unselected) + 1) /\ step' \in Steps \ {"sort"}
    BY <1>1 DEF LoopInv, Typed, Steps
  <2> QED BY <1>1, <2>1, SameLists
<1>3. Passed'
  BY <1>1, <1>2 DEF LoopInv, Passed
<1>4. Ended' /\ Blameless'
  BY <1>1, <1>2 DEF Ended, Blameless
<1> QED BY <1>2, <1>3, <1>4 DEF LoopInv

\* The notes are returned, or one of them has no position.
LEMMA ReceiveLoop == LoopInv /\ Receive => LoopInv'
<1> SUFFICES ASSUME LoopInv, Receive PROVE LoopInv'
  OBVIOUS
<1>1. /\ step = "found" /\ step' \in {"done", "error"} /\ value' = value /\ target' = target
      /\ selected' = selected /\ unselected' = unselected /\ index' = index /\ unplaced' = unplaced
      /\ step' = "error" => unplaced # {}
  BY DEF Receive, wallet
<1>2. Typed' /\ Parted' /\ Sorted' /\ Counted' /\ Largest' /\ Finished' /\ Needed' = Needed
  <2>1. index' \in 1 .. (Len(unselected) + 1) /\ step' \in Steps \ {"sort"}
    BY <1>1 DEF LoopInv, Typed, Steps
  <2> QED BY <1>1, <2>1, SameLists
<1>3. Passed'
  BY <1>1, <1>2 DEF LoopInv, Passed
<1>4. Ended' /\ Blameless'
  BY <1>1, <1>2 DEF LoopInv, Ended, Blameless
<1> QED BY <1>2, <1>3, <1>4 DEF LoopInv

\* The note at the index is passed.
LEMMA NextLoop == LoopInv /\ NextNote => LoopInv'
<1> SUFFICES ASSUME LoopInv, NextNote PROVE LoopInv'
  OBVIOUS
<1>1. /\ step = "loop" /\ step' = "loop" /\ value' = value /\ target' = target /\ Needed > 0
      /\ selected' = selected /\ unselected' = unselected /\ index' = index + 1
      /\ index \in DOMAIN unselected /\ value[unselected[index]] < Needed
  BY DEF NextNote, Continues, wallet
<1>2. Len(unselected) \in Nat /\ DOMAIN unselected = 1 .. Len(unselected)
  BY Elements DEF LoopInv, Typed
<1>3. Typed' /\ Parted' /\ Sorted' /\ Counted' /\ Largest' /\ Finished' /\ Needed' = Needed
  <2>1. index' \in 1 .. (Len(unselected) + 1) /\ step' \in Steps \ {"sort"}
    BY <1>1, <1>2 DEF Steps
  <2> QED BY <1>1, <2>1, SameLists
<1>4. Passed'
  <2>1. \A i \in 1 .. Len(unselected) : i < index + 1 => i < index \/ i = index
    BY <1>1, <1>2
  <2> QED BY <1>1, <1>3, <2>1 DEF LoopInv, Passed
<1>5. Ended' /\ Blameless'
  BY <1>1 DEF Ended, Blameless
<1> QED BY <1>3, <1>4, <1>5 DEF LoopInv

\* The note at the index is taken: it is enough, and what was passed is not.
LEMMA TakeLoop == LoopInv /\ TakeNote => LoopInv'
<1> SUFFICES ASSUME LoopInv, TakeNote PROVE LoopInv'
  OBVIOUS
<1> DEFINE x == unselected[index]
           t == RemoveAt(unselected, index)
<1>1. /\ step = "loop" /\ step' = step /\ value' = value /\ target' = target /\ Needed > 0
      /\ selected' = Append(selected, x) /\ unselected' = t /\ index' = index
      /\ index \in DOMAIN unselected /\ value[x] >= Needed
  BY DEF TakeNote, Continues, wallet
<1>2. Typed /\ Parted /\ Sorted /\ Counted /\ Passed /\ Largest
  BY DEF LoopInv
<1>3. unselected \in Seq(Able) /\ selected \in Seq(Able) /\ target \in Nat
  BY <1>2 DEF Typed
<1>4. Len(unselected) \in Nat /\ DOMAIN unselected = 1 .. Len(unselected) /\ index \in 1 .. Len(unselected)
  BY <1>1, <1>3, Elements
<1>5. t \in Seq(Able) /\ IsWithout(t, unselected, index)
  BY <1>3, <1>4, Removed
<1>6. x = unselected[index]
  OBVIOUS
<1> HIDE DEF x, t
<1>7. /\ Able' = Able /\ x \in Able /\ x \notin Range(selected)
      /\ Sorted' /\ Counted' /\ Parted'
      /\ selected' \in Seq(Able) /\ Len(unselected') = Len(unselected) - 1
      /\ Range(selected') = Range(selected) \cup {x} /\ selected' # << >>
      /\ Front(selected') = selected /\ Last(selected') = x
      /\ Needed' = Needed - value[x] /\ Needed \in Int
  BY <1>1, <1>2, <1>4, <1>5, <1>6, NoteTaken
<1>8. \A a \in Able : value[a] \in Nat
  BY <1>2 DEF Typed, Able
<1>9. Needed' <= 0
  BY <1>1, <1>7, <1>8
<1>10. Typed'
  <2>1. IsFiniteSet(DOMAIN value)' /\ (DOMAIN value \subseteq Nat)' /\ (\A n \in DOMAIN value : value[n] \in Nat)' /\ target' \in Nat
    BY <1>1, <1>2 DEF Typed
  <2>2. index' \in 1 .. (Len(unselected') + 1)
    BY <1>1, <1>4, <1>7
  <2>3. unselected' \in Seq(Able') /\ selected' \in Seq(Able') /\ step' \in Steps
    BY <1>1, <1>5, <1>7 DEF Steps
  <2> QED BY <2>1, <2>2, <2>3 DEF Typed
<1>11. Passed' /\ Largest' /\ Ended' /\ Blameless'
  <2>1. ~(Needed' > 0)
    BY <1>7, <1>8, <1>9
  <2> QED BY <1>1, <2>1 DEF Passed, Largest, Ended, Blameless
<1>12. Finished'
  <2> DEFINE first == Range(selected)
             rest == target - Total(first)
  <2>1. rest = Needed
    BY <1>2 DEF Counted
  <2>2. rest > 0 /\ value[x] >= rest
    BY <1>1, <2>1
  <2>3. ASSUME NEW a \in Able \ first, value[a] >= rest PROVE value[x] <= value[a]
    <3>1. a \in Range(unselected)
      BY <1>1, <1>2 DEF Parted
    <3>2. PICK j \in 1 .. Len(unselected) : a = unselected[j]
      BY <3>1, <1>4 DEF Range
    <3>3. ~(j < index)
      <4>1. ~(value[a] < Needed)
        BY <2>1, <2>3, <1>7, <1>8
      <4> QED BY <4>1, <3>2, <1>1, <1>2 DEF Passed
    <3>4. CASE j = index
      BY <3>2, <3>4, <1>6, <1>7, <1>8
    <3>5. CASE index < j
      <4>1. Before(x, a)
        BY <3>2, <3>5, <1>2, <1>4, <1>6 DEF Sorted
      <4> QED BY <4>1, <1>7, <1>8 DEF Before
    <3> QED BY <3>3, <3>4, <3>5, <1>4
  <2>4. /\ \A n \in first, a \in Able \ first : value[a] <= value[n]
        /\ selected # << >> => \A n \in Able : value[n] < target
    BY <1>1, <1>2 DEF Largest
  <2>5. ASSUME NEW n \in Able, value[n] >= target PROVE first = {}
    <3>1. ~(value[n] < target)
      BY <2>5, <1>3, <1>8
    <3>2. selected = << >>
      BY <3>1, <2>4
    <3> QED BY <3>2 DEF Range
  <2>6. Range(Front(selected')) = first
    BY <1>7
  <2>7. (target - Total(Range(Front(selected))))' = rest
    BY <1>1, <2>6 DEF Total
  <2> HIDE DEF first, rest
  <2> QED BY <1>1, <1>7, <2>2, <2>3, <2>4, <2>5, <2>6, <2>7 DEF Finished
<1> QED BY <1>2, <1>7, <1>10, <1>11, <1>12 DEF LoopInv

\* The largest note is taken: it is not enough, so more is needed.
LEMMA TakeLargestLoop == LoopInv /\ TakeLargest => LoopInv'
<1> SUFFICES ASSUME LoopInv, TakeLargest PROVE LoopInv'
  OBVIOUS
<1> DEFINE x == Last(unselected)
           t == Front(unselected)
           l == Len(unselected)
<1>1. /\ step = "loop" /\ step' = step /\ value' = value /\ target' = target /\ Needed > 0
      /\ selected' = Append(selected, x) /\ unselected' = t /\ index' = 1
      /\ index \notin DOMAIN unselected /\ unselected # << >>
  BY DEF TakeLargest, Continues, wallet
<1>2. Typed /\ Parted /\ Sorted /\ Counted /\ Passed /\ Largest
  BY DEF LoopInv
<1>3. unselected \in Seq(Able) /\ selected \in Seq(Able) /\ target \in Nat /\ index \in 1 .. (l + 1)
  BY <1>2 DEF Typed
<1>4. l \in Nat /\ DOMAIN unselected = 1 .. l
  BY <1>3, Elements
<1>5. t \in Seq(Able) /\ IsWithout(t, unselected, l) /\ l \in 1 .. Len(unselected) /\ x = unselected[l]
  BY <1>1, <1>3, Popped
<1>6. l = Len(unselected) /\ index = l + 1
  BY <1>1, <1>3, <1>4
<1> HIDE DEF x, t, l
<1>7. /\ Able' = Able /\ x \in Able /\ x \notin Range(selected)
      /\ Sorted' /\ Counted' /\ Parted'
      /\ selected' \in Seq(Able) /\ Len(unselected') = Len(unselected) - 1
      /\ Range(selected') = Range(selected) \cup {x} /\ selected' # << >>
      /\ Front(selected') = selected /\ Last(selected') = x
      /\ Needed' = Needed - value[x] /\ Needed \in Int
  BY <1>1, <1>2, <1>5, NoteTaken
<1>8. \A a \in Able : value[a] \in Nat
  BY <1>2 DEF Typed, Able
<1>9. \A a \in Able \ Range(selected) : value[a] < Needed /\ value[a] <= value[x]
  <2> SUFFICES ASSUME NEW a \in Able \ Range(selected) PROVE value[a] < Needed /\ value[a] <= value[x]
    OBVIOUS
  <2>1. a \in Range(unselected)
    BY <1>1, <1>2 DEF Parted
  <2>2. PICK j \in 1 .. l : a = unselected[j]
    BY <2>1, <1>4 DEF Range
  <2>3. value[a] < Needed
    <3>1. j < index
      BY <1>4, <1>6
    <3> QED BY <3>1, <2>2, <1>1, <1>2, <1>6 DEF Passed
  <2>4. CASE j = l
    BY <2>2, <2>3, <2>4, <1>5, <1>7, <1>8
  <2>5. CASE j < l
    <3>1. Before(a, x)
      BY <2>2, <2>5, <1>2, <1>5, <1>6 DEF Sorted
    <3> QED BY <3>1, <2>3, <1>7, <1>8 DEF Before
  <2> QED BY <2>4, <2>5, <1>4
<1>10. Needed' > 0
  BY <1>7, <1>8, <1>9
<1>11. Typed'
  <2>1. IsFiniteSet(DOMAIN value)' /\ (DOMAIN value \subseteq Nat)' /\ (\A n \in DOMAIN value : value[n] \in Nat)' /\ target' \in Nat
    BY <1>1, <1>2 DEF Typed
  <2>2. index' \in 1 .. (Len(unselected') + 1)
    BY <1>1, <1>4, <1>5, <1>6, <1>7
  <2>3. unselected' \in Seq(Able') /\ selected' \in Seq(Able') /\ step' \in Steps
    BY <1>1, <1>5, <1>7 DEF Steps
  <2> QED BY <2>1, <2>2, <2>3 DEF Typed
<1>12. Passed' /\ Ended' /\ Blameless'
  <2>1. \A i \in 1 .. Len(unselected') : ~(i < 1)
    BY <1>4, <1>6, <1>7
  <2> QED BY <1>1, <2>1 DEF Passed, Ended, Blameless
<1>13. Finished'
  <2>1. ~(Needed' <= 0)
    BY <1>7, <1>8, <1>10
  <2> QED BY <2>1 DEF Finished
<1>14. Largest'
  <2>1. ASSUME NEW n \in Range(selected) \cup {x}, NEW a \in Able \ (Range(selected) \cup {x})
        PROVE  value[a] <= value[n]
    <3>1. a \in Able \ Range(selected)
      OBVIOUS
    <3>2. CASE n = x
      BY <3>1, <3>2, <1>9
    <3>3. CASE n \in Range(selected)
      BY <3>1, <3>3, <1>1, <1>2 DEF Largest
    <3> QED BY <3>2, <3>3
  <2>2. ASSUME NEW n \in Able PROVE value[n] < target
    <3>1. CASE selected = << >>
      <4>1. Range(selected) = {}
        BY <3>1 DEF Range
      <4>2. Needed = target - 0
        BY <4>1, <1>2, SumEmpty DEF Counted, Total
      <4> QED BY <4>1, <4>2, <1>3, <1>9
    <3>2. CASE selected # << >>
      BY <3>2, <1>1, <1>2 DEF Largest
    <3> QED BY <3>1, <3>2
  <2> QED BY <1>1, <1>7, <2>1, <2>2 DEF Largest
<1> QED BY <1>7, <1>11, <1>12, <1>13, <1>14 DEF LoopInv

\* No step breaks the invariant.
LEMMA LoopInvKept == LoopInv /\ [Next]_vars => LoopInv'
<1> SUFFICES ASSUME LoopInv, [Next]_vars PROVE LoopInv'
  OBVIOUS
<1>1. CASE Refuse \/ Sort \/ Overflow \/ Break \/ TakeNote \/ NextNote \/ TakeLargest \/ Receive
  BY <1>1, RefuseLoop, SortLoop, OverflowLoop, BreakLoop, TakeLoop, NextLoop, TakeLargestLoop, ReceiveLoop
<1>2. CASE Stop \/ UNCHANGED vars
  <2>1. /\ value' = value /\ target' = target /\ selected' = selected /\ unselected' = unselected
        /\ index' = index /\ step' = step /\ unnamed' = unnamed /\ unplaced' = unplaced
    BY <1>2 DEF Stop, vars, wallet
  <2>2. Able' = Able /\ Needed' = Needed /\ Counted' /\ Finished' /\ Largest'
    BY <2>1, SameNeed DEF LoopInv
  <2>3. Typed' /\ Parted'
    BY <2>1, <2>2 DEF LoopInv, Typed, Parted
  <2>4. Sorted'
    <3>1. \A a, b : Before(a, b)' <=> Before(a, b)
      BY <2>1 DEF Before
    <3> QED BY <2>1, <3>1 DEF LoopInv, Sorted
  <2>5. Passed' /\ Ended' /\ Blameless'
    BY <2>1, <2>2 DEF LoopInv, Passed, Ended, Blameless, Total
  <2> QED BY <2>2, <2>3, <2>4, <2>5 DEF LoopInv
<1> QED BY <1>1, <1>2 DEF Next, Select, Loop

\* The invariant says what is promised when the loop has ended.
LEMMA LoopCovers == LoopInv => SelectionCovers
<1>0. CASE LoopInv /\ step # "done"
  BY <1>0 DEF SelectionCovers, LoopInv, Blameless
<1> SUFFICES ASSUME LoopInv, step = "done" PROVE SelectionCovers
  BY <1>0
<1> DEFINE got == Range(selected)
<1>1. selected \in Seq(Able) /\ IsFiniteSet(Able) /\ (\A a \in Able : value[a] \in Nat) /\ target \in Nat
  <2>1. IsFiniteSet(DOMAIN value) /\ Able \subseteq DOMAIN value
    BY DEF LoopInv, Typed, Able
  <2>2. IsFiniteSet(Able)
    BY <2>1, FS_Subset
  <2> QED BY <2>1, <2>2 DEF LoopInv, Typed
<1>2. got \in SUBSET Able
  BY <1>1, Elements DEF Range
<1>3. Cardinality(got) = Len(selected) /\ Needed = target - Total(got)
  BY DEF LoopInv, Counted
<1>4. Total(got) <= Total(Able) /\ Total(got) \in Nat /\ Total(Able) \in Nat
  <2>1. IsFiniteSet(got) /\ \A a \in got : value[a] \in Nat
    BY <1>1, <1>2, FS_Subset
  <2> HIDE DEF got
  <2> QED BY <1>1, <1>2, <2>1, SumPart, SumNat DEF Total
<1>5. Total(Able) >= target <=> Total(got) >= target
  <2>1. CASE unselected = << >>
    <3>1. Range(unselected) = {} /\ Range(unselected) = Able \ got
      BY <2>1 DEF LoopInv, Parted, Range
    <3>2. got = Able
      BY <3>1, <1>2
    <3> QED BY <3>2
  <2>2. CASE Needed <= 0
    BY <2>2, <1>1, <1>3, <1>4
  <2> QED BY <2>1, <2>2 DEF LoopInv, Ended
<1>6. target > 0 /\ Total(got) >= target => Needed <= 0 /\ target > 0
  BY <1>1, <1>3, <1>4
<1>7. Finished
  BY DEF LoopInv
<1> QED BY <1>2, <1>3, <1>5, <1>6, <1>7 DEF SelectionCovers, Finished

\* Whatever notes the wallet has and whatever the target is, the notes that
\* select_spendable_notes returns cover the target if the notes that pay for
\* their input do; none is taken twice; the last is the smallest that was
\* enough, and the others are the largest.  An error is returned only if a note
\* has no index or no position, or the wallet is worth more than there is.
THEOREM SelectionAlwaysCovers == Spec => []SelectionCovers
<1>1. Init => LoopInv
  BY InitLoop
<1>2. LoopInv /\ [Next]_vars => LoopInv'
  BY LoopInvKept
<1>3. LoopInv => SelectionCovers
  BY LoopCovers
<1> QED BY <1>1, <1>2, <1>3, PTL DEF Spec
=============================================================================
