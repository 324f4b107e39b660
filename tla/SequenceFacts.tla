---------------------------- MODULE SequenceFacts ----------------------------
(***************************************************************************)
(* Facts about sequences used as channels and queues: what sending         *)
(* (Append) and receiving (Tail) do to the set of elements and to the      *)
(* absence of duplicates; and about sums and folds: the induction over a   *)
(* finite set that they need, and what they are computed from.             *)
(***************************************************************************)
EXTENDS Integers, Sequences, FiniteSetsExt, SequencesExt, SequenceTheorems, FiniteSetTheorems,
        WellFoundedInduction, TLAPS

\* Every element of s is in T.
AllIn(s, T) == \A i \in 1..Len(s) : s[i] \in T

\* No two positions of s hold the same element.
Distinct(s) == \A i, j \in 1..Len(s) : s[i] = s[j] => i = j

\* An empty channel holds nothing.
LEMMA EmptyAllIn ==
  ASSUME NEW T
  PROVE  AllIn(<< >>, T) /\ Distinct(<< >>)
BY DEF AllIn, Distinct

\* A channel holding one message.
LEMMA SingleAllIn ==
  ASSUME NEW S, NEW T, NEW a \in S, a \in T
  PROVE  << a >> \in Seq(S) /\ AllIn(<< a >>, T) /\ Len(<< a >>) = 1
BY DEF AllIn

\* The first message of a channel.
LEMMA HeadAllIn ==
  ASSUME NEW S, NEW T, NEW s \in Seq(S), s # << >>, AllIn(s, T)
  PROVE  s[1] \in S /\ s[1] \in T /\ Head(s) = s[1]
BY DEF AllIn

\* What a channel holds it still holds when seen as a larger set.
LEMMA WiderAllIn ==
  ASSUME NEW s, NEW T, NEW U, AllIn(s, T), T \subseteq U
  PROVE  AllIn(s, U)
BY DEF AllIn

\* Sending a message.
LEMMA AppendAllIn ==
  ASSUME NEW S, NEW T, NEW s \in Seq(S), NEW a \in S, AllIn(s, T), a \in T
  PROVE  Append(s, a) \in Seq(S) /\ AllIn(Append(s, a), T)
<1>1. /\ Append(s, a) \in Seq(S)
      /\ Len(Append(s, a)) = Len(s) + 1
      /\ \A i \in 1..(Len(s) + 1) :
           Append(s, a)[i] = IF i = Len(s) + 1 THEN a ELSE s[i]
  OBVIOUS
<1> QED BY <1>1 DEF AllIn

\* Receiving a message.
LEMMA TailAllIn ==
  ASSUME NEW S, NEW T, NEW s \in Seq(S), s # << >>, AllIn(s, T)
  PROVE  Tail(s) \in Seq(S) /\ AllIn(Tail(s), T)
<1>1. /\ Tail(s) \in Seq(S)
      /\ Len(Tail(s)) = Len(s) - 1
      /\ \A i \in 1..(Len(s) - 1) : Tail(s)[i] = s[i + 1]
  OBVIOUS
<1> QED BY <1>1 DEF AllIn

\* Sending a message that is not in the channel keeps it free of duplicates.
LEMMA AppendDistinct ==
  ASSUME NEW S, NEW s \in Seq(S), NEW a \in S, Distinct(s),
         \A i \in 1..Len(s) : s[i] # a
  PROVE  Distinct(Append(s, a))
<1>1. /\ Len(Append(s, a)) = Len(s) + 1
      /\ \A i \in 1..(Len(s) + 1) :
           Append(s, a)[i] = IF i = Len(s) + 1 THEN a ELSE s[i]
  OBVIOUS
<1> QED BY <1>1 DEF Distinct

\* Receiving from a channel free of duplicates: the message is gone.
LEMMA TailDistinct ==
  ASSUME NEW S, NEW s \in Seq(S), s # << >>, Distinct(s)
  PROVE  Distinct(Tail(s)) /\ \A i \in 1..Len(Tail(s)) : Tail(s)[i] # s[1]
<1>1. /\ Len(Tail(s)) = Len(s) - 1
      /\ \A i \in 1..(Len(s) - 1) : Tail(s)[i] = s[i + 1]
      /\ Len(s) \in Nat \ {0}
  OBVIOUS
<1>2. Distinct(Tail(s))
  BY <1>1 DEF Distinct
<1>3. ASSUME NEW i \in 1..Len(Tail(s))
      PROVE  Tail(s)[i] # s[1]
  <2>1. i + 1 \in 1..Len(s) /\ 1 \in 1..Len(s) /\ i + 1 # 1
    BY <1>1
  <2> QED BY <1>1, <2>1 DEF Distinct
<1> QED BY <1>2, <1>3

\* A nonempty set of naturals has a least element: Iterator::find returns an
\* element whenever one qualifies.
LEMMA LeastNat ==
  ASSUME NEW T, T \subseteq Nat, T # {}
  PROVE  \E x \in T : \A y \in T : x <= y
<1> DEFINE R == OpToRel(<, Nat)
<1>1. \E x \in T : \A y \in T : ~ (<<y, x>> \in R)
  <2>1. IsWellFoundedOn(R, Nat)
    BY NatLessThanWellFounded
  <2> HIDE DEF R
  <2> QED BY <2>1, WFMin
<1>2. PICK x \in T : \A y \in T : ~ (<<y, x>> \in R)
  BY <1>1
<1>3. ASSUME NEW y \in T PROVE x <= y
  <2>1. ~ (<<y, x>> \in R)
    BY <1>2
  <2>2. <<y, x>> \in Nat \X Nat
    OBVIOUS
  <2>3. ~ (y < x)
    BY <2>1, <2>2 DEF OpToRel
  <2> QED BY <2>3
<1> QED BY <1>3

-----------------------------------------------------------------------------
(* Induction, and folds over sets and sequences.                             *)

\* Induction on the naturals, for the set G of those that are shown.
LEMMA NatSetInduction ==
  ASSUME NEW G, 0 \in G, \A n \in Nat : n \in G => n + 1 \in G
  PROVE  \A n \in Nat : n \in G
<1> SUFFICES ASSUME NEW n \in Nat, n \notin G PROVE FALSE
  OBVIOUS
<1> DEFINE bad == {k \in Nat : k \notin G}
<1>1. PICK k \in bad : \A j \in bad : k <= j
  <2>1. bad \subseteq Nat /\ bad # {}
    OBVIOUS
  <2> HIDE DEF bad
  <2> QED BY <2>1, LeastNat
<1>2. k \in Nat /\ k # 0 /\ k \notin G
  OBVIOUS
<1>3. k - 1 \in Nat /\ k - 1 + 1 = k /\ ~(k <= k - 1)
  BY <1>2
<1>4. k - 1 \in G
  BY <1>1, <1>3
<1> QED BY <1>2, <1>3, <1>4

\* Induction on the subsets of a finite set, for the set G of those that are
\* shown.
LEMMA SubsetInduction ==
  ASSUME NEW S, IsFiniteSet(S), NEW G, {} \in G,
         \A T \in SUBSET S : T # {} /\ (\A x \in T : T \ {x} \in G) => T \in G
  PROVE  \A T \in SUBSET S : T \in G
<1> DEFINE K == {n \in Nat : \A T \in SUBSET S : Cardinality(T) = n => T \in G}
<1>1. 0 \in K
  <2>1. ASSUME NEW T \in SUBSET S, Cardinality(T) = 0 PROVE T \in G
    <3>1. IsFiniteSet(T)
      BY FS_Subset
    <3>2. T = {}
      BY <2>1, <3>1, FS_EmptySet
    <3> QED BY <3>2
  <2> QED BY <2>1
<1>2. ASSUME NEW n \in Nat, n \in K PROVE n + 1 \in K
  <2>1. ASSUME NEW T \in SUBSET S, Cardinality(T) = n + 1 PROVE T \in G
    <3>1. IsFiniteSet(T)
      BY FS_Subset
    <3>2. T # {}
      <4>1. Cardinality({}) = 0
        BY FS_EmptySet
      <4> QED BY <2>1, <4>1
    <3>3. ASSUME NEW x \in T PROVE T \ {x} \in G
      <4>1. Cardinality(T \ {x}) = Cardinality(T) - 1
        BY <3>1, FS_RemoveElement
      <4>2. T \ {x} \in SUBSET S /\ Cardinality(T \ {x}) = n
        BY <2>1, <4>1
      <4> QED BY <1>2, <4>2
    <3> QED BY <3>2, <3>3
  <2> QED BY <2>1
<1>3. \A n \in Nat : n \in K
  <2> HIDE DEF K
  <2> QED BY <1>1, <1>2, NatSetInduction
<1> SUFFICES ASSUME NEW T \in SUBSET S PROVE T \in G
  OBVIOUS
<1>4. Cardinality(T) \in Nat
  BY FS_Subset, FS_CardinalityType
<1> QED BY <1>3, <1>4

-----------------------------------------------------------------------------
\* f folds the subsets of S with g, in the order in which c chooses elements.
IsFold(f, g, c, base, S) ==
  f = [s \in SUBSET S |-> IF s = {} THEN base ELSE g[<<c[s], f[s \ {c[s]}]>>]]

\* Every finite set can be folded.
LEMMA FoldExists ==
  ASSUME NEW S, IsFiniteSet(S), NEW g, NEW c, NEW base,
         \A s \in SUBSET S : s # {} => c[s] \in s
  PROVE  \E f : IsFold(f, g, c, base, S)
<1> DEFINE D(n) == {s \in SUBSET S : Cardinality(s) <= n}
           Step(f, s) == IF s = {} THEN base ELSE g[<<c[s], f[s \ {c[s]}]>>]
           K == {n \in Nat : \E f : f = [s \in D(n) |-> Step(f, s)]}
<1>0. \A s \in SUBSET S : IsFiniteSet(s) /\ Cardinality(s) \in Nat
  BY FS_Subset, FS_CardinalityType
<1>1. ASSUME NEW n \in Nat, NEW s \in D(n + 1), s # {} PROVE s \ {c[s]} \in D(n)
  <2>1. Cardinality(s \ {c[s]}) = Cardinality(s) - 1
    BY <1>0, <1>1, FS_RemoveElement
  <2> QED BY <1>0, <1>1, <2>1
<1>2. 0 \in K
  <2> DEFINE f == [s \in D(0) |-> base]
  <2>1. \A s \in D(0) : s = {}
    BY <1>0, FS_EmptySet
  <2>2. \A s \in D(0) : Step(f, s) = base
    BY <2>1
  <2>3. f = [s \in D(0) |-> Step(f, s)]
    BY <2>2
  <2> QED BY <2>3
<1>3. ASSUME NEW n \in Nat, n \in K PROVE n + 1 \in K
  <2>1. PICK f : f = [s \in D(n) |-> Step(f, s)]
    BY <1>3
  <2> DEFINE h == [s \in D(n + 1) |-> Step(f, s)]
  <2>2. D(n) \subseteq D(n + 1)
    BY <1>0
  <2> HIDE DEF D, Step
  <2>3. \A s \in D(n) : h[s] = f[s]
    <3> TAKE s \in D(n)
    <3>1. f[s] = Step(f, s)
      BY <2>1
    <3>2. h[s] = Step(f, s)
      BY <2>2
    <3> QED BY <3>1, <3>2
  <2> HIDE DEF h
  <2>4. \A s \in D(n + 1) : Step(h, s) = Step(f, s)
    BY <1>1, <2>3 DEF Step
  <2>5. h = [s \in D(n + 1) |-> Step(h, s)]
    BY <2>4 DEF h
  <2> QED BY <2>5
<1>4. Cardinality(S) \in K
  <2>1. Cardinality(S) \in Nat
    BY FS_CardinalityType
  <2> HIDE DEF K
  <2> QED BY <1>2, <1>3, <2>1, NatSetInduction
<1>5. D(Cardinality(S)) = SUBSET S
  <2>1. \A s \in SUBSET S : Cardinality(s) <= Cardinality(S)
    BY FS_Subset
  <2> QED BY <2>1
<1>6. PICK f : f = [s \in SUBSET S |-> Step(f, s)]
  BY <1>4, <1>5
<1> QED BY <1>6 DEF IsFold

-----------------------------------------------------------------------------

\* The recursion that computes the sum of v over a set.
Chosen(s) == CHOOSE x \in s : TRUE
IsSum(f, v, S) ==
  f = [s \in SUBSET S |-> IF s = {} THEN 0 ELSE v[Chosen(s)] + f[s \ {Chosen(s)}]]

\* Such a function exists for every finite set of integers.
LEMMA SumExists ==
  ASSUME NEW S, IsFiniteSet(S), NEW v, \A x \in S : v[x] \in Int
  PROVE  \E f : IsSum(f, v, S)
<1> DEFINE g == [p \in S \X Int |-> v[p[1]] + p[2]]
           c == [s \in SUBSET S |-> Chosen(s)]
<1>1. \A s \in SUBSET S : s # {} => c[s] = Chosen(s) /\ c[s] \in s
  BY DEF Chosen
<1>2. PICK f : IsFold(f, g, c, 0, S)
  <2> HIDE DEF g, c
  <2> QED BY <1>1, FoldExists
<1> HIDE DEF c
<1> DEFINE G == {T \in SUBSET S : f[T] \in Int}
<1>3. ASSUME NEW T \in SUBSET S, T # {}, T \ {Chosen(T)} \in G
      PROVE  f[T] = v[Chosen(T)] + f[T \ {Chosen(T)}] /\ T \in G
  <2>1. f[T] = g[<<c[T], f[T \ {c[T]}]>>]
    BY <1>2, <1>3 DEF IsFold
  <2>2. c[T] = Chosen(T) /\ Chosen(T) \in S
    BY <1>1, <1>3
  <2>3. <<Chosen(T), f[T \ {Chosen(T)}]>> \in S \X Int
    BY <1>3, <2>2
  <2>4. f[T] = v[Chosen(T)] + f[T \ {Chosen(T)}]
    BY <2>1, <2>2, <2>3
  <2> QED BY <1>3, <2>2, <2>4
<1>4. {} \in G
  BY <1>2 DEF IsFold
<1>5. \A T \in SUBSET S : T \in G
  <2>1. ASSUME NEW T \in SUBSET S, T # {}, \A x \in T : T \ {x} \in G
        PROVE  T \in G
    <3>1. Chosen(T) \in T
      BY <2>1 DEF Chosen
    <3> QED BY <1>3, <2>1, <3>1
  <2> HIDE DEF G
  <2> QED BY <1>4, <2>1, SubsetInduction
<1>6. \A T \in SUBSET S : f[T] = IF T = {} THEN 0 ELSE v[Chosen(T)] + f[T \ {Chosen(T)}]
  <2> TAKE T \in SUBSET S
  <2>1. CASE T = {}
    BY <1>2, <2>1 DEF IsFold
  <2>2. CASE T # {}
    BY <1>3, <1>5, <2>2
  <2> QED BY <2>1, <2>2
<1>7. f = [s \in SUBSET S |-> f[s]]
  BY <1>2 DEF IsFold
<1>8. f = [s \in SUBSET S |-> IF s = {} THEN 0 ELSE v[Chosen(s)] + f[s \ {Chosen(s)}]]
  <2> HIDE DEF G, g
  <2> QED BY <1>6, <1>7
<1> QED BY <1>8 DEF IsSum

\* The sum over a set is what its recursion gives.
LEMMA SumIs ==
  ASSUME NEW S, IsFiniteSet(S), NEW v, \A x \in S : v[x] \in Int
  PROVE  \E f : IsSum(f, v, S) /\ SumFunctionOnSet(v, S) = f[S]
<1> DEFINE g == CHOOSE f : IsSum(f, v, S)
<1>1. IsSum(g, v, S)
  BY SumExists
<1>2. SumFunctionOnSet(v, S) = g[S]
  BY DEF SumFunctionOnSet, FoldFunctionOnSet, MapThenFoldSet, IsSum, Chosen
<1> QED BY <1>1, <1>2

\* Two such functions agree where both are defined.
LEMMA SumsAgree ==
  ASSUME NEW S, NEW T, NEW v, NEW f, NEW h, IsSum(f, v, S), IsSum(h, v, T),
         IsFiniteSet(S), S \subseteq T
  PROVE  f[S] = h[S]
<1> DEFINE G == {s \in SUBSET S : f[s] = h[s]}
<1>1. \A s \in SUBSET S : /\ f[s] = IF s = {} THEN 0 ELSE v[Chosen(s)] + f[s \ {Chosen(s)}]
                          /\ h[s] = IF s = {} THEN 0 ELSE v[Chosen(s)] + h[s \ {Chosen(s)}]
  BY DEF IsSum
<1>2. {} \in G
  BY <1>1
<1>3. ASSUME NEW s \in SUBSET S, s # {}, \A x \in s : s \ {x} \in G
      PROVE  s \in G
  <2>1. Chosen(s) \in s
    BY <1>3 DEF Chosen
  <2> QED BY <1>1, <1>3, <2>1
<1>4. \A s \in SUBSET S : s \in G
  <2> HIDE DEF G
  <2> QED BY <1>2, <1>3, SubsetInduction
<1> QED BY <1>4

\* The sum over nothing.
LEMMA SumEmpty ==
  ASSUME NEW v
  PROVE  SumFunctionOnSet(v, {}) = 0
<1>1. PICK f : IsSum(f, v, {}) /\ SumFunctionOnSet(v, {}) = f[{}]
  BY SumIs, FS_EmptySet
<1> QED BY <1>1 DEF IsSum

\* One element taken out: the one that is chosen first.
LEMMA SumChosen ==
  ASSUME NEW S, IsFiniteSet(S), NEW v, \A x \in S : v[x] \in Int, S # {}
  PROVE  SumFunctionOnSet(v, S) = v[Chosen(S)] + SumFunctionOnSet(v, S \ {Chosen(S)})
<1> DEFINE R == S \ {Chosen(S)}
<1>1. IsFiniteSet(R) /\ R \subseteq S
  BY FS_Subset
<1>2. PICK f : IsSum(f, v, S) /\ SumFunctionOnSet(v, S) = f[S]
  BY SumIs
<1>3. PICK h : IsSum(h, v, R) /\ SumFunctionOnSet(v, R) = h[R]
  <2> HIDE DEF R
  <2> QED BY <1>1, SumIs
<1>4. h[R] = f[R]
  <2> HIDE DEF R
  <2> QED BY <1>1, <1>2, <1>3, SumsAgree
<1>5. f[S] = v[Chosen(S)] + f[R]
  BY <1>2 DEF IsSum
<1> QED BY <1>2, <1>3, <1>4, <1>5

\* A sum of integers is one.
LEMMA SumInt ==
  ASSUME NEW S, IsFiniteSet(S), NEW v, \A x \in S : v[x] \in Int
  PROVE  SumFunctionOnSet(v, S) \in Int
<1> DEFINE G == {T \in SUBSET S : SumFunctionOnSet(v, T) \in Int}
<1>1. {} \in G
  BY SumEmpty
<1>2. ASSUME NEW T \in SUBSET S, T # {}, \A x \in T : T \ {x} \in G
      PROVE  T \in G
  <2>1. Chosen(T) \in T
    BY <1>2 DEF Chosen
  <2>2. SumFunctionOnSet(v, T) = v[Chosen(T)] + SumFunctionOnSet(v, T \ {Chosen(T)})
    BY <1>2, SumChosen, FS_Subset
  <2> QED BY <1>2, <2>1, <2>2
<1>3. \A T \in SUBSET S : T \in G
  <2> HIDE DEF G
  <2> QED BY <1>1, <1>2, SubsetInduction
<1> QED BY <1>3

\* One element taken out, whichever it is.
LEMMA SumRemove ==
  ASSUME NEW S, IsFiniteSet(S), NEW v, \A x \in S : v[x] \in Int, NEW x \in S
  PROVE  SumFunctionOnSet(v, S) = v[x] + SumFunctionOnSet(v, S \ {x})
<1> DEFINE G == {T \in SUBSET S : \A y \in T : SumFunctionOnSet(v, T) = v[y] + SumFunctionOnSet(v, T \ {y})}
<1>1. {} \in G
  OBVIOUS
<1>2. ASSUME NEW T \in SUBSET S, T # {}, \A y \in T : T \ {y} \in G
      PROVE  T \in G
  <2> SUFFICES ASSUME NEW y \in T PROVE SumFunctionOnSet(v, T) = v[y] + SumFunctionOnSet(v, T \ {y})
    OBVIOUS
  <2> DEFINE a == Chosen(T)
             R == (T \ {a}) \ {y}
  <2>1. a \in T
    BY <1>2 DEF Chosen
  <2>2. SumFunctionOnSet(v, T) = v[a] + SumFunctionOnSet(v, T \ {a})
    BY <1>2, SumChosen, FS_Subset
  <2> HIDE DEF a
  <2>3. CASE a = y
    BY <2>2, <2>3
  <2>4. CASE a # y
    <3>1. y \in T \ {a} /\ a \in T \ {y} /\ (T \ {y}) \ {a} = R
      BY <2>1, <2>4
    <3>2. T \ {a} \in G /\ T \ {y} \in G
      BY <1>2, <2>1
    <3>3. SumFunctionOnSet(v, T \ {a}) = v[y] + SumFunctionOnSet(v, R)
      BY <3>1, <3>2
    <3>4. SumFunctionOnSet(v, T \ {y}) = v[a] + SumFunctionOnSet(v, R)
      BY <3>1, <3>2
    <3>5. SumFunctionOnSet(v, R) \in Int /\ v[a] \in Int /\ v[y] \in Int
      <4>1. IsFiniteSet(R) /\ \A z \in R : v[z] \in Int
        BY FS_Subset
      <4> HIDE DEF R
      <4> QED BY <2>1, <4>1, SumInt
    <3> QED BY <2>2, <3>3, <3>4, <3>5
  <2> QED BY <2>3, <2>4
<1>3. \A T \in SUBSET S : T \in G
  <2> HIDE DEF G
  <2> QED BY <1>1, <1>2, SubsetInduction
<1> QED BY <1>3

\* One element more.
LEMMA SumAdd ==
  ASSUME NEW S, IsFiniteSet(S), NEW v, \A y \in S : v[y] \in Int,
         NEW x, x \notin S, v[x] \in Int
  PROVE  SumFunctionOnSet(v, S \cup {x}) = SumFunctionOnSet(v, S) + v[x]
<1> DEFINE U == S \cup {x}
<1>1. IsFiniteSet(U) /\ U \ {x} = S /\ x \in U /\ \A y \in U : v[y] \in Int
  <2>1. IsFiniteSet(U)
    BY FS_AddElement
  <2>2. U \ {x} = S
    OBVIOUS
  <2> QED BY <2>1, <2>2
<1> HIDE DEF U
<1>2. SumFunctionOnSet(v, U) = v[x] + SumFunctionOnSet(v, U \ {x})
  BY <1>1, SumRemove
<1>3. SumFunctionOnSet(v, S) \in Int
  BY SumInt
<1>4. U \ {x} = S
  BY <1>1
<1>5. SumFunctionOnSet(v, U) = v[x] + SumFunctionOnSet(v, S)
  BY <1>2, <1>4, Zenon
<1>6. SumFunctionOnSet(v, U) = SumFunctionOnSet(v, S) + v[x]
  BY <1>3, <1>5
<1> QED BY <1>6 DEF U

\* The sum depends on the values alone.
LEMMA SumSame ==
  ASSUME NEW S, IsFiniteSet(S), NEW v, NEW w,
         \A x \in S : v[x] \in Int /\ v[x] = w[x]
  PROVE  SumFunctionOnSet(v, S) = SumFunctionOnSet(w, S)
<1> DEFINE G == {T \in SUBSET S : SumFunctionOnSet(v, T) = SumFunctionOnSet(w, T)}
<1>1. {} \in G
  BY SumEmpty
<1>2. ASSUME NEW T \in SUBSET S, T # {}, \A x \in T : T \ {x} \in G
      PROVE  T \in G
  <2>1. PICK x \in T : TRUE
    BY <1>2
  <2>2. IsFiniteSet(T) /\ \A y \in T : v[y] \in Int /\ w[y] \in Int
    BY FS_Subset
  <2>3. SumFunctionOnSet(v, T) = v[x] + SumFunctionOnSet(v, T \ {x})
    BY <2>2, SumRemove
  <2>4. SumFunctionOnSet(w, T) = w[x] + SumFunctionOnSet(w, T \ {x})
    BY <2>2, SumRemove
  <2> QED BY <1>2, <2>3, <2>4
<1>3. \A T \in SUBSET S : T \in G
  <2> HIDE DEF G
  <2> QED BY <1>1, <1>2, SubsetInduction
<1> QED BY <1>3

\* The sum over two sets that have nothing in common.
LEMMA SumUnion ==
  ASSUME NEW S, IsFiniteSet(S), NEW T, IsFiniteSet(T), S \cap T = {},
         NEW v, \A x \in S \cup T : v[x] \in Int
  PROVE  SumFunctionOnSet(v, S \cup T) = SumFunctionOnSet(v, S) + SumFunctionOnSet(v, T)
<1> DEFINE G == {R \in SUBSET T : SumFunctionOnSet(v, S \cup R) = SumFunctionOnSet(v, S) + SumFunctionOnSet(v, R)}
<1>0. SumFunctionOnSet(v, S) \in Int
  BY SumInt
<1>1. {} \in G
  <2>1. S \cup {} = S
    OBVIOUS
  <2> QED BY <1>0, <2>1, SumEmpty
<1>2. ASSUME NEW R \in SUBSET T, R # {}, \A x \in R : R \ {x} \in G
      PROVE  R \in G
  <2>1. PICK x \in R : TRUE
    BY <1>2
  <2> DEFINE P == R \ {x}
  <2>2. /\ P \in SUBSET T /\ IsFiniteSet(P) /\ x \notin P /\ P \cup {x} = R
        /\ IsFiniteSet(S \cup P) /\ x \notin S \cup P /\ (S \cup P) \cup {x} = S \cup R
        /\ v[x] \in Int /\ \A y \in S \cup P : v[y] \in Int
    <3>1. IsFiniteSet(P)
      BY FS_Subset
    <3>2. IsFiniteSet(S \cup P)
      BY <3>1, FS_Union
    <3>3. \A y \in S \cup P : v[y] \in Int
      OBVIOUS
    <3>4. x \notin S \cup P /\ (S \cup P) \cup {x} = S \cup R /\ P \cup {x} = R
      OBVIOUS
    <3> QED BY <3>1, <3>2, <3>3, <3>4
  <2>3. SumFunctionOnSet(v, S \cup P) = SumFunctionOnSet(v, S) + SumFunctionOnSet(v, P)
    BY <1>2
  <2> HIDE DEF P
  <2>4. SumFunctionOnSet(v, R) = SumFunctionOnSet(v, P) + v[x] /\ SumFunctionOnSet(v, P) \in Int
    BY <2>2, SumAdd, SumInt
  <2>5. SumFunctionOnSet(v, S \cup R) = SumFunctionOnSet(v, S \cup P) + v[x]
    <3> DEFINE U == S \cup P
    <3> HIDE DEF U
    <3>1. IsFiniteSet(U) /\ x \notin U /\ U \cup {x} = S \cup R /\ \A y \in U : v[y] \in Int
      BY <2>2 DEF U
    <3>2. SumFunctionOnSet(v, U \cup {x}) = SumFunctionOnSet(v, U) + v[x]
      BY <2>2, <3>1, SumAdd
    <3> QED BY <3>1, <3>2 DEF U
  <2> QED BY <1>0, <2>2, <2>3, <2>4, <2>5
<1>3. \A R \in SUBSET T : R \in G
  <2> HIDE DEF G
  <2> QED BY <1>1, <1>2, SubsetInduction
<1> QED BY <1>3

\* A sum of amounts is one.
LEMMA SumNat ==
  ASSUME NEW S, IsFiniteSet(S), NEW v, \A x \in S : v[x] \in Nat
  PROVE  SumFunctionOnSet(v, S) \in Nat
<1> DEFINE G == {T \in SUBSET S : SumFunctionOnSet(v, T) \in Nat}
<1>1. {} \in G
  BY SumEmpty
<1>2. ASSUME NEW T \in SUBSET S, T # {}, \A x \in T : T \ {x} \in G
      PROVE  T \in G
  <2>1. PICK x \in T : TRUE
    BY <1>2
  <2>2. IsFiniteSet(T) /\ \A y \in T : v[y] \in Int
    BY FS_Subset
  <2>3. SumFunctionOnSet(v, T) = v[x] + SumFunctionOnSet(v, T \ {x})
    BY <2>2, SumRemove
  <2> QED BY <1>2, <2>1, <2>3
<1>3. \A T \in SUBSET S : T \in G
  <2> HIDE DEF G
  <2> QED BY <1>1, <1>2, SubsetInduction
<1> QED BY <1>3

\* A part of a set is not worth more than all of it.
LEMMA SumPart ==
  ASSUME NEW T, IsFiniteSet(T), NEW v, \A x \in T : v[x] \in Nat, NEW S \in SUBSET T
  PROVE  SumFunctionOnSet(v, S) <= SumFunctionOnSet(v, T)
<1> DEFINE R == T \ S
<1>1. IsFiniteSet(S) /\ IsFiniteSet(R) /\ S \cap R = {} /\ S \cup R = T /\ R \subseteq T
  BY FS_Subset
<1> HIDE DEF R
<1>2. SumFunctionOnSet(v, S) \in Nat /\ SumFunctionOnSet(v, R) \in Nat
  BY <1>1, SumNat
<1>3. SumFunctionOnSet(v, S \cup R) = SumFunctionOnSet(v, S) + SumFunctionOnSet(v, R)
  <2>1. \A x \in S \cup R : v[x] \in Int
    BY <1>1
  <2> QED BY <1>1, <2>1, SumUnion
<1>4. SumFunctionOnSet(v, T) = SumFunctionOnSet(v, S) + SumFunctionOnSet(v, R)
  BY <1>1, <1>3
<1> QED BY <1>2, <1>4
-----------------------------------------------------------------------------

\* The largest of finitely many numbers.
LEMMA MaxIs ==
  ASSUME NEW S, IsFiniteSet(S), S \subseteq Nat, S # {}
  PROVE  Max(S) \in S /\ \A y \in S : Max(S) >= y
<1> DEFINE G == {T \in SUBSET S : T # {} => \E x \in T : \A y \in T : x >= y}
<1>1. {} \in G
  OBVIOUS
<1>2. ASSUME NEW T \in SUBSET S, T # {}, \A x \in T : T \ {x} \in G
      PROVE  T \in G
  <2>1. PICK a \in T : TRUE
    BY <1>2
  <2>2. CASE T \ {a} = {}
    BY <2>2
  <2>3. CASE T \ {a} # {}
    <3>1. PICK b \in T \ {a} : \A y \in T \ {a} : b >= y
      BY <1>2, <2>3
    <3>2. CASE a >= b
      <4>1. \A y \in T : a >= y
        BY <3>1, <3>2
      <4> QED BY <4>1
    <3>3. CASE ~(a >= b)
      <4>1. \A y \in T : b >= y
        BY <3>1, <3>3
      <4> QED BY <4>1
    <3> QED BY <3>2, <3>3
  <2> QED BY <2>2, <2>3
<1>3. \A T \in SUBSET S : T \in G
  <2> HIDE DEF G
  <2> QED BY <1>1, <1>2, SubsetInduction
<1>4. \E x \in S : \A y \in S : x >= y
  BY <1>3
<1> QED BY <1>4 DEF Max

\* The order in which FoldLeft takes the elements of a sequence of length n.
LastFirst(n) == [s \in SUBSET (1 .. n) |-> Max(s)]

\* A sequence can be folded.
LEMMA FoldLeftExists ==
  ASSUME NEW n \in Nat, NEW g, NEW base
  PROVE  \E f : IsFold(f, g, LastFirst(n), base, 1 .. n)
<1>1. IsFiniteSet(1 .. n)
  BY FS_Interval
<1>2. \A s \in SUBSET (1 .. n) : s # {} => LastFirst(n)[s] \in s
  <2> TAKE s \in SUBSET (1 .. n)
  <2>1. IsFiniteSet(s)
    BY <1>1, FS_Subset
  <2>2. s \subseteq Nat
    OBVIOUS
  <2>3. s # {} => Max(s) \in s
    BY <2>1, <2>2, MaxIs
  <2> QED BY <2>3 DEF LastFirst
<1> QED BY <1>1, <1>2, FoldExists

\* The first k places of a sequence, and the last of them.
LEMMA FirstPlaces ==
  ASSUME NEW n \in Nat, NEW k \in 1 .. n
  PROVE  /\ 1 .. k \in SUBSET (1 .. n) /\ 1 .. k # {}
         /\ Max(1 .. k) = k /\ (1 .. k) \ {k} = 1 .. (k - 1)
<1>0. k \in Nat /\ k >= 1 /\ k <= n
  OBVIOUS
<1> DEFINE s == 1 .. k
<1>1. s \in SUBSET (1 .. n) /\ s # {} /\ k \in s /\ s \subseteq Nat
  <2>1. \A y \in s : y \in 1 .. n /\ y \in Nat
    BY <1>0
  <2>2. k \in s
    BY <1>0
  <2> QED BY <2>1, <2>2
<1>2. IsFiniteSet(s)
  BY <1>0, FS_Interval
<1>3. \A y \in s : y \in Nat /\ y <= k
  BY <1>0
<1>4. s \ {k} = 1 .. (k - 1)
  BY <1>0
<1> HIDE DEF s
<1>5. Max(s) \in s /\ Max(s) >= k
  BY <1>1, <1>2, MaxIs
<1>6. Max(s) = k
  BY <1>0, <1>3, <1>5
<1> QED BY <1>1, <1>4, <1>6 DEF s

\* One element after the other.
LEMMA FoldLeftTurns ==
  ASSUME NEW n \in Nat, NEW g, NEW base, NEW f, IsFold(f, g, LastFirst(n), base, 1 .. n)
  PROVE  /\ f[1 .. 0] = base
         /\ \A k \in 1 .. n : f[1 .. k] = g[<<k, f[1 .. (k - 1)]>>]
<1>1. 1 .. 0 = {} /\ 1 .. 0 \in SUBSET (1 .. n)
  OBVIOUS
<1>2. ASSUME NEW k \in 1 .. n PROVE f[1 .. k] = g[<<k, f[1 .. (k - 1)]>>]
  <2> DEFINE s == 1 .. k
             r == 1 .. (k - 1)
  <2>1. s \in SUBSET (1 .. n) /\ s # {} /\ Max(s) = k /\ s \ {k} = r
    BY FirstPlaces
  <2> HIDE DEF s, r
  <2>2. f[s] = g[<<LastFirst(n)[s], f[s \ {LastFirst(n)[s]}]>>]
    BY <2>1 DEF IsFold
  <2>3. LastFirst(n)[s] = k
    BY <2>1 DEF LastFirst
  <2>4. f[s] = g[<<k, f[s \ {k}]>>]
    BY <2>2, <2>3
  <2>5. f[s] = g[<<k, f[r]>>]
    BY <2>1, <2>4, Zenon
  <2> QED BY <2>5 DEF s, r
<1>3. f[1 .. 0] = base
  BY <1>1 DEF IsFold
<1> QED BY <1>2, <1>3

\* The function a fold of n places computes, within the set T.
IsTypedFold(f, g, base, n, T) ==
  /\ f \in [SUBSET (1 .. n) -> T] /\ f[{}] = base
  /\ \A s \in SUBSET (1 .. n) : s # {} =>
       Max(s) \in 1 .. n /\ f[s] = g[<<Max(s), f[s \ {Max(s)}]>>]

\* A sequence of length n is folded within the set T that g stays in.
LEMMA FoldLeftTyped ==
  ASSUME NEW n \in Nat, NEW T, NEW base \in T, NEW g \in [(1 .. n) \X T -> T]
  PROVE  \E f : IsTypedFold(f, g, base, n, T)
<1>1. PICK f : IsFold(f, g, LastFirst(n), base, 1 .. n)
  BY FoldLeftExists
<1>2. \A s \in SUBSET (1 .. n) : s # {} => Max(s) \in s
  <2> TAKE s \in SUBSET (1 .. n)
  <2>1. IsFiniteSet(1 .. n)
    BY FS_Interval
  <2>2. IsFiniteSet(s)
    BY <2>1, FS_Subset
  <2>3. s \subseteq Nat
    OBVIOUS
  <2> QED BY <2>2, <2>3, MaxIs
<1>3. ASSUME NEW s \in SUBSET (1 .. n), s # {}
      PROVE  Max(s) \in 1 .. n /\ f[s] = g[<<Max(s), f[s \ {Max(s)}]>>]
  <2>1. LastFirst(n)[s] = Max(s)
    BY DEF LastFirst
  <2>2. f[s] = g[<<LastFirst(n)[s], f[s \ {LastFirst(n)[s]}]>>]
    BY <1>1, <1>3 DEF IsFold
  <2>3. f[s] = g[<<Max(s), f[s \ {Max(s)}]>>]
    BY <2>1, <2>2
  <2>4. Max(s) \in s
    BY <1>2, <1>3
  <2> QED BY <2>3, <2>4
<1>4. f[{}] = base /\ DOMAIN f = SUBSET (1 .. n) /\ f = [s \in SUBSET (1 .. n) |-> f[s]]
  BY <1>1 DEF IsFold
<1> DEFINE G == {s \in SUBSET (1 .. n) : f[s] \in T}
<1>5. {} \in G
  BY <1>4
<1>6. ASSUME NEW s \in SUBSET (1 .. n), s # {}, \A x \in s : s \ {x} \in G
      PROVE  s \in G
  <2>1. Max(s) \in s /\ Max(s) \in 1 .. n
    BY <1>2, <1>6
  <2>2. f[s \ {Max(s)}] \in T
    BY <1>6, <2>1
  <2>3. g[<<Max(s), f[s \ {Max(s)}]>>] \in T
    BY <2>1, <2>2
  <2> QED BY <1>3, <1>6, <2>3
<1>7. \A s \in SUBSET (1 .. n) : s \in G
  <2>1. IsFiniteSet(1 .. n)
    BY FS_Interval
  <2> HIDE DEF G
  <2> QED BY <1>5, <1>6, <2>1, SubsetInduction
<1>8. f \in [SUBSET (1 .. n) -> T]
  <2>1. \A s \in SUBSET (1 .. n) : f[s] \in T
    BY <1>7
  <2> QED BY <1>4, <2>1
<1> QED BY <1>3, <1>4, <1>8 DEF IsTypedFold

\* The elements of a sequence.
LEMMA Elements ==
  ASSUME NEW S, NEW s \in Seq(S)
  PROVE  Len(s) \in Nat /\ DOMAIN s = 1 .. Len(s) /\ \A i \in 1 .. Len(s) : s[i] \in S
<1>1. Len(s) \in Nat
  OBVIOUS
<1>2. DOMAIN s = 1 .. Len(s)
  OBVIOUS
<1>3. \A i \in 1 .. Len(s) : s[i] \in S
  OBVIOUS
<1> QED BY <1>1, <1>2, <1>3

\* One element more.
LEMMA AppendRange ==
  ASSUME NEW S, NEW s \in Seq(S), NEW e \in S
  PROVE  Range(s) \subseteq Range(Append(s, e)) /\ e \in Range(Append(s, e))
<1>1. Len(s) \in Nat /\ DOMAIN s = 1 .. Len(s) /\ DOMAIN Append(s, e) = 1 .. (Len(s) + 1)
  OBVIOUS
<1>2. \A j \in 1 .. Len(s) : Append(s, e)[j] = s[j]
  OBVIOUS
<1>3. Append(s, e)[Len(s) + 1] = e
  OBVIOUS
<1>4. DOMAIN s \subseteq DOMAIN Append(s, e) /\ Len(s) + 1 \in DOMAIN Append(s, e)
  BY <1>1
<1> QED BY <1>1, <1>2, <1>3, <1>4 DEF Range
=============================================================================
