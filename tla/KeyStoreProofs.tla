----------------------------- MODULE KeyStoreProofs ----------------------------
(***************************************************************************)
(* Proofs about the keys and addresses of a wallet, for any callers, keys, *)
(* files of older versions, requests and bounds.                           *)
(*                                                                         *)
(* What the state is made of (Types), who holds the flag of new_address    *)
(* (Holding), that a wallet has receivers of its own keys only (OwnKeys)   *)
(* and that a transparent one is noted before it is used (Noted) hold      *)
(* always.  Places are indices (Placed) in every wallet whose transparent  *)
(* key is that of its account: the addresses of a file are derived with    *)
(* the key its version says, whatever key the wallet has afterwards.  That *)
(* the memos name the addresses used (Named) needs memos that fit and      *)
(* proposals that are sent at once.                                        *)
(***************************************************************************)
EXTENDS KeyStore, SequenceFacts

-----------------------------------------------------------------------------
(* The inductive invariants.                                                  *)

TransparentKeys == {k \in Seq(Nat) : Len(k) \in 1 .. 2}
Selections == SUBSET Pools
Addresses == UNION {[D -> Seq(Nat)] : D \in SUBSET Pools}
Files == [version : 1 .. 4, keys : [Pools -> Powers], tkey : TransparentKeys, account : Nat,
          seed : BOOLEAN, trees : BOOLEAN, rejections : Nat, selections : Seq(0 .. 7)]
CallerStates == [pc : Pcs, want : SUBSET Pools, got : Addresses, before : Nat]
Sends == [memo : Seq(Nat), used : Nat]

Types ==
  /\ keys \in UnifiedKeyStores \cup {NoWallet}
  /\ tkey \in TransparentKeys /\ ivk \in TransparentKeys \cup {NoIvk} /\ account \in Nat
  /\ unified \in Seq(Addresses) /\ children \in Seq(Nat \X Seq(Nat))
  /\ rejections \in Seq(Seq(Nat))
  /\ lock \in BOOLEAN /\ caller \in [Callers -> CallerStates]
  /\ file \in Files \cup {NoFile}
  /\ proposal \in [memo : Seq(Nat), tex : Nat, at : Nat]
  /\ chain \in Seq(Sends)

\* The flag is set while a caller is inside new_address, and then there is no
\* other one.
Holding ==
  /\ keys = NoWallet => unified = <<>> /\ rejections = <<>> /\ proposal.tex = 0
  /\ \A c \in Callers : caller[c].pc = "idle" \/ (lock /\ keys # NoWallet)
  /\ \A c, d \in Callers : caller[c].pc = "idle" \/ caller[d].pc = "idle" \/ c = d
  /\ \A c \in Callers : caller[c].pc = "idle" => DOMAIN caller[c].got = {}

\* What was derived, the keys of the wallet can derive.
OwnKeys ==
  keys # NoWallet =>
    /\ \A i \in DOMAIN unified : /\ DOMAIN unified[i] \subseteq CanView(keys)
                                 /\ ~(DOMAIN unified[i] \subseteq {"transparent"})
    /\ \A c \in Callers : DOMAIN caller[c].got \subseteq CanView(keys)
    /\ rejections # <<>> => "transparent" \in CanView(keys)
    /\ proposal.tex > 0 => CanSpend(keys)
    /\ ivk # NoIvk => "transparent" \in CanView(keys)

\* A transparent receiver is among the children when the address is made.
Noted ==
  /\ ChildrenListed
  /\ \A c \in Callers : "transparent" \in DOMAIN caller[c].got =>
       <<Len(unified), caller[c].got["transparent"]>> \in Range(children)

\* With the key of the account, the lists and what callers hold are at their places.
OwnPlaced ==
  /\ PositionIsIndex /\ KeyOf(tkey, account, keys)
  /\ \A c \in Callers : \A p \in DOMAIN caller[c].got :
       caller[c].got[p] = <<account, 0, Len(unified)>>

FileKnown(f) == f = NoFile \/ f \in LegacyFiles \/ (f.version = 4 /\ f.keys \in UnifiedKeyStores)

Placed == FileKnown(file) /\ (KeyOf(tkey, account, keys) => OwnPlaced)

\* The first index a memo lists is the one that is, or was, used.
Names(memo, index) == memo # <<>> /\ memo[1] = index

Named ==
  /\ proposal.tex > 0 => Names(proposal.memo, proposal.at)
  /\ \A s \in DOMAIN chain : Names(chain[s].memo, chain[s].used)

StoreInv == Types /\ Holding /\ OwnKeys /\ Noted

-----------------------------------------------------------------------------
(* Conditions on the constants.                                               *)

\* The memo of every request with TEX recipients fits, whatever the indices.
MemosFit ==
  \A r \in Requests, n \in Nat :
    r.tex > 0 => ~(MemoSize(r.uas, [i \in 1 .. r.tex |-> n + i - 1]) > MemoBytes)

-----------------------------------------------------------------------------
(* The operators.                                                             *)

\* A key store says what each pool can do, and a viewing or spending store is
\* read as it was written.
LEMMA StoreFacts ==
  ASSUME NEW ks \in UnifiedKeyStores
  PROVE  /\ ks \in [Pools -> Powers] /\ ks # NoWallet
         /\ \A f : f.keys = ks /\ ~Legacy(f) => ReadKeys(f) = ks
<1>1. ks \in [Pools -> Powers]
  BY DEF UnifiedKeyStores, Powers
<1>2. ks # NoWallet
  <2>1. DOMAIN ks = Pools /\ DOMAIN NoWallet = {} /\ "orchard" \in Pools
    BY <1>1 DEF NoWallet, Pools
  <2> QED BY <2>1
<1>3. ASSUME NEW f, f.keys = ks, ~Legacy(f) PROVE ReadKeys(f) = ks
  BY <1>3 DEF ReadKeys
<1> QED BY <1>1, <1>2, <1>3

\* What a wallet with spending keys can do.
LEMMA SpendViews ==
  ASSUME NEW ks, CanSpend(ks)
  PROVE  "transparent" \in CanView(ks)
BY DEF CanSpend, CanView, Pools

\* A receiver is a path.
LEMMA ReceiverType ==
  ASSUME NEW p, NEW tk \in TransparentKeys, NEW legacy, NEW i \in Nat
  PROVE  Receiver(p, tk, legacy, i) \in Seq(Nat)
<1>1. tk \in Seq(Nat) /\ Len(tk) >= 1 /\ Head(tk) \in Nat
  BY DEF TransparentKeys
<1>2. <<Head(tk), 0, i>> \in Seq(Nat)
  BY <1>1
<1>3. Append(tk, i) \in Seq(Nat)
  BY <1>1
<1>4. <<0, i>> \in Seq(Nat)
  OBVIOUS
<1>5. tk \o <<0, i>> \in Seq(Nat)
  BY <1>1, <1>4
<1> QED BY <1>2, <1>3, <1>5 DEF Receiver

\* The pools of an address.
Seen(want, ks) == want \cap CanView(ks)

\* The receivers of an address.
LEMMA ReceiversType ==
  ASSUME NEW ks, NEW tk, tk \in TransparentKeys, NEW legacy, NEW want, want \in Selections,
         NEW i, i \in Nat
  PROVE  /\ Receivers(ks, tk, legacy, want, i) \in Addresses
         /\ DOMAIN Receivers(ks, tk, legacy, want, i) = Seen(want, ks)
<1>a. want \in SUBSET Pools
  BY DEF Selections
<1> DEFINE D == want \cap CanView(ks)
<1>1. \A p \in D : Receiver(p, tk, legacy, i) \in Seq(Nat)
  BY ReceiverType
<1>2. Receivers(ks, tk, legacy, want, i) = [p \in D |-> Receiver(p, tk, legacy, i)]
  BY DEF Receivers
<1>3. D \in SUBSET Pools
  BY <1>a
<1> HIDE DEF D
<1>4. [p \in D |-> Receiver(p, tk, legacy, i)] \in [D -> Seq(Nat)]
  BY <1>1
<1>5. Receivers(ks, tk, legacy, want, i) \in Addresses
  BY <1>2, <1>3, <1>4 DEF Addresses
<1>6. DOMAIN Receivers(ks, tk, legacy, want, i) = D
  BY <1>2
<1> QED BY <1>5, <1>6 DEF D, Seen

\* An address is a function from some pools to paths.
LEMMA AddressFacts ==
  ASSUME NEW a \in Addresses
  PROVE  /\ DOMAIN a \in SUBSET Pools /\ a = [p \in DOMAIN a |-> a[p]]
         /\ \A p \in DOMAIN a : a[p] \in Seq(Nat)
BY DEF Addresses

\* One receiver more.
LEMMA AddReceiver ==
  ASSUME NEW a \in Addresses, NEW p \in Pools, NEW r \in Seq(Nat)
  PROVE  /\ With(a, p, r) \in Addresses /\ DOMAIN With(a, p, r) = DOMAIN a \cup {p}
         /\ With(a, p, r)[p] = r /\ \A q \in DOMAIN a \ {p} : With(a, p, r)[q] = a[q]
<1>1. \A q \in DOMAIN a \cup {p} : (IF q = p THEN r ELSE a[q]) \in Seq(Nat)
  BY AddressFacts
<1>2. With(a, p, r) \in [DOMAIN a \cup {p} -> Seq(Nat)]
  BY <1>1 DEF With
<1>3. DOMAIN a \cup {p} \in SUBSET Pools
  BY AddressFacts
<1>4. With(a, p, r) \in Addresses
  BY <1>2, <1>3 DEF Addresses
<1> QED BY <1>4 DEF With

\* New rejection addresses come after the ones there are, each at its index.
LEMMA RejectionFacts ==
  ASSUME NEW rs \in Seq(Seq(Nat)), NEW tk \in TransparentKeys, NEW n \in Nat
  PROVE  LET more == MoreRejections(rs, tk, n)
         IN /\ more \in Seq(Seq(Nat)) /\ Len(more) = Len(rs) + n
            /\ \A i \in 1 .. Len(rs) : more[i] = rs[i]
            /\ \A i \in Len(rs) + 1 .. Len(rs) + n : more[i] = tk \o <<2, i - 1>>
<1> DEFINE new == [i \in 1 .. n |-> RejectionAddress(tk, Len(rs) + i - 1)]
<1>1. Len(rs) \in Nat
  OBVIOUS
<1>2. ASSUME NEW i \in 1 .. n PROVE RejectionAddress(tk, Len(rs) + i - 1) \in Seq(Nat)
  <2>1. Len(rs) + i - 1 \in Nat
    BY <1>1
  <2>2. <<2, Len(rs) + i - 1>> \in Seq(Nat)
    BY <2>1
  <2>3. tk \in Seq(Nat)
    BY DEF TransparentKeys
  <2> QED BY <2>2, <2>3 DEF RejectionAddress
<1>3. new \in Seq(Seq(Nat)) /\ Len(new) = n
  BY <1>2
<1>4. \A i \in 1 .. n : new[i] = tk \o <<2, Len(rs) + i - 1>>
  BY DEF RejectionAddress
<1>5. MoreRejections(rs, tk, n) = rs \o new
  BY DEF MoreRejections
<1> HIDE DEF new
<1>6. /\ rs \o new \in Seq(Seq(Nat)) /\ Len(rs \o new) = Len(rs) + n
      /\ \A i \in 1 .. Len(rs) : (rs \o new)[i] = rs[i]
      /\ \A i \in Len(rs) + 1 .. Len(rs) + n : (rs \o new)[i] = new[i - Len(rs)]
  BY <1>1, <1>3
<1>7. ASSUME NEW i \in Len(rs) + 1 .. Len(rs) + n PROVE (rs \o new)[i] = tk \o <<2, i - 1>>
  <2>1. i - Len(rs) \in 1 .. n /\ Len(rs) + (i - Len(rs)) - 1 = i - 1
    BY <1>1
  <2> QED BY <1>4, <1>6, <2>1
<1> QED BY <1>5, <1>6, <1>7

\* The fold behind ReadChildren.
Places(addrs) == [i \in DOMAIN addrs |-> i]
Note(addrs, cs, i) ==
  IF "transparent" \in DOMAIN addrs[i] THEN Append(cs, <<i - 1, addrs[i]["transparent"]>>) ELSE cs
IsNotes(f, addrs) ==
  f = [s \in SUBSET DOMAIN Places(addrs) |->
         IF s = {} THEN <<>> ELSE Note(addrs, f[s \ {Max(s)}], Places(addrs)[Max(s)])]

\* The children of a list of addresses are its transparent receivers, each
\* with its place.
LEMMA ChildrenFacts ==
  ASSUME NEW addrs \in Seq(Addresses)
  PROVE  /\ ReadChildren(addrs) \in Seq(Nat \X Seq(Nat))
         /\ \A i \in DOMAIN addrs : "transparent" \in DOMAIN addrs[i] =>
              <<i - 1, addrs[i]["transparent"]>> \in Range(ReadChildren(addrs))
<1> DEFINE n == Len(addrs)
           T == Seq(Nat \X Seq(Nat))
           g == [q \in (1 .. n) \X T |-> Note(addrs, q[2], q[1])]
           none == <<>>
<1>a. n \in Nat /\ DOMAIN addrs = 1 .. n /\ \A i \in 1 .. n : addrs[i] \in Addresses
  BY Elements
<1>1. n \in Nat /\ DOMAIN addrs = 1 .. n /\ DOMAIN Places(addrs) = 1 .. n /\ \A i \in 1 .. n : Places(addrs)[i] = i
  BY <1>a DEF Places
<1>b. ASSUME NEW i \in 1 .. n PROVE addrs[i] \in Addresses
  BY <1>a
<1>2. ASSUME NEW i \in 1 .. n, NEW cs \in T
      PROVE  Note(addrs, cs, i) \in T
  <2>1. addrs[i] \in Addresses
    BY <1>b
  <2>2. CASE "transparent" \in DOMAIN addrs[i]
    <3>a. addrs[i]["transparent"] \in Seq(Nat)
      BY <2>1, <2>2, AddressFacts, Zenon
    <3>b. i - 1 \in Nat
      BY <1>a
    <3>1. i - 1 \in Nat /\ addrs[i]["transparent"] \in Seq(Nat)
      BY <3>a, <3>b
    <3>2. <<i - 1, addrs[i]["transparent"]>> \in Nat \X Seq(Nat)
      BY <3>1
    <3> QED BY <2>2, <3>2 DEF Note
  <2>3. CASE "transparent" \notin DOMAIN addrs[i]
    BY <2>3 DEF Note
  <2> QED BY <2>2, <2>3
<1>3. g \in [(1 .. n) \X T -> T]
  <2>1. \A q \in (1 .. n) \X T : Note(addrs, q[2], q[1]) \in T
    BY <1>2
  <2> HIDE DEF T
  <2> QED BY <2>1
<1>4. none \in T
  OBVIOUS
<1>5. \A i \in 1 .. n, cs \in T : g[<<i, cs>>] = Note(addrs, cs, i)
  OBVIOUS
<1> HIDE DEF n, T, g, none
<1>p. PICK f : IsTypedFold(f, g, none, n, T)
  <2>1. n \in Nat
    BY <1>1
  <2> QED BY <1>3, <1>4, <2>1, FoldLeftTyped
<1>6. /\ f \in [SUBSET (1 .. n) -> T] /\ f[{}] = none
      /\ \A s \in SUBSET (1 .. n) : s # {} =>
           Max(s) \in 1 .. n /\ f[s] = g[<<Max(s), f[s \ {Max(s)}]>>]
  BY <1>p DEF IsTypedFold
<1>7. \A s \in SUBSET (1 .. n) :
        f[s] = IF s = {} THEN none ELSE Note(addrs, f[s \ {Max(s)}], Places(addrs)[Max(s)])
  <2> TAKE s \in SUBSET (1 .. n)
  <2>1. CASE s = {}
    BY <1>6, <2>1
  <2>2. CASE s # {}
    <3>1. s \ {Max(s)} \in SUBSET (1 .. n)
      OBVIOUS
    <3>2. f[s \ {Max(s)}] \in T
      BY <1>6, <3>1
    <3>3. Max(s) \in 1 .. n /\ f[s] = g[<<Max(s), f[s \ {Max(s)}]>>]
      BY <1>6, <2>2
    <3> QED BY <1>1, <1>5, <2>2, <3>2, <3>3
  <2> QED BY <2>1, <2>2
<1>8. IsNotes(f, addrs)
  BY <1>1, <1>6, <1>7 DEF IsNotes, none
<1> DEFINE h == CHOOSE x : IsNotes(x, addrs)
<1>9. IsNotes(h, addrs)
  BY <1>8
<1>10. ReadChildren(addrs) = h[DOMAIN Places(addrs)]
  BY DEF ReadChildren, FoldLeftDomain, FoldLeft, MapThenFoldSet, IsNotes, Note, Places
<1> HIDE DEF h
<1> DEFINE Lists(cs, i) == "transparent" \in DOMAIN addrs[i] => <<i - 1, addrs[i]["transparent"]>> \in Range(cs)
           P(k) == h[1 .. k] \in T /\ \A i \in 1 .. k : Lists(h[1 .. k], i)
           K == {k \in Nat : k <= n => P(k)}
<1>11. h[{}] = none /\ \A k \in 1 .. n : h[1 .. k] = Note(addrs, h[1 .. (k - 1)], k)
  <2>1. h[{}] = none
    BY <1>1, <1>9 DEF IsNotes, none
  <2>2. ASSUME NEW k \in 1 .. n PROVE h[1 .. k] = Note(addrs, h[1 .. (k - 1)], k)
    <3> DEFINE s == 1 .. k
               r == 1 .. (k - 1)
    <3>1. s \in SUBSET (1 .. n) /\ s # {} /\ Max(s) = k /\ s \ {k} = r
      BY <1>1, FirstPlaces
    <3> HIDE DEF s, r
    <3>2. h[s] = Note(addrs, h[s \ {Max(s)}], Places(addrs)[Max(s)])
      BY <1>1, <1>9, <3>1 DEF IsNotes
    <3>3. h[s] = Note(addrs, h[s \ {k}], k)
      BY <1>1, <3>1, <3>2
    <3>4. h[s] = Note(addrs, h[r], k)
      BY <3>1, <3>3, Zenon
    <3> QED BY <3>4 DEF s, r
  <2> QED BY <2>1, <2>2
<1>12. 0 \in K
  <2>1. 1 .. 0 = {}
    OBVIOUS
  <2>2. h[1 .. 0] = none
    BY <1>11, <2>1, Zenon
  <2>3. h[1 .. 0] \in T
    BY <1>4, <2>2, Zenon
  <2>4. \A i \in 1 .. 0 : Lists(h[1 .. 0], i)
    BY <2>1
  <2>5. P(0)
    BY <2>3, <2>4, Zenon
  <2> HIDE DEF P
  <2> QED BY <2>5
<1>13. ASSUME NEW k \in Nat, k \in K PROVE k + 1 \in K
  <2> HIDE DEF P
  <2> SUFFICES ASSUME k + 1 <= n PROVE P(k + 1)
    OBVIOUS
  <2> DEFINE a == h[1 .. k]
             b == h[1 .. (k + 1)]
             j == k + 1
  <2>1. j \in 1 .. n /\ j - 1 = k /\ k <= n
    BY <1>1
  <2>a. P(k)
    BY <1>13, <2>1
  <2> HIDE DEF Lists
  <2>2. a \in T /\ \A i \in 1 .. k : Lists(a, i)
    BY <2>a DEF P
  <2>3. b = Note(addrs, a, j)
    <3> HIDE DEF j
    <3>1. h[1 .. j] = Note(addrs, h[1 .. (j - 1)], j)
      BY <1>11, <2>1, Zenon
    <3>2. h[1 .. j] = Note(addrs, h[1 .. k], j)
      BY <2>1, <3>1, Zenon
    <3> QED BY <3>2 DEF j
  <2> HIDE DEF a, b, j
  <2>4. b \in T
    BY <1>2, <2>1, <2>2, <2>3
  <2>5. Range(a) \subseteq Range(b) /\ Lists(b, j)
    <3>1. CASE "transparent" \in DOMAIN addrs[j]
      <4> DEFINE e == <<j - 1, addrs[j]["transparent"]>>
      <4>1. b = Append(a, e)
        BY <2>3, <3>1 DEF Note
      <4>2. e \in Nat \X Seq(Nat)
        <5>1. addrs[j]["transparent"] \in Seq(Nat)
          BY <1>b, <2>1, <3>1, AddressFacts, Zenon
        <5> QED BY <2>1, <5>1
      <4> HIDE DEF e
      <4>3. Range(a) \subseteq Range(b) /\ e \in Range(b)
        BY <2>2, <4>1, <4>2, AppendRange DEF T
      <4> QED BY <4>3 DEF e, Lists
    <3>2. CASE "transparent" \notin DOMAIN addrs[j]
      BY <2>3, <3>2 DEF Note, Lists
    <3> QED BY <3>1, <3>2
  <2>6. ASSUME NEW i \in 1 .. (k + 1) PROVE Lists(b, i)
    <3>1. CASE i \in 1 .. k
      BY <2>2, <2>5, <3>1 DEF Lists
    <3>2. CASE i = j
      BY <2>5, <3>2
    <3> QED BY <3>1, <3>2 DEF j
  <2> QED BY <2>4, <2>6 DEF b, P
<1>14. n \in K
  <2> HIDE DEF K
  <2> QED BY <1>1, <1>12, <1>13, NatSetInduction
<1>15. h[1 .. n] \in T /\ \A i \in 1 .. n : Lists(h[1 .. n], i)
  <2> HIDE DEF P
  <2>1. P(n)
    BY <1>1, <1>14
  <2> QED BY <2>1 DEF P
<1>16. ReadChildren(addrs) = h[1 .. n]
  BY <1>1, <1>10, Zenon
<1> QED BY <1>1, <1>15, <1>16, Zenon DEF T

\* One element of a sum set apart.
LEMMA SumApart ==
  ASSUME NEW S, IsFiniteSet(S), NEW v, \A x \in S : v[x] \in Int, NEW x
  PROVE  SumFunctionOnSet(v, S) = (IF x \in S THEN v[x] ELSE 0) + SumFunctionOnSet(v, S \ {x})
<1>1. CASE x \in S
  BY <1>1, SumRemove
<1>2. CASE x \notin S
  <2> DEFINE R == S \ {x}
  <2>1. S = R
    BY <1>2
  <2> HIDE DEF R
  <2>2. SumFunctionOnSet(v, S) = SumFunctionOnSet(v, R)
    BY <2>1, Zenon
  <2>3. SumFunctionOnSet(v, S) \in Int
    BY SumInt
  <2>4. SumFunctionOnSet(v, S) = (IF x \in S THEN v[x] ELSE 0) + SumFunctionOnSet(v, R)
    BY <1>2, <2>2, <2>3
  <2> QED BY <2>4 DEF R
<1> QED BY <1>1, <1>2

\* A selection is read as it was written.
LEMMA SelectionFacts ==
  ASSUME NEW s \in SUBSET Pools
  PROVE  WriteSelection(s) \in 0 .. 7 /\ ReadSelection(WriteSelection(s)) = s
<1> DEFINE o == IF "orchard" \in s THEN 1 ELSE 0
           a == IF "sapling" \in s THEN 2 ELSE 0
           t == IF "transparent" \in s THEN 4 ELSE 0
           s1 == s \ {"orchard"}
           s2 == s1 \ {"sapling"}
           s3 == s2 \ {"transparent"}
<1>1. Bit["orchard"] = 1 /\ Bit["sapling"] = 2 /\ Bit["transparent"] = 4
  BY DEF Bit
<1>2. \A p \in Pools : Bit[p] \in Int
  BY <1>1 DEF Pools
<1>3. IsFiniteSet(Pools)
  <2>1. IsFiniteSet({"orchard"})
    BY FS_Singleton
  <2>2. IsFiniteSet({"orchard"} \cup {"sapling"})
    BY <2>1, FS_AddElement
  <2>3. IsFiniteSet(({"orchard"} \cup {"sapling"}) \cup {"transparent"})
    BY <2>2, FS_AddElement
  <2>4. Pools = ({"orchard"} \cup {"sapling"}) \cup {"transparent"}
    BY DEF Pools
  <2> QED BY <2>3, <2>4, Zenon
<1>4. s1 \in SUBSET Pools /\ s2 \in SUBSET Pools /\ s3 = {}
  BY DEF Pools
<1>5. IsFiniteSet(s) /\ IsFiniteSet(s1) /\ IsFiniteSet(s2)
  BY <1>3, <1>4, FS_Subset
<1>6. ("sapling" \in s1 <=> "sapling" \in s) /\ ("transparent" \in s2 <=> "transparent" \in s)
  OBVIOUS
<1>a. \A x \in s : Bit[x] \in Int
  BY <1>2
<1>b. \A x \in s1 : Bit[x] \in Int
  BY <1>2, <1>4
<1>c. \A x \in s2 : Bit[x] \in Int
  BY <1>2, <1>4
<1>7. SumFunctionOnSet(Bit, s) = (IF "orchard" \in s THEN Bit["orchard"] ELSE 0) + SumFunctionOnSet(Bit, s1)
  BY <1>5, <1>a, SumApart
<1> HIDE DEF s1
<1>8. SumFunctionOnSet(Bit, s1) = (IF "sapling" \in s1 THEN Bit["sapling"] ELSE 0) + SumFunctionOnSet(Bit, s2)
  BY <1>5, <1>b, SumApart
<1> HIDE DEF s2
<1>9. SumFunctionOnSet(Bit, s2) = (IF "transparent" \in s2 THEN Bit["transparent"] ELSE 0) + SumFunctionOnSet(Bit, s3)
  BY <1>5, <1>c, SumApart
<1> HIDE DEF s3
<1>10. SumFunctionOnSet(Bit, s3) = 0
  <2>1. SumFunctionOnSet(Bit, {}) = 0
    BY SumEmpty
  <2> QED BY <1>4, <2>1, Zenon
<1>11. WriteSelection(s) = o + a + t
  BY <1>1, <1>6, <1>7, <1>8, <1>9, <1>10 DEF WriteSelection
<1>12. /\ o + a + t \in 0 .. 7
       /\ ((o + a + t) \div 1) % 2 = 1 <=> "orchard" \in s
       /\ ((o + a + t) \div 2) % 2 = 1 <=> "sapling" \in s
       /\ ((o + a + t) \div 4) % 2 = 1 <=> "transparent" \in s
  OBVIOUS
<1> HIDE DEF o, a, t
<1>13. ReadSelection(o + a + t) = s
  BY <1>1, <1>12 DEF ReadSelection, Pools
<1> QED BY <1>11, <1>12, <1>13

\* The fold behind handle_texes.
Gaps(n, list) == FoldLeft(LAMBDA a, i : a + i - n + 1, 0, list)
IsGaps(f, n, list) ==
  f = [s \in SUBSET DOMAIN list |-> IF s = {} THEN 0 ELSE f[s \ {Max(s)}] + list[Max(s)] - n + 1]

\* Indices that are not known add at least the gap up to the first of them.
LEMMA GapFacts ==
  ASSUME NEW n \in Nat, NEW list \in Seq(Nat), \A i \in DOMAIN list : list[i] >= n
  PROVE  /\ Gaps(n, list) \in Nat
         /\ list # <<>> => Gaps(n, list) >= list[1] - n + 1
<1> DEFINE m == Len(list)
           g == [q \in (1 .. m) \X Nat |-> q[2] + list[q[1]] - n + 1]
<1>1. m \in Nat /\ DOMAIN list = 1 .. m /\ \A i \in 1 .. m : list[i] \in Nat /\ list[i] >= n
  BY Elements
<1>a. list # <<>> => m >= 1
  OBVIOUS
<1> HIDE DEF m
<1>2. g \in [(1 .. m) \X Nat -> Nat] /\ \A i \in 1 .. m, k \in Nat : g[<<i, k>>] = k + list[i] - n + 1
  <2>1. \A q \in (1 .. m) \X Nat : q[2] + list[q[1]] - n + 1 \in Nat
    <3> TAKE q \in (1 .. m) \X Nat
    <3>1. q[1] \in 1 .. m /\ q[2] \in Nat
      OBVIOUS
    <3>2. list[q[1]] \in Nat /\ list[q[1]] >= n
      BY <1>1, <3>1
    <3> QED BY <3>1, <3>2
  <2> QED BY <2>1
<1> HIDE DEF g
<1>3. PICK f : IsTypedFold(f, g, 0, m, Nat)
  <2>1. m \in Nat /\ 0 \in Nat
    BY <1>1
  <2> QED BY <1>2, <2>1, FoldLeftTyped
<1>4. /\ f \in [SUBSET (1 .. m) -> Nat] /\ f[{}] = 0
      /\ \A s \in SUBSET (1 .. m) : s # {} =>
           Max(s) \in 1 .. m /\ f[s] = g[<<Max(s), f[s \ {Max(s)}]>>]
  BY <1>3 DEF IsTypedFold
<1>5. \A s \in SUBSET (1 .. m) :
        f[s] = IF s = {} THEN 0 ELSE f[s \ {Max(s)}] + list[Max(s)] - n + 1
  <2> TAKE s \in SUBSET (1 .. m)
  <2>1. CASE s = {}
    BY <1>4, <2>1
  <2>2. CASE s # {}
    <3>1. f[s \ {Max(s)}] \in Nat
      BY <1>4
    <3>2. Max(s) \in 1 .. m /\ f[s] = g[<<Max(s), f[s \ {Max(s)}]>>]
      BY <1>4, <2>2
    <3> QED BY <1>2, <2>2, <3>1, <3>2
  <2> QED BY <2>1, <2>2
<1>6. IsGaps(f, n, list)
  BY <1>1, <1>4, <1>5 DEF IsGaps
<1> DEFINE h == CHOOSE x : IsGaps(x, n, list)
<1>7. IsGaps(h, n, list)
  BY <1>6
<1>8. Gaps(n, list) = h[DOMAIN list]
  BY DEF Gaps, FoldLeft, MapThenFoldSet, IsGaps
<1> HIDE DEF h
<1>9. h[1 .. 0] = 0 /\ \A k \in 1 .. m : h[1 .. k] = h[1 .. (k - 1)] + list[k] - n + 1
  <2>1. h[1 .. 0] = 0
    BY <1>1, <1>7 DEF IsGaps
  <2>2. ASSUME NEW k \in 1 .. m PROVE h[1 .. k] = h[1 .. (k - 1)] + list[k] - n + 1
    <3> DEFINE s == 1 .. k
               r == 1 .. (k - 1)
    <3>1. s \in SUBSET (1 .. m) /\ s # {} /\ Max(s) = k /\ s \ {k} = r
      BY <1>1, FirstPlaces
    <3> HIDE DEF s, r
    <3>2. h[s] = h[s \ {Max(s)}] + list[Max(s)] - n + 1
      BY <1>1, <1>7, <3>1 DEF IsGaps
    <3>3. h[s] = h[s \ {k}] + list[k] - n + 1
      BY <3>1, <3>2
    <3>4. h[s] = h[r] + list[k] - n + 1
      BY <3>1, <3>3, Zenon
    <3> QED BY <3>4 DEF s, r
  <2> QED BY <2>1, <2>2
<1> DEFINE P(k) == h[1 .. k] \in Nat /\ (k >= 1 => h[1 .. k] >= list[1] - n + 1)
           K == {k \in Nat : k <= m => P(k)}
<1>10. 0 \in K
  <2>1. P(0)
    BY <1>9
  <2> HIDE DEF P
  <2> QED BY <2>1
<1>11. ASSUME NEW k \in Nat, k \in K PROVE k + 1 \in K
  <2> HIDE DEF P
  <2> SUFFICES ASSUME k + 1 <= m PROVE P(k + 1)
    OBVIOUS
  <2>1. P(k) /\ k + 1 \in 1 .. m /\ k + 1 - 1 = k
    BY <1>1, <1>11
  <2> DEFINE a == h[1 .. k]
             b == h[1 .. (k + 1)]
             j == k + 1
  <2>2. b = a + list[j] - n + 1
    <3> HIDE DEF j
    <3>1. j \in 1 .. m /\ j - 1 = k
      BY <2>1 DEF j
    <3>2. h[1 .. j] = h[1 .. (j - 1)] + list[j] - n + 1
      BY <1>9, <3>1, Zenon
    <3>3. h[1 .. j] = h[1 .. k] + list[j] - n + 1
      BY <3>1, <3>2, Zenon
    <3> QED BY <3>3 DEF j
  <2>3. a \in Nat /\ (k >= 1 => a >= list[1] - n + 1)
    BY <2>1 DEF P
  <2>4. list[j] \in Nat /\ list[j] >= n /\ list[1] \in Nat /\ (k = 0 => j = 1)
    <3>1. j \in 1 .. m /\ 1 \in 1 .. m /\ (k = 0 => j = 1)
      BY <1>1, <2>1
    <3> HIDE DEF j
    <3> QED BY <1>1, <3>1
  <2> HIDE DEF a, b, j
  <2>5. b \in Nat /\ b >= a + 1
    <3> DEFINE c == list[j]
    <3>1. b = a + c - n + 1 /\ c \in Nat /\ c >= n /\ a \in Nat
      BY <2>2, <2>3, <2>4
    <3> HIDE DEF c
    <3> QED BY <3>1
  <2>6. b >= list[1] - n + 1
    <3>1. CASE k = 0
      BY <2>2, <2>3, <2>4, <3>1
    <3>2. CASE k >= 1
      BY <2>3, <2>4, <2>5, <3>2
    <3> QED BY <3>1, <3>2
  <2> QED BY <2>5, <2>6 DEF P, b
<1>12. P(m)
  <2> HIDE DEF P
  <2>1. m \in K
    <3> HIDE DEF K
    <3> QED BY <1>1, <1>10, <1>11, NatSetInduction
  <2> QED BY <1>1, <2>1
<1>13. Gaps(n, list) = h[1 .. m]
  BY <1>1, <1>8, Zenon
<1> QED BY <1>12, <1>13, <1>a, <1>1

\* The least element of a set of numbers.
LEMMA MinIs ==
  ASSUME NEW S, S \subseteq Nat, S # {}
  PROVE  Min(S) \in S /\ \A y \in S : Min(S) <= y
BY LeastNat DEF Min

\* Reading a memo never takes addresses away, and afterwards the first index it
\* lists is known.
LEMMA TexFacts ==
  ASSUME NEW n \in Nat, NEW memo \in Seq(Nat)
  PROVE  /\ HandleTexes(n, memo) \in Nat /\ HandleTexes(n, memo) >= n
         /\ memo # <<>> => HandleTexes(n, memo) > memo[1]
<1> DEFINE known == {i \in DOMAIN memo : memo[i] < n}
           handled == IF known = {} THEN Len(memo) ELSE Min(known) - 1
           list == SubSeq(memo, 1, handled)
<1>1. HandleTexes(n, memo) = n + Gaps(n, list)
  BY DEF HandleTexes, Gaps
<1>2. Len(memo) \in Nat /\ DOMAIN memo = 1 .. Len(memo) /\ \A i \in 1 .. Len(memo) : memo[i] \in Nat
  BY Elements
<1>a. memo # <<>> => Len(memo) >= 1
  OBVIOUS
<1>3. known # {} => Min(known) \in known /\ \A y \in known : Min(known) <= y
  <2>1. known \subseteq Nat
    BY <1>2
  <2> HIDE DEF known
  <2> QED BY <2>1, MinIs
<1>4. handled \in 0 .. Len(memo) /\ \A i \in 1 .. handled : memo[i] >= n
  <2>1. CASE known = {}
    BY <1>2, <2>1
  <2>2. CASE known # {}
    <3>1. Min(known) \in 1 .. Len(memo) /\ \A y \in 1 .. Len(memo) : memo[y] < n => Min(known) <= y
      BY <1>2, <1>3, <2>2
    <3>2. handled = Min(known) - 1
      BY <2>2
    <3> HIDE DEF handled, known
    <3> QED BY <1>2, <3>1, <3>2
  <2> QED BY <2>1, <2>2
<1>5. memo # <<>> /\ memo[1] >= n => handled >= 1
  <2> SUFFICES ASSUME memo # <<>>, memo[1] >= n PROVE handled >= 1
    OBVIOUS
  <2>1. CASE known = {}
    BY <1>a, <2>1
  <2>2. CASE known # {}
    <3>1. Min(known) \in 1 .. Len(memo) /\ memo[Min(known)] < n
      BY <1>2, <1>3, <2>2
    <3>2. Min(known) # 1
      BY <1>2, <1>a, <3>1
    <3>3. handled = Min(known) - 1
      BY <2>2
    <3> HIDE DEF handled, known
    <3> QED BY <3>1, <3>2, <3>3
  <2> QED BY <2>1, <2>2
<1> HIDE DEF handled, known
<1>6. /\ list \in Seq(Nat) /\ Len(list) = handled
      /\ \A i \in 1 .. handled : list[i] = memo[i]
  BY <1>2, <1>4
<1>b. DOMAIN list = 1 .. handled
  BY <1>6, Elements
<1> HIDE DEF list
<1>7. \A i \in DOMAIN list : list[i] >= n
  BY <1>4, <1>6, <1>b
<1>8. Gaps(n, list) \in Nat /\ (list # <<>> => Gaps(n, list) >= list[1] - n + 1)
  BY <1>6, <1>7, GapFacts
<1>9. ASSUME memo # <<>> PROVE HandleTexes(n, memo) > memo[1]
  <2>1. memo[1] \in Nat
    BY <1>2, <1>9, <1>a
  <2>2. CASE memo[1] < n
    BY <1>1, <1>8, <2>1, <2>2
  <2>3. CASE memo[1] >= n
    <3>1. handled >= 1
      BY <1>5, <1>9, <2>3
    <3>2. list # <<>> /\ list[1] = memo[1]
      BY <1>4, <1>6, <3>1
    <3> QED BY <1>1, <1>8, <2>1, <3>2
  <2> QED BY <2>1, <2>2, <2>3
<1> QED BY <1>1, <1>8, <1>9

\* The fold of a restored wallet over the sends of the chain.
IsRestored(f, sends) ==
  f = [s \in SUBSET DOMAIN sends |->
         IF s = {} THEN 0 ELSE HandleTexes(f[s \ {Max(s)}], sends[Max(s)].memo)]

\* A restored wallet knows every index that is the first of a memo.
LEMMA RestoredFacts ==
  ASSUME NEW sends \in Seq(Sends), \A i \in DOMAIN sends : Names(sends[i].memo, sends[i].used)
  PROVE  \A i \in DOMAIN sends : sends[i].used < Restored(sends)
<1> DEFINE m == Len(sends)
           g == [q \in (1 .. m) \X Nat |-> HandleTexes(q[2], sends[q[1]].memo)]
<1>1. m \in Nat /\ DOMAIN sends = 1 .. m /\ \A i \in 1 .. m : sends[i] \in Sends
  BY Elements
<1> HIDE DEF m
<1>a. \A i \in 1 .. m : sends[i].memo \in Seq(Nat) /\ sends[i].used \in Nat
  BY <1>1 DEF Sends
<1>b. ASSUME NEW i \in 1 .. m, NEW n \in Nat
      PROVE  /\ HandleTexes(n, sends[i].memo) \in Nat /\ HandleTexes(n, sends[i].memo) >= n
             /\ HandleTexes(n, sends[i].memo) > sends[i].used
  <2> DEFINE memo == sends[i].memo
  <2>1. memo \in Seq(Nat) /\ memo # <<>> /\ memo[1] = sends[i].used
    BY <1>1, <1>a DEF Names
  <2> HIDE DEF memo
  <2>2. HandleTexes(n, memo) \in Nat /\ HandleTexes(n, memo) >= n /\ HandleTexes(n, memo) > memo[1]
    BY <2>1, TexFacts
  <2> QED BY <2>1, <2>2 DEF memo
<1>2. g \in [(1 .. m) \X Nat -> Nat] /\ \A i \in 1 .. m, k \in Nat : g[<<i, k>>] = HandleTexes(k, sends[i].memo)
  <2>1. \A q \in (1 .. m) \X Nat : HandleTexes(q[2], sends[q[1]].memo) \in Nat
    BY <1>b
  <2> QED BY <2>1
<1> HIDE DEF g
<1>3. PICK f : IsTypedFold(f, g, 0, m, Nat)
  <2>1. m \in Nat /\ 0 \in Nat
    BY <1>1
  <2> QED BY <1>2, <2>1, FoldLeftTyped
<1>4. /\ f \in [SUBSET (1 .. m) -> Nat] /\ f[{}] = 0
      /\ \A s \in SUBSET (1 .. m) : s # {} =>
           Max(s) \in 1 .. m /\ f[s] = g[<<Max(s), f[s \ {Max(s)}]>>]
  BY <1>3 DEF IsTypedFold
<1>5. \A s \in SUBSET (1 .. m) :
        f[s] = IF s = {} THEN 0 ELSE HandleTexes(f[s \ {Max(s)}], sends[Max(s)].memo)
  <2> TAKE s \in SUBSET (1 .. m)
  <2>1. CASE s = {}
    BY <1>4, <2>1
  <2>2. CASE s # {}
    <3>1. f[s \ {Max(s)}] \in Nat
      BY <1>4
    <3>2. Max(s) \in 1 .. m /\ f[s] = g[<<Max(s), f[s \ {Max(s)}]>>]
      BY <1>4, <2>2
    <3> QED BY <1>2, <2>2, <3>1, <3>2
  <2> QED BY <2>1, <2>2
<1>6. IsRestored(f, sends)
  BY <1>1, <1>4, <1>5 DEF IsRestored
<1> DEFINE h == CHOOSE x : IsRestored(x, sends)
<1>7. IsRestored(h, sends)
  BY <1>6
<1>8. Restored(sends) = h[DOMAIN sends]
  BY DEF Restored, FoldLeft, MapThenFoldSet, IsRestored
<1> HIDE DEF h
<1>9. h[1 .. 0] = 0 /\ \A k \in 1 .. m : h[1 .. k] = HandleTexes(h[1 .. (k - 1)], sends[k].memo)
  <2>1. h[1 .. 0] = 0
    BY <1>1, <1>7 DEF IsRestored
  <2>2. ASSUME NEW k \in 1 .. m PROVE h[1 .. k] = HandleTexes(h[1 .. (k - 1)], sends[k].memo)
    <3> DEFINE s == 1 .. k
               r == 1 .. (k - 1)
    <3>1. s \in SUBSET (1 .. m) /\ s # {} /\ Max(s) = k /\ s \ {k} = r
      BY <1>1, FirstPlaces
    <3> HIDE DEF s, r
    <3>2. h[s] = HandleTexes(h[s \ {Max(s)}], sends[Max(s)].memo)
      BY <1>1, <1>7, <3>1 DEF IsRestored
    <3>3. h[s] = HandleTexes(h[s \ {k}], sends[k].memo)
      BY <3>1, <3>2
    <3>4. h[s] = HandleTexes(h[r], sends[k].memo)
      BY <3>1, <3>3, Zenon
    <3> QED BY <3>4 DEF s, r
  <2> QED BY <2>1, <2>2
<1> DEFINE P(k) == h[1 .. k] \in Nat /\ \A i \in 1 .. k : sends[i].used < h[1 .. k]
           K == {k \in Nat : k <= m => P(k)}
<1>10. 0 \in K
  <2>1. P(0)
    BY <1>9
  <2> HIDE DEF P
  <2> QED BY <2>1
<1>11. ASSUME NEW k \in Nat, k \in K PROVE k + 1 \in K
  <2> HIDE DEF P
  <2> SUFFICES ASSUME k + 1 <= m PROVE P(k + 1)
    OBVIOUS
  <2>1. P(k) /\ k + 1 \in 1 .. m /\ k + 1 - 1 = k
    BY <1>1, <1>11
  <2> DEFINE a == h[1 .. k]
             b == h[1 .. (k + 1)]
             j == k + 1
  <2>2. b = HandleTexes(a, sends[j].memo)
    <3> HIDE DEF j
    <3>1. j \in 1 .. m /\ j - 1 = k
      BY <2>1 DEF j
    <3>2. h[1 .. j] = HandleTexes(h[1 .. (j - 1)], sends[j].memo)
      BY <1>9, <3>1, Zenon
    <3>3. h[1 .. j] = HandleTexes(h[1 .. k], sends[j].memo)
      BY <3>1, <3>2, Zenon
    <3> QED BY <3>3 DEF j
  <2>3. a \in Nat /\ \A i \in 1 .. k : sends[i].used < a
    BY <2>1 DEF P
  <2>4. j \in 1 .. m
    BY <2>1
  <2> HIDE DEF a, b
  <2>5. b \in Nat /\ b >= a /\ b > sends[j].used
    <3> HIDE DEF j
    <3> QED BY <1>b, <2>2, <2>3, <2>4
  <2>6. ASSUME NEW i \in 1 .. (k + 1) PROVE sends[i].used < b
    <3>a. sends[i].used \in Nat
      <4>1. i \in 1 .. m
        BY <1>1, <2>1
      <4> QED BY <1>a, <4>1
    <3>1. CASE i \in 1 .. k
      BY <2>3, <2>5, <3>1, <3>a
    <3>2. CASE i = k + 1
      BY <2>5, <3>2
    <3> QED BY <3>1, <3>2
  <2> QED BY <2>5, <2>6 DEF P, b
<1>12. P(m)
  <2> HIDE DEF P
  <2>1. m \in K
    <3> HIDE DEF K
    <3> QED BY <1>1, <1>10, <1>11, NatSetInduction
  <2> QED BY <1>1, <2>1
<1>13. Restored(sends) = h[1 .. m]
  BY <1>1, <1>8, Zenon
<1> QED BY <1>12, <1>13, <1>1

\* The memo of a request, and the first index it lists when it fits.
LEMMA ChangeMemoFacts ==
  ASSUME NEW r \in Requests, NEW n \in Nat
  PROVE  /\ ChangeMemo(r, n) \in Seq(Nat) /\ r.tex \in Nat
         /\ MemosFit /\ r.tex > 0 => Names(ChangeMemo(r, n), n)
<1> DEFINE indexes == [i \in 1 .. r.tex |-> n + i - 1]
<1>1. r.tex \in Nat
  BY AskedAssumption
<1>2. indexes \in Seq(Nat) /\ Len(indexes) = r.tex
  BY <1>1
<1>3. <<>> \in Seq(Nat)
  OBVIOUS
<1>4. ChangeMemo(r, n) = IF MemoSize(r.uas, indexes) > MemoBytes THEN <<>> ELSE indexes
  BY DEF ChangeMemo
<1>5. r.tex > 0 => indexes # <<>> /\ indexes[1] = n
  <2> SUFFICES ASSUME r.tex > 0 PROVE indexes # <<>> /\ indexes[1] = n
    OBVIOUS
  <2>1. 1 \in 1 .. r.tex
    BY <1>1
  <2>2. indexes[1] = n + 1 - 1
    BY <2>1
  <2>3. indexes # <<>>
    BY <1>1, <1>2
  <2> QED BY <2>2, <2>3
<1>6. MemosFit /\ r.tex > 0 => ~(MemoSize(r.uas, indexes) > MemoBytes)
  BY DEF MemosFit
<1> HIDE DEF indexes
<1>7. ChangeMemo(r, n) \in Seq(Nat)
  BY <1>2, <1>3, <1>4
<1>8. ASSUME MemosFit, r.tex > 0 PROVE Names(ChangeMemo(r, n), n)
  <2>1. ~(MemoSize(r.uas, indexes) > MemoBytes)
    BY <1>6, <1>8
  <2> QED BY <1>4, <1>5, <1>8, <2>1 DEF Names
<1> QED BY <1>1, <1>7, <1>8

-----------------------------------------------------------------------------
(* What holds always: the steps.                                              *)

\* A file of an older version is a file.
LEMMA LegacyFilesAreFiles == LegacyFiles \subseteq Files
<1> SUFFICES ASSUME NEW f \in LegacyFiles PROVE f \in Files
  OBVIOUS
<1>1. f \in [version : 1 .. 3, keys : [Pools -> Powers], tkey : Seq(Nat),
             account : Nat, seed : BOOLEAN, trees : BOOLEAN, rejections : {0},
             selections : Seq(0 .. 7)]
  BY FilesAssumption
<1>2. f.tkey = <<f.account, 0>> \/ f.tkey = <<f.account>>
  BY FilesAssumption
<1>3. f.account \in Nat /\ f.tkey \in Seq(Nat)
  BY <1>1
<1>4. Len(f.tkey) \in 1 .. 2
  <2>1. CASE f.tkey = <<f.account, 0>>
    <3>1. Len(<<f.account, 0>>) = 2
      OBVIOUS
    <3>2. Len(f.tkey) = 2
      BY <2>1, <3>1, Zenon
    <3> QED BY <3>2
  <2>2. CASE f.tkey = <<f.account>>
    <3>1. Len(<<f.account>>) = 1
      OBVIOUS
    <3>2. Len(f.tkey) = 1
      BY <2>2, <3>1, Zenon
    <3> QED BY <3>2
  <2> QED BY <1>2, <2>1, <2>2
<1>5. f.tkey \in TransparentKeys
  BY <1>3, <1>4 DEF TransparentKeys
<1>6. 1 .. 3 \subseteq 1 .. 4 /\ {0} \subseteq Nat
  OBVIOUS
<1> QED BY <1>1, <1>5, <1>6 DEF Files

\* What the initial state holds.
LEMMA IdleType == Idle \in CallerStates /\ DOMAIN Idle.got = {} /\ Idle.pc = "idle"
<1>1. DOMAIN [p \in {} |-> <<>>] = {} /\ [p \in {} |-> <<>>] \in [{} -> Seq(Nat)]
  OBVIOUS
<1>2. [p \in {} |-> <<>>] \in Addresses
  BY <1>1 DEF Addresses
<1>3. "idle" \in Pcs /\ {} \in SUBSET Pools /\ 0 \in Nat
  BY DEF Pcs
<1> QED BY <1>1, <1>2, <1>3 DEF Idle, CallerStates

\* A caller moves, the others stay where they are.
LEMMA CallerMoves ==
  ASSUME NEW cs \in [Callers -> CallerStates], NEW c \in Callers, NEW st \in CallerStates, NEW ds,
         ds = [cs EXCEPT ![c] = st]
  PROVE  /\ ds \in [Callers -> CallerStates] /\ ds[c] = st
         /\ \A d \in Callers \ {c} : ds[d] = cs[d]
OBVIOUS

\* The fields of a caller.
LEMMA CallerFields ==
  ASSUME NEW st \in CallerStates
  PROVE  /\ st.pc \in Pcs /\ st.want \in SUBSET Pools /\ st.got \in Addresses /\ st.before \in Nat
         /\ st = [pc |-> st.pc, want |-> st.want, got |-> st.got, before |-> st.before]
BY DEF CallerStates

\* A caller goes on to the next step.
LEMMA GoesFacts ==
  ASSUME NEW cs \in [Callers -> CallerStates], NEW c \in Callers, NEW pc \in Pcs, NEW ds,
         ds = [cs EXCEPT ![c].pc = pc]
  PROVE  /\ ds \in [Callers -> CallerStates]
         /\ ds[c].pc = pc /\ ds[c].want = cs[c].want /\ ds[c].got = cs[c].got
         /\ \A d \in Callers \ {c} : ds[d] = cs[d]
<1> DEFINE st == [pc |-> pc, want |-> cs[c].want, got |-> cs[c].got, before |-> cs[c].before]
<1>1. cs[c] \in CallerStates
  OBVIOUS
<1>2. st \in CallerStates
  BY <1>1, CallerFields DEF CallerStates
<1>3. [cs[c] EXCEPT !.pc = pc] = st
  BY <1>1 DEF CallerStates
<1>4. ds = [cs EXCEPT ![c] = st]
  BY <1>3
<1>5. st.pc = pc /\ st.want = cs[c].want /\ st.got = cs[c].got
  OBVIOUS
<1> HIDE DEF st
<1>6. ds \in [Callers -> CallerStates] /\ ds[c] = st /\ \A d \in Callers \ {c} : ds[d] = cs[d]
  BY <1>2, <1>4, CallerMoves
<1> QED BY <1>5, <1>6

Moved(ds, cs, c, pc, got) ==
  /\ ds \in [Callers -> CallerStates]
  /\ ds[c].pc = pc /\ ds[c].want = cs[c].want /\ ds[c].got = got
  /\ \A d \in Callers \ {c} : ds[d] = cs[d]
GoesWith(cs, c, pc, p, r) == [cs EXCEPT ![c].pc = pc, ![c].got = With(@, p, r)]

\* A caller gets a receiver and goes on.
LEMMA AddsFacts ==
  ASSUME NEW cs \in [Callers -> CallerStates], NEW c \in Callers, NEW pc \in Pcs,
         NEW p \in Pools, NEW r \in Seq(Nat)
  PROVE  Moved(GoesWith(cs, c, pc, p, r), cs, c, pc, With(cs[c].got, p, r))
<1> DEFINE ds == GoesWith(cs, c, pc, p, r)
           w == With(cs[c].got, p, r)
           st == [pc |-> pc, want |-> cs[c].want, got |-> w, before |-> cs[c].before]
<1>1. cs[c] \in CallerStates
  OBVIOUS
<1>a. cs[c].got \in Addresses
  BY <1>1, CallerFields
<1>b. w \in Addresses
  BY <1>a, AddReceiver
<1>4. ds = [cs EXCEPT ![c] = [[cs[c] EXCEPT !.pc = pc] EXCEPT !.got = w]]
  <2> DEFINE es == [cs EXCEPT ![c].pc = pc]
  <2>1. es[c] = [cs[c] EXCEPT !.pc = pc] /\ DOMAIN es = Callers /\ \A d \in Callers \ {c} : es[d] = cs[d]
    OBVIOUS
  <2>2. es[c].got = cs[c].got
    BY <1>1, <2>1 DEF CallerStates
  <2>3. ds = [es EXCEPT ![c].got = With(es[c].got, p, r)]
    BY DEF GoesWith
  <2> HIDE DEF es
  <2>4. ds = [es EXCEPT ![c] = [es[c] EXCEPT !.got = w]]
    BY <2>2, <2>3
  <2> HIDE DEF w
  <2> QED BY <2>1, <2>4
<1> HIDE DEF w, ds
<1>2. st \in CallerStates
  <2>1. cs[c].want \in SUBSET Pools /\ cs[c].before \in Nat
    BY <1>1, CallerFields
  <2> QED BY <1>b, <2>1 DEF CallerStates
<1>3. [[cs[c] EXCEPT !.pc = pc] EXCEPT !.got = w] = st
  <2> DEFINE y == [pc |-> pc, want |-> cs[c].want, got |-> cs[c].got, before |-> cs[c].before]
  <2>1. [cs[c] EXCEPT !.pc = pc] = y
    BY <1>1 DEF CallerStates
  <2>2. [y EXCEPT !.got = w] = st
    OBVIOUS
  <2> HIDE DEF y
  <2> QED BY <2>1, <2>2, Zenon
<1>5. st.pc = pc /\ st.want = cs[c].want /\ st.got = w
  OBVIOUS
<1> HIDE DEF st
<1>c. ds = [cs EXCEPT ![c] = st]
  <2> DEFINE x == [[cs[c] EXCEPT !.pc = pc] EXCEPT !.got = w]
  <2>1. ds = [cs EXCEPT ![c] = x] /\ x = st
    BY <1>3, <1>4
  <2> HIDE DEF x
  <2> QED BY <2>1, Zenon
<1>6. ds \in [Callers -> CallerStates] /\ ds[c] = st /\ \A d \in Callers \ {c} : ds[d] = cs[d]
  <2> DEFINE es == [cs EXCEPT ![c] = st]
  <2>1. es \in [Callers -> CallerStates] /\ es[c] = st /\ \A d \in Callers \ {c} : es[d] = cs[d]
    BY <1>2
  <2> HIDE DEF es
  <2>2. ds = es
    BY <1>c DEF es
  <2> QED BY <2>1, <2>2, Zenon
<1> QED BY <1>5, <1>6 DEF w, ds, Moved

\* The initial state.
LEMMA StoreInit == Init => StoreInv
<1> SUFFICES ASSUME Init PROVE StoreInv
  OBVIOUS
<1>1. tkey \in TransparentKeys
  <2>1. tkey = <<0>> /\ <<0>> \in Seq(Nat) /\ Len(<<0>>) = 1
    BY DEF Init
  <2> QED BY <2>1 DEF TransparentKeys
<1>2. caller \in [Callers -> CallerStates] /\ \A c \in Callers : caller[c] = Idle
  BY IdleType DEF Init
<1>3. file \in Files \cup {NoFile}
  BY LegacyFilesAreFiles DEF Init
<1>4. proposal \in [memo : Seq(Nat), tex : Nat, at : Nat] /\ proposal.tex = 0
  <2>1. <<>> \in Seq(Nat)
    OBVIOUS
  <2> QED BY <2>1 DEF Init, NoProposal
<1>5. unified = <<>> /\ children = <<>> /\ rejections = <<>> /\ chain = <<>>
  BY DEF Init
<1>6. Types
  <2>1. unified \in Seq(Addresses) /\ children \in Seq(Nat \X Seq(Nat))
    BY <1>5
  <2>2. rejections \in Seq(Seq(Nat)) /\ chain \in Seq(Sends)
    BY <1>5
  <2>3. keys = NoWallet /\ lock = FALSE /\ account = 0 /\ ivk = NoIvk
    BY DEF Init
  <2> QED BY <1>1, <1>2, <1>3, <1>4, <2>1, <2>2, <2>3 DEF Types
<1>7. Holding
  BY <1>2, <1>4, <1>5, IdleType DEF Holding
<1>8. OwnKeys
  BY DEF OwnKeys, Init
<1>9. Noted
  <2>1. \A c \in Callers : DOMAIN caller[c].got = {}
    BY <1>2, IdleType
  <2> QED BY <1>5, <2>1 DEF Noted, ChildrenListed
<1> QED BY <1>6, <1>7, <1>8, <1>9 DEF StoreInv

\* A new wallet.
LEMMA StoreCreate ==
  ASSUME StoreInv, NEW ks \in Stores, NEW a \in Accounts, CreateWallet(ks, a)
  PROVE  StoreInv'
<1> DEFINE first == Receivers(ks, <<a>>, FALSE, CanView(ks), 0)
<1>1. ks \in UnifiedKeyStores /\ a \in Nat
  BY StoresAssumption, AskedAssumption
<1>a. ks # NoWallet
  BY <1>1, StoreFacts
<1>2. <<a>> \in TransparentKeys
  <2>1. <<a>> \in Seq(Nat) /\ Len(<<a>>) = 1
    BY <1>1
  <2> QED BY <2>1 DEF TransparentKeys
<1>3. CanView(ks) \in SUBSET Pools
  BY DEF CanView
<1>4. first \in Addresses /\ DOMAIN first = CanView(ks)
  <2> DEFINE no == FALSE
             V == CanView(ks)
             k == <<a>>
             zero == 0
  <2>1. k \in TransparentKeys /\ V \in Selections /\ zero \in Nat
    BY <1>2, <1>3 DEF Selections
  <2> HIDE DEF no, V, k, zero
  <2>2. /\ Receivers(ks, k, no, V, zero) \in Addresses
        /\ DOMAIN Receivers(ks, k, no, V, zero) = Seen(V, ks)
    BY <2>1, ReceiversType
  <2>3. Seen(V, ks) = CanView(ks)
    BY DEF V, Seen
  <2> QED BY <2>2, <2>3 DEF no, V, k, zero
<1>5. ~(CanView(ks) \subseteq {"transparent"})
  BY DEF CreateWallet, Derivable
<1>6. /\ keys = NoWallet /\ keys' = ks /\ tkey' = <<a>> /\ account' = a
      /\ ivk' = IF CanSpend(ks) THEN <<a>> ELSE NoIvk
      /\ unified' = <<first>> /\ children' = ReadChildren(unified')
      /\ UNCHANGED <<rejections, lock, caller, file, proposal, chain>>
  BY DEF CreateWallet
<1>7. /\ keys = NoWallet => unified = <<>> /\ rejections = <<>> /\ proposal.tex = 0
      /\ \A c \in Callers : caller[c].pc = "idle" \/ (lock /\ keys # NoWallet)
      /\ \A c \in Callers : caller[c].pc = "idle" => DOMAIN caller[c].got = {}
  BY DEF StoreInv, Holding
<1>8. /\ rejections' = <<>> /\ proposal'.tex = 0
      /\ \A c \in Callers : caller'[c].pc = "idle" /\ DOMAIN caller'[c].got = {}
  BY <1>6, <1>7
<1> HIDE DEF first
<1>9. unified' \in Seq(Addresses) /\ DOMAIN unified' = {1} /\ unified'[1] = first
  BY <1>4, <1>6
<1>10. Types'
  <2>1. children' \in Seq(Nat \X Seq(Nat))
    <3>1. \A u \in Seq(Addresses) : ReadChildren(u) \in Seq(Nat \X Seq(Nat))
      BY ChildrenFacts
    <3> QED BY <1>6, <1>9, <3>1
  <2> QED BY <1>1, <1>2, <1>6, <1>9, <2>1 DEF StoreInv, Types
<1>11. Holding'
  BY <1>6, <1>8, <1>a DEF Holding
<1>12. OwnKeys'
  <2>1. ivk' # NoIvk => "transparent" \in CanView(keys')
    BY <1>6, SpendViews
  <2> QED BY <1>4, <1>5, <1>6, <1>8, <1>9, <2>1 DEF OwnKeys
<1>13. Noted'
  <2>1. ASSUME NEW u \in Seq(Addresses), NEW i \in DOMAIN u, "transparent" \in DOMAIN u[i]
        PROVE  <<i - 1, u[i]["transparent"]>> \in Range(ReadChildren(u))
    BY <2>1, ChildrenFacts
  <2>2. ChildrenListed'
    BY <1>6, <1>9, <2>1 DEF ChildrenListed
  <2> QED BY <1>8, <2>2 DEF Noted
<1> QED BY <1>10, <1>11, <1>12, <1>13 DEF StoreInv

\* What a readable file gives.
LEMMA ReadFacts ==
  ASSUME NEW f \in Files, Readable(f)
  PROVE  /\ ReadKeys(f) \in UnifiedKeyStores /\ ReadAddresses(f) \in Seq(Addresses)
         /\ Len(ReadAddresses(f)) = Len(f.selections)
         /\ \A i \in DOMAIN ReadAddresses(f) :
              /\ i \in Nat \ {0}
              /\ ReadAddresses(f)[i] =
                   Receivers(ReadKeys(f), f.tkey, Legacy(f), ReadSelection(f.selections[i]), i - 1)
              /\ DOMAIN ReadAddresses(f)[i] \subseteq CanView(ReadKeys(f))
              /\ ~(DOMAIN ReadAddresses(f)[i] \subseteq {"transparent"})
<1>1. f.tkey \in TransparentKeys /\ f.selections \in Seq(0 .. 7)
  BY DEF Files
<1> DEFINE n == Len(f.selections)
           R(i) == Receivers(ReadKeys(f), f.tkey, Legacy(f), ReadSelection(f.selections[i]), i - 1)
<1>2. n \in Nat /\ DOMAIN f.selections = 1 .. n
  BY <1>1, Elements
<1>3. ASSUME NEW i \in 1 .. n
      PROVE  /\ R(i) \in Addresses /\ DOMAIN R(i) \subseteq CanView(ReadKeys(f))
             /\ ~(DOMAIN R(i) \subseteq {"transparent"})
  <2> DEFINE sel == ReadSelection(f.selections[i])
  <2>1. sel \in Selections
    BY DEF ReadSelection, Selections
  <2>2. Derivable(ReadKeys(f), sel)
    BY <1>2 DEF Readable
  <2>3. i - 1 \in Nat
    BY <1>2
  <2> HIDE DEF sel
  <2>4. /\ Receivers(ReadKeys(f), f.tkey, Legacy(f), sel, i - 1) \in Addresses
        /\ DOMAIN Receivers(ReadKeys(f), f.tkey, Legacy(f), sel, i - 1) = Seen(sel, ReadKeys(f))
    <3> DEFINE l == Legacy(f)
               j == i - 1
               k == ReadKeys(f)
    <3>1. j \in Nat
      BY <2>3
    <3> HIDE DEF l, j, k
    <3>2. /\ Receivers(k, f.tkey, l, sel, j) \in Addresses
          /\ DOMAIN Receivers(k, f.tkey, l, sel, j) = Seen(sel, k)
      BY <1>1, <2>1, <3>1, ReceiversType
    <3> QED BY <3>2 DEF l, j, k
  <2>5. ~(Seen(sel, ReadKeys(f)) \subseteq {"transparent"}) /\ Seen(sel, ReadKeys(f)) \subseteq CanView(ReadKeys(f))
    BY <2>2 DEF Derivable, Seen
  <2> QED BY <2>4, <2>5 DEF sel
<1>4. ReadAddresses(f) = [i \in 1 .. n |-> R(i)]
  BY <1>2 DEF ReadAddresses
<1> HIDE DEF n, R
<1>5. [i \in 1 .. n |-> R(i)] \in Seq(Addresses) /\ Len([i \in 1 .. n |-> R(i)]) = n
  BY <1>2, <1>3
<1>6. DOMAIN ReadAddresses(f) = 1 .. n /\ \A i \in 1 .. n : i \in Nat \ {0} /\ ReadAddresses(f)[i] = R(i)
  BY <1>2, <1>4
<1>7. ReadKeys(f) \in UnifiedKeyStores
  BY DEF Readable
<1>8. ReadAddresses(f) \in Seq(Addresses) /\ Len(ReadAddresses(f)) = n
  BY <1>4, <1>5, Zenon
<1> QED BY <1>3, <1>6, <1>7, <1>8 DEF R, n

\* Starting from a file.
LEMMA StoreLoad ==
  ASSUME StoreInv, LoadWallet
  PROVE  StoreInv'
<1>1. file \in Files /\ Readable(file)
  <2>1. Readable(file) /\ file # NoFile
    BY DEF LoadWallet, Readable
  <2> QED BY <2>1 DEF StoreInv, Types
<1>2. /\ keys' = LoadedKeys(file) /\ account' = file.account /\ unified' = ReadAddresses(file)
      /\ tkey' = LoadedKey(file) /\ ivk' = LoadedIvk(file)
      /\ children' = ReadChildren(unified') /\ lock' = FALSE
      /\ rejections' = MoreRejections(<<>>, file.tkey, file.rejections)
      /\ caller' = [c \in Callers |-> Idle] /\ proposal' = NoProposal /\ UNCHANGED <<file, chain>>
  BY DEF LoadWallet
<1>3. /\ file.tkey \in TransparentKeys /\ file.account \in Nat /\ file.rejections \in Nat
  BY <1>1 DEF Files
<1>4. tkey' \in TransparentKeys /\ ivk' \in TransparentKeys \cup {NoIvk}
  <2>1. <<0>> \in Seq(Nat) /\ Len(<<0>>) = 1
    OBVIOUS
  <2>2. <<0>> \in TransparentKeys
    BY <2>1 DEF TransparentKeys
  <2> QED BY <1>2, <1>3, <2>2 DEF LoadedKey, LoadedIvk
<1>a. keys' \in UnifiedKeyStores /\ CanView(ReadKeys(file)) \subseteq CanView(keys')
  <2>1. ReadKeys(file) \in UnifiedKeyStores
    BY <1>1 DEF Readable
  <2>2. [p \in Pools |-> "spend"] \in UnifiedKeyStores
    BY DEF UnifiedKeyStores
  <2>3. CanView(ReadKeys(file)) \subseteq CanView([p \in Pools |-> "spend"])
    BY DEF CanView
  <2> QED BY <1>2, <2>1, <2>2, <2>3 DEF LoadedKeys
<1>5. /\ keys' \in UnifiedKeyStores /\ unified' \in Seq(Addresses)
      /\ \A i \in DOMAIN unified' : /\ DOMAIN unified'[i] \subseteq CanView(keys')
                                    /\ ~(DOMAIN unified'[i] \subseteq {"transparent"})
  BY <1>1, <1>2, <1>a, ReadFacts
<1>6. rejections' \in Seq(Seq(Nat)) /\ Len(rejections') = file.rejections
  <2> DEFINE none == <<>>
  <2>1. none \in Seq(Seq(Nat)) /\ Len(none) = 0
    OBVIOUS
  <2> HIDE DEF none
  <2>2. /\ MoreRejections(none, file.tkey, file.rejections) \in Seq(Seq(Nat))
        /\ Len(MoreRejections(none, file.tkey, file.rejections)) = Len(none) + file.rejections
    BY <1>3, <2>1, RejectionFacts
  <2>3. rejections' = MoreRejections(none, file.tkey, file.rejections)
    BY <1>2 DEF none
  <2> QED BY <1>3, <2>1, <2>2, <2>3
<1>7. caller' \in [Callers -> CallerStates] /\ \A c \in Callers : caller'[c] = Idle
  BY <1>2, IdleType
<1>8. proposal' \in [memo : Seq(Nat), tex : Nat, at : Nat] /\ proposal'.tex = 0
  <2>1. <<>> \in Seq(Nat)
    OBVIOUS
  <2> QED BY <1>2, <2>1 DEF NoProposal
<1>9. ASSUME NEW u \in Seq(Addresses)
      PROVE  /\ ReadChildren(u) \in Seq(Nat \X Seq(Nat))
             /\ \A i \in DOMAIN u : "transparent" \in DOMAIN u[i] =>
                  <<i - 1, u[i]["transparent"]>> \in Range(ReadChildren(u))
  BY ChildrenFacts
<1>10. Types'
  <2>1. children' \in Seq(Nat \X Seq(Nat))
    BY <1>2, <1>5, <1>9
  <2> QED BY <1>2, <1>3, <1>4, <1>5, <1>6, <1>7, <1>8, <2>1 DEF StoreInv, Types
<1>11. Holding'
  <2>1. keys' # NoWallet
    BY <1>5, StoreFacts
  <2> QED BY <1>7, <2>1, IdleType DEF Holding
<1>12. OwnKeys'
  <2>1. rejections' # <<>> => "transparent" \in CanView(keys')
    <3>1. rejections' # <<>> => file.rejections > 0
      BY <1>3, <1>6
    <3> QED BY <1>1, <1>2, <1>a, <3>1 DEF Readable
  <2>3. ivk' # NoIvk => "transparent" \in CanView(keys')
    BY <1>2, <1>a DEF LoadedIvk
  <2>2. \A c \in Callers : DOMAIN caller'[c].got \subseteq CanView(keys')
    BY <1>7, IdleType
  <2> QED BY <1>5, <1>8, <2>1, <2>2, <2>3 DEF OwnKeys
<1>13. Noted'
  <2>1. ChildrenListed'
    BY <1>2, <1>5, <1>9 DEF ChildrenListed
  <2>2. \A c \in Callers : DOMAIN caller'[c].got = {}
    BY <1>7, IdleType
  <2> QED BY <2>1, <2>2 DEF Noted
<1> QED BY <1>10, <1>11, <1>12, <1>13 DEF StoreInv

\* Nothing but the file, the proposal or the chain changes.
LEMMA StoreAside ==
  ASSUME StoreInv, Types',
         UNCHANGED <<keys, tkey, ivk, account, unified, children, rejections, lock, caller>>,
         proposal'.tex > 0 => keys # NoWallet /\ CanSpend(keys), proposal'.tex \in Nat
  PROVE  StoreInv'
<1>1. Holding'
  BY DEF StoreInv, Holding
<1>2. OwnKeys'
  BY DEF StoreInv, OwnKeys
<1>3. Noted'
  BY DEF StoreInv, Noted, ChildrenListed
<1> QED BY <1>1, <1>2, <1>3 DEF StoreInv

\* What is written is a file.
LEMMA WriteFacts ==
  ASSUME StoreInv, keys # NoWallet
  PROVE  /\ WriteCapability \in Files /\ WriteCapability # NoFile
         /\ WriteCapability.selections \in Seq(0 .. 7)
         /\ DOMAIN WriteCapability.selections = DOMAIN unified
         /\ \A i \in DOMAIN unified : ReadSelection(WriteCapability.selections[i]) = DOMAIN unified[i]
<1>1. /\ keys \in UnifiedKeyStores /\ tkey \in TransparentKeys /\ account \in Nat
      /\ unified \in Seq(Addresses) /\ rejections \in Seq(Seq(Nat))
  BY DEF StoreInv, Types
<1>2. keys \in [Pools -> Powers]
  BY <1>1, StoreFacts
<1> DEFINE n == Len(unified)
           sel == [i \in DOMAIN unified |-> WriteSelection(DOMAIN unified[i])]
<1>3. n \in Nat /\ DOMAIN unified = 1 .. n /\ \A i \in 1 .. n : unified[i] \in Addresses
  BY <1>1, Elements
<1>4. \A i \in 1 .. n : /\ WriteSelection(DOMAIN unified[i]) \in 0 .. 7
                        /\ ReadSelection(WriteSelection(DOMAIN unified[i])) = DOMAIN unified[i]
  BY <1>3, AddressFacts, SelectionFacts
<1>5. sel \in Seq(0 .. 7) /\ DOMAIN sel = DOMAIN unified
  BY <1>3, <1>4
<1>6. \A i \in DOMAIN unified : ReadSelection(sel[i]) = DOMAIN unified[i]
  BY <1>3, <1>4
<1>7. CanSpend(keys) \in BOOLEAN /\ (ivk # NoIvk) \in BOOLEAN /\ Len(rejections) \in Nat
  BY <1>1 DEF CanSpend
<1>8. WriteCapability =
        [version |-> 4, keys |-> keys, tkey |-> tkey, account |-> account,
         seed |-> CanSpend(keys), trees |-> ivk # NoIvk, rejections |-> Len(rejections), selections |-> sel]
  BY DEF WriteCapability
<1> HIDE DEF sel
<1>9. WriteCapability \in Files
  BY <1>1, <1>2, <1>5, <1>7, <1>8 DEF Files
<1>10. WriteCapability # NoFile
  <2>1. WriteCapability.version = 4 /\ NoFile.version = 0
    BY <1>8 DEF NoFile
  <2> QED BY <2>1
<1>11. WriteCapability.selections = sel
  BY <1>8
<1> QED BY <1>5, <1>6, <1>9, <1>10, <1>11

\* Saving.
LEMMA StoreSave ==
  ASSUME StoreInv, SaveWallet
  PROVE  StoreInv'
<1>1. file' \in Files
  BY WriteFacts DEF SaveWallet
<1>2. Types'
  BY <1>1 DEF SaveWallet, StoreInv, Types
<1>3. proposal' = proposal /\ proposal.tex \in Nat
  BY DEF SaveWallet, StoreInv, Types
<1>4. proposal.tex > 0 => keys # NoWallet /\ CanSpend(keys)
  BY DEF SaveWallet, StoreInv, OwnKeys
<1> QED BY <1>2, <1>3, <1>4, StoreAside DEF SaveWallet

\* Making a proposal.
LEMMA StorePropose ==
  ASSUME StoreInv, NEW request \in Requests, ProposeTex(request)
  PROVE  StoreInv'
<1>1. Len(rejections) \in Nat
  BY DEF StoreInv, Types
<1>2. ChangeMemo(request, Len(rejections)) \in Seq(Nat) /\ request.tex \in Nat
  BY <1>1, ChangeMemoFacts
<1>3. proposal' \in [memo : Seq(Nat), tex : Nat, at : Nat]
  BY <1>1, <1>2 DEF ProposeTex
<1>4. Types'
  BY <1>3 DEF ProposeTex, StoreInv, Types
<1> QED BY <1>3, <1>4, StoreAside DEF ProposeTex

\* A step of a caller that is inside new_address: it stays inside, with the same
\* pools or one more of its own keys.
LEMMA StoreCaller ==
  ASSUME StoreInv, NEW c \in Callers, caller[c].pc # "idle", Types',
         UNCHANGED <<keys, ivk, unified, rejections, lock, proposal>>,
         caller'[c].pc # "idle", \A d \in Callers \ {c} : caller'[d] = caller[d],
         DOMAIN caller'[c].got \subseteq CanView(keys), Range(children) \subseteq Range(children'),
         "transparent" \in DOMAIN caller'[c].got =>
           <<Len(unified), caller'[c].got["transparent"]>> \in Range(children')
  PROVE  StoreInv'
<1>1. \A d \in Callers \ {c} : caller[d].pc = "idle" /\ DOMAIN caller[d].got = {}
  BY DEF StoreInv, Holding
<1>2. \A d \in Callers : d = c \/ (caller'[d].pc = "idle" /\ DOMAIN caller'[d].got = {})
  BY <1>1
<1>3. lock /\ keys # NoWallet
  BY DEF StoreInv, Holding
<1>4. Holding'
  BY <1>2, <1>3 DEF Holding
<1>5. OwnKeys'
  BY <1>2, <1>3 DEF StoreInv, OwnKeys
<1>6. Noted'
  <2>1. ChildrenListed'
    BY DEF StoreInv, Noted, ChildrenListed
  <2> QED BY <1>2, <2>1 DEF Noted
<1> QED BY <1>4, <1>5, <1>6 DEF StoreInv

\* The way out of new_address, with or without a new address.
LEMMA StoreRelease ==
  ASSUME StoreInv, NEW c \in Callers, caller[c].pc # "idle", Release(c),
         UNCHANGED <<keys, tkey, ivk, account, rejections, file, proposal, chain>>,
         \/ unified' = unified
         \/ unified' = Append(unified, caller[c].got) /\ ~(DOMAIN caller[c].got \subseteq {"transparent"})
  PROVE  StoreInv'
<1> DEFINE a == caller[c].got
<1>1. /\ unified \in Seq(Addresses) /\ caller \in [Callers -> CallerStates] /\ a \in Addresses
      /\ children' = children /\ caller' = [caller EXCEPT ![c] = Idle] /\ lock' = FALSE
  BY CallerFields DEF StoreInv, Types, Release
<1>2. caller' \in [Callers -> CallerStates] /\ caller'[c] = Idle /\ \A d \in Callers \ {c} : caller'[d] = caller[d]
  BY <1>1, IdleType
<1>3. \A d \in Callers \ {c} : caller[d].pc = "idle" /\ DOMAIN caller[d].got = {}
  BY DEF StoreInv, Holding
<1>4. \A d \in Callers : caller'[d].pc = "idle" /\ DOMAIN caller'[d].got = {}
  BY <1>2, <1>3, IdleType
<1>5. keys # NoWallet
  BY DEF StoreInv, Holding
<1>6. /\ DOMAIN a \subseteq CanView(keys)
      /\ "transparent" \in DOMAIN a => <<Len(unified), a["transparent"]>> \in Range(children)
  BY <1>5 DEF StoreInv, OwnKeys, Noted
<1> HIDE DEF a
<1>7. ASSUME NEW i \in DOMAIN unified'
      PROVE  \/ i \in DOMAIN unified /\ unified'[i] = unified[i]
             \/ (i - 1 = Len(unified) /\ unified'[i] = a /\ ~(DOMAIN a \subseteq {"transparent"}))
  <2>1. CASE unified' = unified
    BY <2>1
  <2>2. CASE unified' = Append(unified, a) /\ ~(DOMAIN a \subseteq {"transparent"})
    <3> DEFINE n == Len(unified)
    <3>1. n \in Nat /\ DOMAIN unified = 1 .. n
      BY <1>1, Elements
    <3>2. DOMAIN Append(unified, a) = 1 .. (n + 1) /\ Append(unified, a)[n + 1] = a
      BY <1>1
    <3>3. \A k \in 1 .. n : Append(unified, a)[k] = unified[k]
      BY <1>1
    <3> HIDE DEF n
    <3>4. CASE i \in 1 .. n
      BY <2>2, <3>1, <3>3, <3>4
    <3>5. CASE i = n + 1
      <4>1. i - 1 = n
        BY <3>1, <3>5
      <4>2. unified'[i] = a
        BY <2>2, <3>2, <3>5
      <4> QED BY <2>2, <4>1, <4>2 DEF n
    <3>6. i \in 1 .. n \/ i = n + 1
      <4>1. i \in 1 .. (n + 1)
        BY <2>2, <3>2
      <4> QED BY <3>1, <4>1
    <3> QED BY <3>4, <3>5, <3>6
  <2> QED BY <2>1, <2>2 DEF a
<1>8. unified' \in Seq(Addresses)
  BY <1>1 DEF a
<1>9. Types'
  BY <1>1, <1>2, <1>8 DEF StoreInv, Types
<1>10. Holding'
  BY <1>4, <1>5 DEF Holding
<1>11. OwnKeys'
  <2>1. \A i \in DOMAIN unified' : /\ DOMAIN unified'[i] \subseteq CanView(keys)
                                   /\ ~(DOMAIN unified'[i] \subseteq {"transparent"})
    <3> TAKE i \in DOMAIN unified'
    <3>1. CASE i \in DOMAIN unified /\ unified'[i] = unified[i]
      BY <1>5, <3>1 DEF StoreInv, OwnKeys
    <3>2. CASE unified'[i] = a /\ ~(DOMAIN a \subseteq {"transparent"})
      BY <1>6, <3>2
    <3> QED BY <1>7, <3>1, <3>2
  <2> QED BY <1>4, <1>5, <2>1 DEF StoreInv, OwnKeys
<1>12. Noted'
  <2>1. ASSUME NEW i \in DOMAIN unified', "transparent" \in DOMAIN unified'[i]
        PROVE  <<i - 1, unified'[i]["transparent"]>> \in Range(children)
    <3>1. CASE i \in DOMAIN unified /\ unified'[i] = unified[i]
      BY <2>1, <3>1 DEF StoreInv, Noted, ChildrenListed
    <3>2. CASE i - 1 = Len(unified) /\ unified'[i] = a
      BY <1>6, <2>1, <3>2
    <3> QED BY <1>7, <3>1, <3>2
  <2> QED BY <1>1, <1>4, <2>1 DEF Noted, ChildrenListed
<1> QED BY <1>9, <1>10, <1>11, <1>12 DEF StoreInv

\* Taking the flag.
LEMMA StoreTake ==
  ASSUME StoreInv, NEW c \in Callers, NEW want \in Wanted, TakeLock(c, want)
  PROVE  StoreInv'
<1> DEFINE st == [Idle EXCEPT !.pc = "orchard", !.want = want, !.before = Len(unified)]
<1>1. caller \in [Callers -> CallerStates] /\ Len(unified) \in Nat /\ want \in SUBSET Pools
  BY AskedAssumption DEF StoreInv, Types
<1>2. st = [pc |-> "orchard", want |-> want, got |-> Idle.got, before |-> Len(unified)]
  <2> DEFINE e == [p \in {} |-> <<>>]
  <2>1. Idle = [pc |-> "idle", want |-> {}, got |-> e, before |-> 0]
    BY DEF Idle
  <2> HIDE DEF e
  <2>2. Idle.got = e
    BY <2>1
  <2> DEFINE i1 == [pc |-> "orchard", want |-> {}, got |-> e, before |-> 0]
             i2 == [pc |-> "orchard", want |-> want, got |-> e, before |-> 0]
             i3 == [pc |-> "orchard", want |-> want, got |-> e, before |-> Len(unified)]
  <2>3. [Idle EXCEPT !.pc = "orchard"] = i1
    BY <2>1
  <2>4. [i1 EXCEPT !.want = want] = i2
    OBVIOUS
  <2>5. [i2 EXCEPT !.before = Len(unified)] = i3
    OBVIOUS
  <2>6. st = [[[Idle EXCEPT !.pc = "orchard"] EXCEPT !.want = want] EXCEPT !.before = Len(unified)]
    OBVIOUS
  <2> HIDE DEF i1, i2
  <2>7. st = i3
    BY <2>3, <2>4, <2>5, <2>6, Zenon
  <2> QED BY <2>2, <2>7
<1>3. caller' = [caller EXCEPT ![c] = st]
  BY DEF TakeLock
<1> HIDE DEF st
<1>4. st \in CallerStates /\ st.pc = "orchard" /\ DOMAIN st.got = {}
  <2>1. Idle.got \in Addresses /\ DOMAIN Idle.got = {} /\ "orchard" \in Pcs
    BY IdleType, CallerFields DEF Pcs
  <2> QED BY <1>1, <1>2, <2>1 DEF CallerStates
<1>5. caller' \in [Callers -> CallerStates] /\ caller'[c] = st /\ \A d \in Callers \ {c} : caller'[d] = caller[d]
  BY <1>1, <1>3, <1>4
<1>6. \A d \in Callers : caller[d].pc = "idle" /\ DOMAIN caller[d].got = {}
  BY DEF StoreInv, Holding, TakeLock
<1>7. keys # NoWallet /\ lock' = TRUE /\ UNCHANGED <<keys, tkey, ivk, account, unified, children, rejections, file, proposal, chain>>
  BY DEF TakeLock
<1>8. \A d \in Callers : DOMAIN caller'[d].got = {} /\ (d = c \/ caller'[d].pc = "idle")
  BY <1>4, <1>5, <1>6
<1>9. Types'
  BY <1>5, <1>7 DEF StoreInv, Types
<1>10. Holding'
  BY <1>7, <1>8 DEF Holding
<1>11. OwnKeys'
  BY <1>7, <1>8 DEF StoreInv, OwnKeys
<1>12. Noted'
  BY <1>7, <1>8 DEF StoreInv, Noted, ChildrenListed
<1> QED BY <1>9, <1>10, <1>11, <1>12 DEF StoreInv

\* The orchard receiver, the sapling receiver.
LEMMA StoreShielded ==
  ASSUME StoreInv, NEW c \in Callers, NEW p \in {"orchard", "sapling"},
         NEW next \in {"sapling", "transparent"}, ShieldedReceiver(c, p, next)
  PROVE  StoreInv'
<1>1. /\ caller \in [Callers -> CallerStates] /\ tkey \in TransparentKeys /\ Len(unified) \in Nat
      /\ caller[c] \in CallerStates
  BY DEF StoreInv, Types
<1>2. p \in Pcs /\ next \in Pcs /\ next # "idle" /\ p \in Pools /\ p # "transparent"
  BY DEF Pcs, Pools
<1>3. caller[c].pc = p /\ caller[c].pc # "idle"
  BY DEF ShieldedReceiver, At
<1>4. UNCHANGED <<keys, tkey, ivk, account, unified, rejections, file, proposal, chain>>
  BY DEF ShieldedReceiver
<1>5. keys # NoWallet /\ DOMAIN caller[c].got \subseteq CanView(keys)
  BY <1>3 DEF StoreInv, Holding, OwnKeys
<1>6. "transparent" \in DOMAIN caller[c].got =>
        <<Len(unified), caller[c].got["transparent"]>> \in Range(children)
  BY DEF StoreInv, Noted
<1>7. CASE Goes(c, next) /\ UNCHANGED <<lock, children>>
  <2>1. caller' = [caller EXCEPT ![c].pc = next]
    BY <1>7 DEF Goes
  <2>2. /\ caller' \in [Callers -> CallerStates]
        /\ caller'[c].pc = next /\ caller'[c].got = caller[c].got
        /\ \A d \in Callers \ {c} : caller'[d] = caller[d]
    BY <1>1, <1>2, <2>1, GoesFacts
  <2>3. Types'
    BY <1>4, <1>7, <2>2 DEF StoreInv, Types
  <2> QED BY <1>2, <1>3, <1>4, <1>5, <1>6, <1>7, <2>2, <2>3, StoreCaller
<1>8. CASE p \in CanView(keys) /\ Adds(c, p, next) /\ UNCHANGED <<lock, children>>
  <2> DEFINE r == Receiver(p, tkey, FALSE, Len(unified))
             w == With(caller[c].got, p, r)
  <2>1. r \in Seq(Nat)
    BY <1>1, ReceiverType
  <2>2. caller' = GoesWith(caller, c, next, p, r)
    BY <1>8 DEF Adds, GoesWith
  <2> HIDE DEF r
  <2>3. /\ caller' \in [Callers -> CallerStates]
        /\ caller'[c].pc = next /\ caller'[c].got = w
        /\ \A d \in Callers \ {c} : caller'[d] = caller[d]
    <3>1. Moved(GoesWith(caller, c, next, p, r), caller, c, next, With(caller[c].got, p, r))
      BY <1>1, <1>2, <2>1, AddsFacts
    <3> QED BY <2>2, <3>1 DEF Moved
  <2>4. caller[c].got \in Addresses
    BY <1>1, CallerFields
  <2>5. DOMAIN w = DOMAIN caller[c].got \cup {p} /\ \A q \in DOMAIN caller[c].got \ {p} : w[q] = caller[c].got[q]
    BY <1>2, <2>1, <2>4, AddReceiver
  <2> HIDE DEF w
  <2>6. Types'
    BY <1>4, <1>8, <2>3 DEF StoreInv, Types
  <2>7. DOMAIN w \subseteq CanView(keys) /\ ("transparent" \in DOMAIN w => w["transparent"] = caller[c].got["transparent"] /\ "transparent" \in DOMAIN caller[c].got)
    BY <1>2, <1>5, <1>8, <2>5
  <2> QED BY <1>2, <1>3, <1>4, <1>6, <1>8, <2>3, <2>6, <2>7, StoreCaller
<1>9. CASE Release(c)
  BY <1>3, <1>4, <1>9, StoreRelease
<1> QED BY <1>7, <1>8, <1>9 DEF ShieldedReceiver

\* The transparent receiver.
LEMMA StoreTransparent ==
  ASSUME StoreInv, NEW c \in Callers, TransparentReceiver(c) \/ DerivationFails(c)
  PROVE  StoreInv'
<1>1. /\ caller \in [Callers -> CallerStates] /\ tkey \in TransparentKeys /\ Len(unified) \in Nat
      /\ caller[c] \in CallerStates /\ children \in Seq(Nat \X Seq(Nat))
  BY DEF StoreInv, Types
<1>2. "transparent" \in Pools /\ {"assemble", "failed"} \subseteq Pcs
  BY DEF Pcs, Pools
<1>3. caller[c].pc # "idle"
  BY DEF TransparentReceiver, DerivationFails, At
<1>4. UNCHANGED <<keys, tkey, ivk, account, unified, rejections, lock, file, proposal, chain>>
  BY DEF TransparentReceiver, DerivationFails
<1>5. keys # NoWallet /\ DOMAIN caller[c].got \subseteq CanView(keys)
  BY <1>3 DEF StoreInv, Holding, OwnKeys
<1>6. "transparent" \in DOMAIN caller[c].got =>
        <<Len(unified), caller[c].got["transparent"]>> \in Range(children)
  BY DEF StoreInv, Noted
<1>7. ASSUME NEW next \in {"assemble", "failed"}, Goes(c, next), UNCHANGED children
      PROVE  StoreInv'
  <2>1. caller' = [caller EXCEPT ![c].pc = next] /\ next \in Pcs /\ next # "idle"
    BY <1>2, <1>7 DEF Goes
  <2>2. /\ caller' \in [Callers -> CallerStates]
        /\ caller'[c].pc = next /\ caller'[c].got = caller[c].got
        /\ \A d \in Callers \ {c} : caller'[d] = caller[d]
    BY <1>1, <2>1, GoesFacts
  <2>3. Types'
    BY <1>4, <1>7, <2>2 DEF StoreInv, Types
  <2> QED BY <1>3, <1>4, <1>5, <1>6, <1>7, <2>1, <2>2, <2>3, StoreCaller
<1> DEFINE r == Receiver("transparent", tkey, FALSE, Len(unified))
           e == <<Len(unified), r>>
<1>8. CASE /\ "transparent" \in CanView(keys)
           /\ children' = Append(children, e) /\ Adds(c, "transparent", "assemble")
  <2> DEFINE w == With(caller[c].got, "transparent", r)
  <2>1. r \in Seq(Nat)
    BY <1>1, ReceiverType
  <2>2. caller' = GoesWith(caller, c, "assemble", "transparent", r)
    BY <1>8 DEF Adds, GoesWith
  <2> HIDE DEF r
  <2>3. /\ caller' \in [Callers -> CallerStates]
        /\ caller'[c].pc = "assemble" /\ caller'[c].got = w
        /\ \A d \in Callers \ {c} : caller'[d] = caller[d]
    <3>1. Moved(GoesWith(caller, c, "assemble", "transparent", r), caller, c, "assemble",
                With(caller[c].got, "transparent", r))
      BY <1>1, <1>2, <2>1, AddsFacts
    <3> QED BY <2>2, <3>1 DEF Moved
  <2>4. caller[c].got \in Addresses
    BY <1>1, CallerFields
  <2>5. DOMAIN w = DOMAIN caller[c].got \cup {"transparent"} /\ w["transparent"] = r
    BY <1>2, <2>1, <2>4, AddReceiver
  <2> HIDE DEF w
  <2>6. e \in Nat \X Seq(Nat)
    BY <1>1, <2>1
  <2>7. e = <<Len(unified), w["transparent"]>>
    BY <2>5
  <2> HIDE DEF e
  <2>8. children' \in Seq(Nat \X Seq(Nat)) /\ Range(children) \subseteq Range(children') /\ e \in Range(children')
    <3>1. Append(children, e) \in Seq(Nat \X Seq(Nat))
      BY <1>1, <2>6
    <3>2. Range(children) \subseteq Range(Append(children, e)) /\ e \in Range(Append(children, e))
      BY <1>1, <2>6, AppendRange
    <3> QED BY <1>8, <3>1, <3>2
  <2>9. Types'
    BY <1>4, <2>3, <2>8 DEF StoreInv, Types
  <2>10. DOMAIN w \subseteq CanView(keys)
    BY <1>5, <1>8, <2>5
  <2> QED BY <1>3, <1>4, <2>3, <2>7, <2>8, <2>9, <2>10, StoreCaller
<1>9. CASE TransparentReceiver(c)
  <2>1. \/ Goes(c, "assemble") /\ UNCHANGED children
        \/ /\ "transparent" \in CanView(keys)
           /\ children' = Append(children, e) /\ Adds(c, "transparent", "assemble")
    BY <1>9 DEF TransparentReceiver
  <2> QED BY <1>7, <1>8, <2>1
<1>10. CASE DerivationFails(c)
  BY <1>7, <1>10 DEF DerivationFails
<1> QED BY <1>9, <1>10

\* The address is put together.
LEMMA StoreAssemble ==
  ASSUME StoreInv, NEW c \in Callers, Assemble(c)
  PROVE  StoreInv'
<1>1. caller[c].pc # "idle" /\ Release(c) /\ UNCHANGED <<keys, tkey, ivk, account, rejections, file, proposal, chain>>
  BY DEF Assemble, At
<1>2. \/ unified' = unified
      \/ unified' = Append(unified, caller[c].got) /\ ~(DOMAIN caller[c].got \subseteq {"transparent"})
  BY DEF Assemble
<1> QED BY <1>1, <1>2, StoreRelease

\* More rejection addresses.
LEMMA StoreRejections ==
  ASSUME StoreInv, NEW n \in Nat, NEW tk \in TransparentKeys, rejections' = MoreRejections(rejections, tk, n),
         keys # NoWallet, "transparent" \in CanView(keys), chain' \in Seq(Sends),
         UNCHANGED <<keys, tkey, ivk, account, unified, children, lock, caller, file, proposal>>
  PROVE  StoreInv'
<1>1. rejections \in Seq(Seq(Nat))
  BY DEF StoreInv, Types
<1>2. rejections' \in Seq(Seq(Nat))
  BY <1>1, RejectionFacts
<1>3. Types'
  BY <1>2 DEF StoreInv, Types
<1>4. Holding'
  BY DEF StoreInv, Holding
<1>5. OwnKeys'
  BY DEF StoreInv, OwnKeys
<1>6. Noted'
  BY DEF StoreInv, Noted, ChildrenListed
<1> QED BY <1>3, <1>4, <1>5, <1>6 DEF StoreInv

\* A send to a TEX address; a memo found on the chain.
LEMMA StoreSend ==
  ASSUME StoreInv, SendTex \/ \E s \in DOMAIN chain : ScanMemo(s)
  PROVE  StoreInv'
<1>1. /\ proposal.memo \in Seq(Nat) /\ proposal.tex \in Nat /\ Len(rejections) \in Nat /\ chain \in Seq(Sends)
  BY DEF StoreInv, Types
<1>2. CASE SendTex
  <2>1. keys # NoWallet /\ CanSpend(keys)
    <3>1. proposal.tex > 0
      BY <1>2 DEF SendTex
    <3>2. keys # NoWallet
      BY <1>1, <3>1 DEF StoreInv, Holding
    <3> QED BY <3>1, <3>2 DEF StoreInv, OwnKeys
  <2>2. chain' \in Seq(Sends)
    <3> DEFINE x == [memo |-> proposal.memo, used |-> Len(rejections)]
    <3>1. x \in Sends
      BY <1>1 DEF Sends
    <3>2. chain' = Append(chain, x)
      BY <1>2 DEF SendTex
    <3> HIDE DEF x
    <3> QED BY <1>1, <3>1, <3>2
  <2>3. /\ rejections' = MoreRejections(rejections, ivk, 1) /\ 1 \in Nat /\ ivk # NoIvk
        /\ UNCHANGED <<keys, tkey, ivk, account, unified, children, lock, caller, file, proposal>>
    BY <1>2 DEF SendTex
  <2>4. "transparent" \in CanView(keys)
    BY <2>1, SpendViews
  <2>5. ivk \in TransparentKeys
    BY <2>3 DEF StoreInv, Types
  <2> QED BY <2>1, <2>2, <2>3, <2>4, <2>5, StoreRejections
<1>3. CASE \E s \in DOMAIN chain : ScanMemo(s)
  <2>1. PICK s \in DOMAIN chain : ScanMemo(s)
    BY <1>3
  <2> DEFINE n == HandleTexes(Len(rejections), chain[s].memo)
             more == n - Len(rejections)
  <2>2. chain[s].memo \in Seq(Nat)
    <3>1. chain[s] \in Sends
      BY <1>1
    <3> QED BY <3>1 DEF Sends
  <2>3. n \in Nat /\ n >= Len(rejections)
    BY <1>1, <2>2, TexFacts
  <2>4. /\ keys # NoWallet /\ "transparent" \in CanView(keys)
        /\ rejections' = MoreRejections(rejections, tkey, more)
        /\ UNCHANGED <<keys, tkey, ivk, account, unified, children, lock, caller, file, proposal, chain>>
    BY <2>1 DEF ScanMemo
  <2> HIDE DEF n
  <2>5. more \in Nat
    BY <1>1, <2>3
  <2> HIDE DEF more
  <2>6. chain' \in Seq(Sends)
    BY <1>1, <2>4
  <2>7. tkey \in TransparentKeys
    BY DEF StoreInv, Types
  <2> QED BY <2>4, <2>5, <2>6, <2>7, StoreRejections
<1> QED BY <1>2, <1>3

\* Every step keeps what holds always.
LEMMA StoreStep == StoreInv /\ [Next]_vars => StoreInv'
<1> SUFFICES ASSUME StoreInv, [Next]_vars PROVE StoreInv'
  OBVIOUS
<1>1. ASSUME NEW ks \in Stores, NEW a \in Accounts, CreateWallet(ks, a) PROVE StoreInv'
  BY <1>1, StoreCreate
<1>2. CASE LoadWallet
  BY <1>2, StoreLoad
<1>3. CASE SaveWallet
  BY <1>3, StoreSave
<1>4. ASSUME NEW c \in Callers, NEW want \in Wanted, TakeLock(c, want) PROVE StoreInv'
  BY <1>4, StoreTake
<1>5. ASSUME NEW c \in Callers, OrchardReceiver(c) PROVE StoreInv'
  BY <1>5, StoreShielded DEF OrchardReceiver
<1>6. ASSUME NEW c \in Callers, SaplingReceiver(c) PROVE StoreInv'
  BY <1>6, StoreShielded DEF SaplingReceiver
<1>7. ASSUME NEW c \in Callers, TransparentReceiver(c) \/ DerivationFails(c) PROVE StoreInv'
  BY <1>7, StoreTransparent
<1>8. ASSUME NEW c \in Callers, Assemble(c) PROVE StoreInv'
  BY <1>8, StoreAssemble
<1>9. ASSUME NEW request \in Requests, ProposeTex(request) PROVE StoreInv'
  BY <1>9, StorePropose
<1>10. CASE SendTex \/ \E s \in DOMAIN chain : ScanMemo(s)
  BY <1>10, StoreSend
<1>11. CASE UNCHANGED vars
  <2>1. UNCHANGED <<keys, tkey, ivk, account, unified, children, rejections, lock, caller, file, proposal, chain>>
    BY <1>11 DEF vars
  <2>2. Types'
    BY <2>1 DEF StoreInv, Types
  <2>3. proposal.tex \in Nat /\ (proposal.tex > 0 => keys # NoWallet /\ CanSpend(keys))
    <3>1. proposal.tex \in Nat
      BY DEF StoreInv, Types
    <3>2. proposal.tex > 0 => keys # NoWallet
      BY <3>1 DEF StoreInv, Holding
    <3> QED BY <3>1, <3>2 DEF StoreInv, OwnKeys
  <2> QED BY <2>1, <2>2, <2>3, StoreAside
<1> QED BY <1>1, <1>2, <1>3, <1>4, <1>5, <1>6, <1>7, <1>8, <1>9, <1>10, <1>11 DEF Next

\* What holds of every state, whatever the files, the keys and the requests.
LEMMA StoreAlways == Spec => []StoreInv
BY StoreInit, StoreStep, PTL DEF Spec

\* The fields of the capability keep their types: a path is a sequence of numbers,
\* an address has receivers of some pools, whoever derived it.
THEOREM KeyStoreTyped == Spec => []TypeOK
<1>1. StoreInv => TypeOK
  <2> SUFFICES ASSUME StoreInv PROVE TypeOK
    OBVIOUS
  <2>1. \A a \in Addresses : IsAddress(a)
    BY AddressFacts DEF IsAddress
  <2>2. \A i \in DOMAIN unified : IsAddress(unified[i])
    BY <2>1, Elements DEF StoreInv, Types
  <2>3. \A i \in DOMAIN children : children[i] \in Nat \X Seq(Nat)
    BY Elements DEF StoreInv, Types
  <2>4. \A c \in Callers : /\ caller[c].pc \in Pcs /\ caller[c].want \subseteq Pools
                           /\ IsAddress(caller[c].got) /\ caller[c].before \in Nat
    <3> TAKE c \in Callers
    <3>1. caller[c] \in CallerStates
      BY DEF StoreInv, Types
    <3> QED BY <2>1, <3>1, CallerFields
  <2>5. \A s \in DOMAIN chain : chain[s].used \in Nat
    <3> TAKE s \in DOMAIN chain
    <3>1. chain[s] \in Sends
      BY Elements DEF StoreInv, Types
    <3> QED BY <3>1 DEF Sends
  <2>6. Len(ivk) \in 0 .. 2
    <3>1. Len(NoIvk) = 0
      BY DEF NoIvk
    <3>2. \A k \in TransparentKeys : Len(k) \in 0 .. 2
      BY DEF TransparentKeys
    <3> QED BY <3>1, <3>2 DEF StoreInv, Types
  <2> QED BY <2>2, <2>3, <2>4, <2>5, <2>6 DEF StoreInv, Types, TypeOK, TransparentKeys
<1> QED BY <1>1, StoreAlways, PTL

\* The transparent receiver of every address is among the children at its place:
\* new_address notes it before the address is put together, and reading a file
\* notes it again (generate_transparent_receiver).
THEOREM ChildrenAlwaysListed == Spec => []ChildrenListed
<1>1. StoreInv => ChildrenListed
  BY DEF StoreInv, Noted
<1> QED BY <1>1, StoreAlways, PTL

-----------------------------------------------------------------------------
(* The memos of sends.                                                        *)

\* The initial state, and the steps.
LEMMA NamedStep ==
  ASSUME FreshOnly, MemosFit
  PROVE  /\ Init => Named
         /\ StoreInv /\ Named /\ [Next]_vars => Named'
<1>1. Init => Named
  BY DEF Init, NoProposal, Named
<1>2. ASSUME StoreInv, Named, [Next]_vars PROVE Named'
  <2>1. ASSUME NEW request \in Requests, ProposeTex(request) PROVE Named'
    <3>1. Len(rejections) \in Nat
      BY <1>2 DEF StoreInv, Types
    <3>2. request.tex > 0 => Names(ChangeMemo(request, Len(rejections)), Len(rejections))
      BY <3>1, ChangeMemoFacts
    <3>3. /\ proposal'.memo = ChangeMemo(request, Len(rejections)) /\ proposal'.tex = request.tex
          /\ proposal'.at = Len(rejections) /\ chain' = chain
      BY <2>1 DEF ProposeTex
    <3> QED BY <1>2, <3>2, <3>3 DEF Named
  <2>2. CASE SendTex
    <3> DEFINE x == [memo |-> proposal.memo, used |-> Len(rejections)]
               n == Len(chain)
    <3>1. chain \in Seq(Sends) /\ proposal.memo \in Seq(Nat) /\ Len(rejections) \in Nat
      BY <1>2 DEF StoreInv, Types
    <3>2. x \in Sends
      BY <3>1 DEF Sends
    <3>3. proposal.tex > 0 /\ proposal.at = Len(rejections) /\ chain' = Append(chain, x) /\ proposal' = proposal
      BY <2>2 DEF SendTex
    <3>4. Names(x.memo, x.used)
      BY <1>2, <3>3 DEF Named
    <3> HIDE DEF x
    <3>5. n \in Nat /\ DOMAIN chain = 1 .. n
      BY <3>1, Elements
    <3>6. DOMAIN Append(chain, x) = 1 .. (n + 1) /\ Append(chain, x)[n + 1] = x
      BY <3>1, <3>2
    <3>7. \A i \in 1 .. n : Append(chain, x)[i] = chain[i]
      BY <3>1, <3>2
    <3> HIDE DEF n
    <3>8. ASSUME NEW i \in 1 .. (n + 1) PROVE Names(Append(chain, x)[i].memo, Append(chain, x)[i].used)
      <4>1. CASE i \in 1 .. n
        BY <1>2, <3>5, <3>7, <4>1 DEF Named
      <4>2. CASE i = n + 1
        BY <3>4, <3>6, <4>2
      <4> QED BY <3>5, <4>1, <4>2
    <3> QED BY <1>2, <3>3, <3>6, <3>8 DEF Named
  <2>3. CASE LoadWallet
    BY <1>2, <2>3 DEF LoadWallet, NoProposal, Named
  <2>4. CASE UNCHANGED <<proposal, chain>>
    BY <1>2, <2>4 DEF Named
  <2>5. \/ UNCHANGED <<proposal, chain>> \/ LoadWallet \/ SendTex
        \/ \E request \in Requests : ProposeTex(request)
    BY <1>2 DEF Next, vars, CreateWallet, SaveWallet, TakeLock, OrchardReceiver, SaplingReceiver,
                ShieldedReceiver, TransparentReceiver, DerivationFails, Assemble, ScanMemo
  <2> QED BY <2>1, <2>2, <2>3, <2>4, <2>5
<1> QED BY <1>1, <1>2

\* A wallet restored from the seed knows every rejection address that was used:
\* if the memos fit and every proposal is sent before another rejection address
\* is taken, reading the memos in chain order gets past each used index, however
\* many sends there were (change_memo_from_transaction_request, handle_texes).
THEOREM MemosCover ==
  ASSUME FreshOnly, MemosFit
  PROVE  Spec => []MemoCoversUsed
<1>1. StoreInv /\ Named => MemoCoversUsed
  <2> SUFFICES ASSUME StoreInv, Named PROVE MemoCoversUsed
    OBVIOUS
  <2>1. chain \in Seq(Sends) /\ \A i \in DOMAIN chain : Names(chain[i].memo, chain[i].used)
    BY DEF StoreInv, Types, Named
  <2> QED BY <2>1, RestoredFacts DEF MemoCoversUsed
<1>2. Init => Named
  BY NamedStep
<1>3. StoreInv /\ Named /\ [Next]_vars => Named'
  BY NamedStep
<1> QED BY <1>1, <1>2, <1>3, StoreAlways, PTL DEF Spec

-----------------------------------------------------------------------------
(* Places are indices.                                                        *)

\* The paths of the two kinds of transparent key.
LEMMA Paths ==
  ASSUME NEW a \in Nat, NEW i \in Nat, NEW x \in Nat
  PROVE  /\ <<a>> \o <<x, i>> = <<a, x, i>> /\ Append(<<a, x>>, i) = <<a, x, i>>
         /\ Head(<<a>>) = a /\ Head(<<a, x>>) = a
<1>1. <<a>> \o <<x, i>> = <<a, x, i>>
  <2> DEFINE s == <<a>> \o <<x, i>>
             t == <<a, x, i>>
  <2>1. <<a>> \in Seq(Nat) /\ <<x, i>> \in Seq(Nat) /\ Len(<<a>>) = 1 /\ Len(<<x, i>>) = 2
    OBVIOUS
  <2>2. s \in Seq(Nat) /\ Len(s) = 3
    BY <2>1
  <2>3. t \in Seq(Nat) /\ Len(t) = 3
    OBVIOUS
  <2>4. s[1] = a /\ s[2] = x /\ s[3] = i
    OBVIOUS
  <2>5. t[1] = a /\ t[2] = x /\ t[3] = i
    OBVIOUS
  <2> HIDE DEF s, t
  <2>6. \A k \in 1 .. 3 : s[k] = t[k]
    BY <2>4, <2>5
  <2>7. Len(s) = Len(t) /\ \A k \in 1 .. Len(s) : s[k] = t[k]
    BY <2>2, <2>3, <2>6
  <2>8. s = t
    BY <2>2, <2>3, <2>7, SeqEqual
  <2> QED BY <2>8 DEF s, t
<1>2. Append(<<a, x>>, i) = <<a, x, i>>
  <2> DEFINE s == Append(<<a, x>>, i)
             t == <<a, x, i>>
  <2>1. <<a, x>> \in Seq(Nat) /\ Len(<<a, x>>) = 2
    OBVIOUS
  <2>2. s \in Seq(Nat) /\ Len(s) = 3
    BY <2>1
  <2>3. t \in Seq(Nat) /\ Len(t) = 3
    OBVIOUS
  <2>4. s[1] = a /\ s[2] = x /\ s[3] = i
    OBVIOUS
  <2>5. t[1] = a /\ t[2] = x /\ t[3] = i
    OBVIOUS
  <2> HIDE DEF s, t
  <2>6. \A k \in 1 .. 3 : s[k] = t[k]
    BY <2>4, <2>5
  <2>7. Len(s) = Len(t) /\ \A k \in 1 .. Len(s) : s[k] = t[k]
    BY <2>2, <2>3, <2>6
  <2>8. s = t
    BY <2>2, <2>3, <2>7, SeqEqual
  <2> QED BY <2>8 DEF s, t
<1>3. Head(<<a>>) = a
  OBVIOUS
<1>4. Head(<<a, x>>) = a
  OBVIOUS
<1> QED BY <1>1, <1>2, <1>3, <1>4

\* A receiver is derived in the account at the index it is asked for: with the
\* key of the account, or with a legacy key that is told apart.
LEMMA ReceiverPlace ==
  ASSUME NEW p, NEW ks, NEW tk, NEW legacy \in BOOLEAN, NEW a \in Nat, NEW i \in Nat,
         p \in CanView(ks), legacy => tk = <<a, 0>>, ~legacy => KeyOf(tk, a, ks)
  PROVE  Receiver(p, tk, legacy, i) = <<a, 0, i>>
<1>1. CASE ~legacy /\ tk = <<a>>
  <2>1. Head(tk) = a /\ tk \o <<0, i>> = <<a, 0, i>>
    BY <1>1, Paths
  <2> QED BY <1>1, <2>1 DEF Receiver
<1>2. CASE ~legacy /\ tk = <<a, 0>> /\ "transparent" \notin CanView(ks)
  <2>1. Head(tk) = a
    BY <1>2, Paths
  <2>2. p # "transparent"
    <3> DEFINE V == CanView(ks)
    <3>1. p \in V /\ "transparent" \notin V
      BY <1>2
    <3> HIDE DEF V
    <3> QED BY <3>1, Zenon
  <2> QED BY <2>1, <2>2 DEF Receiver
<1>3. CASE legacy
  <2>1. tk = <<a, 0>> /\ 0 \in Nat
    BY <1>3
  <2>2. Head(<<a, 0>>) = a /\ Append(<<a, 0>>, i) = <<a, 0, i>>
    BY <2>1, Paths
  <2>3. Head(tk) = a /\ Append(tk, i) = <<a, 0, i>>
    BY <2>1, <2>2, Zenon
  <2> QED BY <1>3, <2>3 DEF Receiver
<1> QED BY <1>1, <1>2, <1>3 DEF KeyOf

\* A rejection address is at its index.
LEMMA RejectionPlace ==
  ASSUME NEW ks, NEW tk, NEW a \in Nat, NEW i \in Nat, KeyOf(tk, a, ks), "transparent" \in CanView(ks)
  PROVE  tk \o <<2, i>> = <<a, 2, i>>
<1>1. tk = <<a>>
  BY DEF KeyOf
<1> QED BY <1>1, Paths

\* More rejection addresses, after some that are at their places.
LEMMA RejectionsPlaced ==
  ASSUME NEW rs \in Seq(Seq(Nat)), NEW ks, NEW tk \in TransparentKeys, NEW a \in Nat, NEW n \in Nat,
         \A i \in DOMAIN rs : rs[i] = <<a, 2, i - 1>>,
         n = 0 \/ (KeyOf(tk, a, ks) /\ "transparent" \in CanView(ks))
  PROVE  LET more == MoreRejections(rs, tk, n)
         IN \A i \in DOMAIN more : more[i] = <<a, 2, i - 1>>
<1> DEFINE more == MoreRejections(rs, tk, n)
           m == Len(rs)
<1>1. /\ more \in Seq(Seq(Nat)) /\ Len(more) = m + n
      /\ \A i \in 1 .. m : more[i] = rs[i]
      /\ \A i \in m + 1 .. m + n : more[i] = tk \o <<2, i - 1>>
  BY RejectionFacts
<1> HIDE DEF more
<1>2. m \in Nat /\ DOMAIN rs = 1 .. m
  BY Elements
<1>3. DOMAIN more = 1 .. (m + n)
  BY <1>1, Elements
<1> HIDE DEF m
<1>4. ASSUME NEW i \in 1 .. (m + n) PROVE more[i] = <<a, 2, i - 1>>
  <2>1. CASE i \in 1 .. m
    BY <1>1, <1>2, <2>1
  <2>2. CASE i \in m + 1 .. m + n
    <3>1. i - 1 \in Nat /\ n # 0
      BY <1>2, <2>2
    <3>2. tk \o <<2, i - 1>> = <<a, 2, i - 1>>
      BY <3>1, RejectionPlace
    <3> QED BY <1>1, <2>2, <3>2
  <2> QED BY <1>2, <2>1, <2>2
<1> QED BY <1>3, <1>4 DEF more

\* The addresses of a file are at their places, if its key is that of its account
\* or a legacy key of it that is known as such.
LEMMA AddressesPlaced ==
  ASSUME NEW f \in Files, Readable(f), Legacy(f) => f.tkey = <<f.account, 0>>,
         ~Legacy(f) => KeyOf(f.tkey, f.account, ReadKeys(f))
  PROVE  \A i \in DOMAIN ReadAddresses(f) : \A p \in DOMAIN ReadAddresses(f)[i] :
           ReadAddresses(f)[i][p] = <<f.account, 0, i - 1>>
<1> DEFINE ks == ReadKeys(f)
<1>1. f.account \in Nat
  BY DEF Files
<1>5. ASSUME NEW i \in DOMAIN ReadAddresses(f), NEW p \in DOMAIN ReadAddresses(f)[i]
      PROVE  ReadAddresses(f)[i][p] = <<f.account, 0, i - 1>>
  <2> DEFINE sel == ReadSelection(f.selections[i])
  <2>1. i \in Nat \ {0} /\ ReadAddresses(f)[i] = Receivers(ks, f.tkey, Legacy(f), sel, i - 1)
    BY ReadFacts
  <2>2. Receivers(ks, f.tkey, Legacy(f), sel, i - 1) =
          [q \in sel \cap CanView(ks) |-> Receiver(q, f.tkey, Legacy(f), i - 1)]
    BY DEF Receivers
  <2> HIDE DEF ks, sel
  <2>3. p \in CanView(ks) /\ ReadAddresses(f)[i][p] = Receiver(p, f.tkey, Legacy(f), i - 1)
    BY <1>5, <2>1, <2>2
  <2>4. i - 1 \in Nat
    BY <2>1
  <2> DEFINE j == i - 1
             tk == f.tkey
             a == f.account
             l == Legacy(f)
  <2>5. /\ j \in Nat /\ a \in Nat /\ l \in BOOLEAN
        /\ (l => tk = <<a, 0>>) /\ (~l => KeyOf(tk, a, ks))
    BY <1>1, <2>4 DEF Legacy, ks
  <2> HIDE DEF j, tk, a, l
  <2>6. Receiver(p, tk, l, j) = <<a, 0, j>>
    BY <2>3, <2>5, ReceiverPlace
  <2> QED BY <2>3, <2>6 DEF j, tk, a, l
<1> QED BY <1>5

\* A known file gives addresses at their places, with the key of its version, if
\* the wallet then has the key of its account.
LEMMA ReadPlaced ==
  ASSUME NEW f \in Files, Readable(f), FileKnown(f), KeyOf(LoadedKey(f), f.account, LoadedKeys(f))
  PROVE  /\ \A i \in DOMAIN ReadAddresses(f) : \A p \in DOMAIN ReadAddresses(f)[i] :
              ReadAddresses(f)[i][p] = <<f.account, 0, i - 1>>
         /\ f.rejections = 0 \/ (KeyOf(f.tkey, f.account, ReadKeys(f)) /\ "transparent" \in CanView(ReadKeys(f)))
<1> DEFINE ks == ReadKeys(f)
<1>1. f.version \in 1 .. 4 /\ f.account \in Nat /\ f.seed \in BOOLEAN /\ f.rejections \in Nat
  BY DEF Files
<1> DEFINE A == Legacy(f) => f.tkey = <<f.account, 0>>
           B == ~Legacy(f) => KeyOf(f.tkey, f.account, ks)
           D == f.rejections = 0 \/ (KeyOf(f.tkey, f.account, ks) /\ "transparent" \in CanView(ks))
<1>2. B
  <2>1. ~Legacy(f) => LoadedKey(f) = f.tkey /\ LoadedKeys(f) = ks
    BY DEF LoadedKey, LoadedKeys, Derived
  <2> QED BY <2>1
<1>3. ASSUME f \in LegacyFiles PROVE A /\ D
  <2>1. f.rejections = 0 /\ f.tkey = IF f.version <= 2 THEN <<f.account, 0>> ELSE <<f.account>>
    BY <1>3, FilesAssumption
  <2> QED BY <2>1 DEF Legacy
<1>4. ASSUME f.version = 4 PROVE A /\ D
  <2>1. ~Legacy(f)
    BY <1>4 DEF Legacy
  <2>2. f.rejections = 0 \/ "transparent" \in CanView(ks)
    BY <1>1 DEF Readable
  <2> QED BY <1>2, <2>1, <2>2
<1> HIDE DEF A, B, D
<1>5. A /\ D
  BY <1>3, <1>4 DEF FileKnown, Readable
<1>6. \A i \in DOMAIN ReadAddresses(f) : \A p \in DOMAIN ReadAddresses(f)[i] :
        ReadAddresses(f)[i][p] = <<f.account, 0, i - 1>>
  BY <1>2, <1>5, AddressesPlaced DEF A, B
<1> QED BY <1>5, <1>6 DEF D

\* The initial state.
LEMMA PlacedInit == Init => Placed
<1> SUFFICES ASSUME Init PROVE Placed
  OBVIOUS
<1>1. \A c \in Callers : DOMAIN caller[c].got = {}
  BY IdleType DEF Init
<1> QED BY <1>1 DEF Init, Placed, OwnPlaced, FileKnown, PositionIsIndex, KeyOf

\* A new wallet.
LEMMA PlacedCreate ==
  ASSUME StoreInv, Placed, NEW ks \in Stores, NEW a \in Accounts, CreateWallet(ks, a)
  PROVE  Placed'
<1> DEFINE no == FALSE
           zero == 0
           key == <<a>>
           first == Receivers(ks, key, no, CanView(ks), zero)
<1>1. a \in Nat
  BY AskedAssumption
<1>2. KeyOf(key, a, ks) /\ no \in BOOLEAN /\ ~no /\ zero \in Nat
  BY DEF KeyOf
<1>3. first = [p \in CanView(ks) \cap CanView(ks) |-> Receiver(p, key, no, zero)]
  BY DEF Receivers
<1>4. /\ keys = NoWallet /\ file = NoFile /\ tkey' = key /\ account' = a /\ keys' = ks /\ unified' = <<first>>
      /\ UNCHANGED <<rejections, caller, file>>
  BY DEF CreateWallet
<1> HIDE DEF no, zero, key
<1>5. ASSUME NEW p \in CanView(ks) PROVE Receiver(p, key, no, zero) = <<a, 0, zero>>
  BY <1>1, <1>2, ReceiverPlace
<1>6. \A p \in DOMAIN first : first[p] = <<a, 0, zero>>
  BY <1>3, <1>5
<1> HIDE DEF first
<1>7. DOMAIN unified' = {1} /\ unified'[1] = first
  BY <1>4
<1>8. rejections = <<>> /\ \A c \in Callers : DOMAIN caller[c].got = {}
  BY <1>4 DEF StoreInv, Holding
<1>9. \A i \in DOMAIN unified' : \A p \in DOMAIN unified'[i] : unified'[i][p] = <<a, 0, i - 1>>
  BY <1>6, <1>7 DEF zero
<1>10. PositionIsIndex'
  BY <1>4, <1>8, <1>9 DEF PositionIsIndex
<1> QED BY <1>2, <1>4, <1>8, <1>10 DEF Placed, OwnPlaced, FileKnown

\* Starting from a file.
LEMMA PlacedLoad ==
  ASSUME StoreInv, Placed, LoadWallet
  PROVE  Placed'
<1>1. file \in Files /\ Readable(file) /\ file # NoFile
  <2>1. Readable(file) /\ file # NoFile
    BY DEF LoadWallet, Readable
  <2> QED BY <2>1 DEF StoreInv, Types
<1>2. /\ keys' = LoadedKeys(file) /\ account' = file.account /\ unified' = ReadAddresses(file)
      /\ tkey' = LoadedKey(file)
      /\ rejections' = MoreRejections(<<>>, file.tkey, file.rejections)
      /\ caller' = [c \in Callers |-> Idle] /\ file' = file
  BY DEF LoadWallet
<1>3. FileKnown(file')
  BY <1>2 DEF Placed
<1> SUFFICES ASSUME KeyOf(tkey', account', keys') PROVE OwnPlaced'
  BY <1>3 DEF Placed
<1>4. /\ \A i \in DOMAIN ReadAddresses(file) : \A p \in DOMAIN ReadAddresses(file)[i] :
           ReadAddresses(file)[i][p] = <<file.account, 0, i - 1>>
      /\ file.rejections = 0 \/ (KeyOf(file.tkey, file.account, ReadKeys(file)) /\ "transparent" \in CanView(ReadKeys(file)))
  <2>1. FileKnown(file) /\ KeyOf(LoadedKey(file), file.account, LoadedKeys(file))
    BY <1>2 DEF Placed
  <2> QED BY <1>1, <2>1, ReadPlaced
<1>5. file.tkey \in TransparentKeys /\ file.rejections \in Nat /\ file.account \in Nat
  BY <1>1 DEF Files
<1>6. \A i \in DOMAIN rejections' : rejections'[i] = <<file.account, 2, i - 1>>
  <2> DEFINE none == <<>>
             tk == file.tkey
             n == file.rejections
             a == file.account
             ks == ReadKeys(file)
  <2>1. none \in Seq(Seq(Nat)) /\ DOMAIN none = {}
    OBVIOUS
  <2>2. rejections' = MoreRejections(none, tk, n)
    BY <1>2
  <2>3. /\ tk \in TransparentKeys /\ n \in Nat /\ a \in Nat
        /\ n = 0 \/ (KeyOf(tk, a, ks) /\ "transparent" \in CanView(ks))
    BY <1>4, <1>5
  <2> HIDE DEF none, tk, n, a, ks
  <2>4. \A i \in DOMAIN none : none[i] = <<a, 2, i - 1>>
    BY <2>1
  <2>5. \A i \in DOMAIN MoreRejections(none, tk, n) : MoreRejections(none, tk, n)[i] = <<a, 2, i - 1>>
    BY <2>1, <2>3, <2>4, RejectionsPlaced
  <2> QED BY <2>2, <2>5 DEF a
<1>7. PositionIsIndex'
  BY <1>2, <1>4, <1>6 DEF PositionIsIndex
<1>8. \A c \in Callers : DOMAIN caller'[c].got = {}
  BY <1>2, IdleType
<1> QED BY <1>7, <1>8 DEF OwnPlaced

\* More rejection addresses.
LEMMA PlacedRejections ==
  ASSUME StoreInv, OwnPlaced, NEW n \in Nat, IvkOf(ivk, tkey) => rejections' = MoreRejections(rejections, tkey, n),
         "transparent" \in CanView(keys), UNCHANGED <<keys, tkey, ivk, account, unified, caller, file>>
  PROVE  OwnPlaced'
<1>1. rejections \in Seq(Seq(Nat)) /\ tkey \in TransparentKeys /\ account \in Nat
  BY DEF StoreInv, Types
<1>2. KeyOf(tkey, account, keys)
  BY DEF OwnPlaced
<1>3. ASSUME IvkOf(ivk, tkey)
      PROVE  \A i \in DOMAIN rejections' : rejections'[i] = <<account, 2, i - 1>>
  <2>1. \A i \in DOMAIN rejections : rejections[i] = <<account, 2, i - 1>>
    BY <1>2, <1>3 DEF OwnPlaced, PositionIsIndex
  <2>2. \A i \in DOMAIN MoreRejections(rejections, tkey, n) :
          MoreRejections(rejections, tkey, n)[i] = <<account, 2, i - 1>>
    BY <1>1, <1>2, <2>1, RejectionsPlaced
  <2> QED BY <1>3, <2>2
<1>4. PositionIsIndex'
  BY <1>2, <1>3 DEF OwnPlaced, PositionIsIndex
<1> QED BY <1>4 DEF OwnPlaced

\* A caller that stays inside new_address.
LEMMA PlacedCaller ==
  ASSUME OwnPlaced, NEW c \in Callers, UNCHANGED <<keys, tkey, ivk, account, unified, rejections, file>>,
         \A d \in Callers \ {c} : caller'[d] = caller[d],
         \A p \in DOMAIN caller'[c].got : caller'[c].got[p] = <<account, 0, Len(unified)>>
  PROVE  OwnPlaced'
<1>1. PositionIsIndex'
  BY DEF OwnPlaced, PositionIsIndex
<1>2. \A d \in Callers : \A p \in DOMAIN caller'[d].got : caller'[d].got[p] = <<account, 0, Len(unified)>>
  BY DEF OwnPlaced
<1> QED BY <1>1, <1>2 DEF OwnPlaced

\* A receiver more is at the index of the next address.
LEMMA PlacedAdds ==
  ASSUME StoreInv, OwnPlaced, NEW c \in Callers, NEW p \in Pools, NEW pc \in Pcs, Adds(c, p, pc), p \in CanView(keys),
         UNCHANGED <<keys, tkey, ivk, account, unified, rejections, file>>
  PROVE  OwnPlaced'
<1> DEFINE no == FALSE
           n == Len(unified)
           r == Receiver(p, tkey, no, n)
           w == With(caller[c].got, p, r)
<1>1. n \in Nat /\ account \in Nat /\ tkey \in TransparentKeys /\ caller \in [Callers -> CallerStates] /\ caller[c] \in CallerStates
  BY DEF StoreInv, Types
<1>2. caller' = GoesWith(caller, c, pc, p, r)
  BY DEF Adds, GoesWith
<1>3. no \in BOOLEAN /\ ~no /\ KeyOf(tkey, account, keys)
  BY DEF OwnPlaced
<1>4. \A q \in DOMAIN caller[c].got : caller[c].got[q] = <<account, 0, n>>
  BY DEF OwnPlaced
<1> HIDE DEF no, n
<1>5. r = <<account, 0, n>>
  <2> DEFINE at == account
             ks == keys
             tk == tkey
  <2>1. /\ p \in CanView(ks) /\ no \in BOOLEAN /\ at \in Nat /\ n \in Nat
        /\ (no => tk = <<at, 0>>) /\ (~no => KeyOf(tk, at, ks))
    BY <1>1, <1>3
  <2> HIDE DEF at, ks, tk
  <2>2. Receiver(p, tk, no, n) = <<at, 0, n>>
    BY <2>1, ReceiverPlace
  <2> QED BY <2>2 DEF at, tk
<1>6. r \in Seq(Nat)
  BY <1>1, ReceiverType
<1> HIDE DEF r
<1>7. caller[c].got \in Addresses
  BY <1>1, CallerFields
<1>8. DOMAIN w = DOMAIN caller[c].got \cup {p} /\ w[p] = r /\ \A q \in DOMAIN caller[c].got \ {p} : w[q] = caller[c].got[q]
  BY <1>6, <1>7, AddReceiver
<1>9. Moved(GoesWith(caller, c, pc, p, r), caller, c, pc, w)
  BY <1>1, <1>6, AddsFacts
<1> HIDE DEF w
<1>10. caller'[c].got = w /\ \A d \in Callers \ {c} : caller'[d] = caller[d]
  BY <1>2, <1>9 DEF Moved
<1>11. \A q \in DOMAIN w : w[q] = <<account, 0, n>>
  BY <1>4, <1>5, <1>8
<1>12. \A q \in DOMAIN caller'[c].got : caller'[c].got[q] = <<account, 0, Len(unified)>>
  BY <1>10, <1>11 DEF n
<1> QED BY <1>10, <1>12, PlacedCaller

\* The way out of new_address.
LEMMA PlacedRelease ==
  ASSUME StoreInv, OwnPlaced, NEW c \in Callers, caller[c].pc # "idle", Release(c),
         UNCHANGED <<keys, tkey, ivk, account, rejections, file>>,
         unified' = unified \/ unified' = Append(unified, caller[c].got)
  PROVE  OwnPlaced'
<1> DEFINE a == caller[c].got
           n == Len(unified)
<1>1. /\ unified \in Seq(Addresses) /\ caller \in [Callers -> CallerStates] /\ a \in Addresses
      /\ caller' = [caller EXCEPT ![c] = Idle]
  BY CallerFields DEF StoreInv, Types, Release
<1>2. \A d \in Callers : DOMAIN caller'[d].got = {}
  <2>1. caller'[c] = Idle /\ \A d \in Callers \ {c} : caller'[d] = caller[d]
    BY <1>1, IdleType
  <2>2. \A d \in Callers \ {c} : DOMAIN caller[d].got = {}
    BY DEF StoreInv, Holding
  <2> QED BY <2>1, <2>2, IdleType
<1>3. n \in Nat /\ DOMAIN unified = 1 .. n
  BY <1>1, Elements
<1>4. \A p \in DOMAIN a : a[p] = <<account, 0, n>>
  BY DEF OwnPlaced
<1>5. \A i \in 1 .. n : \A p \in DOMAIN unified[i] : unified[i][p] = <<account, 0, i - 1>>
  BY <1>3 DEF OwnPlaced, PositionIsIndex
<1>6. \A i \in DOMAIN unified' : \A p \in DOMAIN unified'[i] : unified'[i][p] = <<account, 0, i - 1>>
  <2>1. CASE unified' = unified
    BY <1>3, <1>5, <2>1
  <2>2. CASE unified' = Append(unified, a)
    <3>1. DOMAIN Append(unified, a) = 1 .. (n + 1) /\ Append(unified, a)[n + 1] = a
      BY <1>1
    <3>2. \A k \in 1 .. n : Append(unified, a)[k] = unified[k]
      BY <1>1
    <3> HIDE DEF n, a
    <3>3. ASSUME NEW i \in 1 .. (n + 1), NEW p \in DOMAIN unified'[i]
          PROVE  unified'[i][p] = <<account, 0, i - 1>>
      <4>1. CASE i \in 1 .. n
        BY <1>5, <2>2, <3>2, <3>3, <4>1
      <4>2. CASE i = n + 1
        <5>1. unified'[i] = a /\ i - 1 = n
          BY <1>3, <2>2, <3>1, <4>2
        <5> QED BY <1>4, <3>3, <5>1
      <4> QED BY <1>3, <4>1, <4>2
    <3> QED BY <2>2, <3>1, <3>3
  <2> QED BY <2>1, <2>2
<1>7. PositionIsIndex'
  BY <1>6 DEF OwnPlaced, PositionIsIndex
<1> QED BY <1>2, <1>7 DEF OwnPlaced

\* The steps of a running process.
Running ==
  \/ SaveWallet
  \/ \E c \in Callers :
       \/ \E want \in Wanted : TakeLock(c, want)
       \/ OrchardReceiver(c) \/ SaplingReceiver(c) \/ TransparentReceiver(c)
       \/ DerivationFails(c) \/ Assemble(c)
  \/ \E request \in Requests : ProposeTex(request)
  \/ SendTex
  \/ \E s \in DOMAIN chain : ScanMemo(s)
  \/ UNCHANGED vars

\* They keep places and indices together.
LEMMA OwnStep ==
  ASSUME StoreInv, OwnPlaced, Running
  PROVE  OwnPlaced'
<1>4. ASSUME UNCHANGED <<keys, tkey, ivk, account, unified, rejections, caller>> PROVE OwnPlaced'
  <2>1. PositionIsIndex'
    BY <1>4 DEF OwnPlaced, PositionIsIndex
  <2> QED BY <1>4, <2>1 DEF OwnPlaced
<1>3. CASE SaveWallet
  BY <1>3, <1>4 DEF SaveWallet
<1>5. ASSUME NEW c \in Callers, NEW want \in Wanted, TakeLock(c, want) PROVE OwnPlaced'
  <2> DEFINE st == [Idle EXCEPT !.pc = "orchard", !.want = want, !.before = Len(unified)]
  <2>1. caller' = [caller EXCEPT ![c] = st] /\ UNCHANGED <<keys, tkey, ivk, account, unified, rejections, file>>
    BY <1>5 DEF TakeLock
  <2>2. st.got = Idle.got
    BY DEF Idle
  <2> HIDE DEF st
  <2>3. caller \in [Callers -> CallerStates]
    BY DEF StoreInv, Types
  <2>4. caller'[c].got = Idle.got /\ \A d \in Callers \ {c} : caller'[d] = caller[d]
    BY <2>1, <2>2, <2>3
  <2>5. DOMAIN caller'[c].got = {}
    BY <2>4, IdleType
  <2> QED BY <2>1, <2>4, <2>5, PlacedCaller
<1>6. ASSUME NEW c \in Callers, NEW pc \in Pcs, Goes(c, pc),
             UNCHANGED <<keys, tkey, ivk, account, unified, rejections, file>>
      PROVE  OwnPlaced'
  <2>1. caller \in [Callers -> CallerStates] /\ caller' = [caller EXCEPT ![c].pc = pc]
    BY <1>6 DEF StoreInv, Types, Goes
  <2>2. caller'[c].got = caller[c].got /\ \A d \in Callers \ {c} : caller'[d] = caller[d]
    BY <2>1, GoesFacts
  <2>3. \A p \in DOMAIN caller'[c].got : caller'[c].got[p] = <<account, 0, Len(unified)>>
    BY <2>2 DEF OwnPlaced
  <2> QED BY <1>6, <2>2, <2>3, PlacedCaller
<1>7. ASSUME NEW c \in Callers, NEW p \in {"orchard", "sapling"}, NEW next \in {"sapling", "transparent"},
             ShieldedReceiver(c, p, next)
      PROVE  OwnPlaced'
  <2>1. p \in Pools /\ next \in Pcs /\ caller[c].pc # "idle" /\ UNCHANGED <<keys, tkey, ivk, account, unified, rejections, file>>
    BY <1>7 DEF Pools, Pcs, ShieldedReceiver, At
  <2>2. Goes(c, next) \/ Release(c) \/ (p \in CanView(keys) /\ Adds(c, p, next))
    BY <1>7 DEF ShieldedReceiver
  <2> QED BY <1>6, <2>1, <2>2, PlacedRelease, PlacedAdds
<1>8. ASSUME NEW c \in Callers, TransparentReceiver(c) \/ DerivationFails(c) PROVE OwnPlaced'
  <2>1. "transparent" \in Pools /\ "assemble" \in Pcs /\ "failed" \in Pcs
        /\ UNCHANGED <<keys, tkey, ivk, account, unified, rejections, file>>
    BY <1>8 DEF Pools, Pcs, TransparentReceiver, DerivationFails
  <2>2. \/ Goes(c, "assemble") \/ Goes(c, "failed")
        \/ "transparent" \in CanView(keys) /\ Adds(c, "transparent", "assemble")
    BY <1>8 DEF TransparentReceiver, DerivationFails
  <2> QED BY <1>6, <2>1, <2>2, PlacedAdds
<1>9. ASSUME NEW c \in Callers, Assemble(c) PROVE OwnPlaced'
  <2>1. /\ caller[c].pc # "idle" /\ Release(c) /\ UNCHANGED <<keys, tkey, ivk, account, rejections, file>>
        /\ unified' = unified \/ unified' = Append(unified, caller[c].got)
    BY <1>9 DEF Assemble, At
  <2> QED BY <2>1, PlacedRelease
<1>10. ASSUME NEW request \in Requests, ProposeTex(request) PROVE OwnPlaced'
  BY <1>4, <1>10 DEF ProposeTex
<1>11. CASE SendTex
  <2>1. proposal.tex > 0 /\ proposal.tex \in Nat
    BY <1>11 DEF SendTex, StoreInv, Types
  <2>2. keys # NoWallet
    BY <2>1 DEF StoreInv, Holding
  <2>3. "transparent" \in CanView(keys)
    BY <2>1, <2>2, SpendViews DEF StoreInv, OwnKeys
  <2>4. /\ 1 \in Nat /\ UNCHANGED <<keys, tkey, ivk, account, unified, caller, file>>
        /\ IvkOf(ivk, tkey) => rejections' = MoreRejections(rejections, tkey, 1)
    BY <1>11 DEF SendTex, IvkOf
  <2> QED BY <2>3, <2>4, PlacedRejections
<1>12. ASSUME NEW s \in DOMAIN chain, ScanMemo(s) PROVE OwnPlaced'
  <2> DEFINE n == HandleTexes(Len(rejections), chain[s].memo)
             more == n - Len(rejections)
  <2>1. chain[s].memo \in Seq(Nat) /\ Len(rejections) \in Nat
    <3>1. chain[s] \in Sends /\ rejections \in Seq(Seq(Nat))
      BY <1>12, Elements DEF StoreInv, Types
    <3> QED BY <3>1 DEF Sends
  <2>2. n \in Nat /\ n >= Len(rejections)
    BY <2>1, TexFacts
  <2>3. /\ "transparent" \in CanView(keys) /\ rejections' = MoreRejections(rejections, tkey, more)
        /\ UNCHANGED <<keys, tkey, ivk, account, unified, caller, file>>
    BY <1>12 DEF ScanMemo
  <2> HIDE DEF n
  <2>4. more \in Nat
    BY <2>1, <2>2
  <2> HIDE DEF more
  <2> QED BY <2>3, <2>4, PlacedRejections
<1>13. CASE UNCHANGED vars
  BY <1>4, <1>13 DEF vars
<1>14. ASSUME NEW c \in Callers, OrchardReceiver(c) \/ SaplingReceiver(c) PROVE OwnPlaced'
  BY <1>7, <1>14 DEF OrchardReceiver, SaplingReceiver
<1> QED BY <1>3, <1>5, <1>8, <1>9, <1>10, <1>11, <1>12, <1>13, <1>14 DEF Running

\* Every step keeps places and indices together.
LEMMA PlacedStep ==
  ASSUME StoreInv, Placed, [Next]_vars
  PROVE  Placed'
<1>1. ASSUME NEW ks \in Stores, NEW a \in Accounts, CreateWallet(ks, a) PROVE Placed'
  BY <1>1, PlacedCreate
<1>2. CASE LoadWallet
  BY <1>2, PlacedLoad
<1>3. CASE Running
  <2>1. UNCHANGED <<keys, tkey, account>> /\ (file' = file \/ SaveWallet)
    BY <1>3 DEF Running, SaveWallet, TakeLock, OrchardReceiver, SaplingReceiver, ShieldedReceiver,
                TransparentReceiver, DerivationFails, Assemble, ProposeTex, SendTex, ScanMemo, vars
  <2>2. SaveWallet => file'.version = 4 /\ file'.keys = keys /\ keys \in UnifiedKeyStores
    BY DEF SaveWallet, WriteCapability, StoreInv, Types
  <2>3. FileKnown(file')
    BY <2>1, <2>2 DEF Placed, FileKnown
  <2>4. ASSUME KeyOf(tkey', account', keys') PROVE OwnPlaced'
    <3>1. KeyOf(tkey, account, keys)
      BY <2>1, <2>4
    <3> QED BY <1>3, <3>1, OwnStep DEF Placed
  <2> QED BY <2>3, <2>4 DEF Placed
<1> QED BY <1>1, <1>2, <1>3 DEF Next, Running

\* Places and indices together, in every state.
LEMMA PlacedAlways == Spec => [](StoreInv /\ Placed)
<1>1. Init => StoreInv /\ Placed
  BY StoreInit, PlacedInit
<1>2. StoreInv /\ Placed /\ [Next]_vars => (StoreInv /\ Placed)'
  BY StoreStep, PlacedStep
<1> QED BY <1>1, <1>2, PTL DEF Spec

\* In a wallet that has the key of its account, the place of an address is the
\* index it is derived at, and with the rejection key made from that key the same
\* holds of a rejection address: for any callers of new_address in any order, failed
\* calls included, and after any reading of files of any version (new_address,
\* WalletCapability::read, reserve_next_n_ephemeral_addresses).
THEOREM PlacesAreIndices == Spec => []PositionIsIndex
<1>1. StoreInv /\ Placed => PositionIsIndex
  BY DEF Placed, OwnPlaced, PositionIsIndex
<1> QED BY <1>1, PlacedAlways, PTL

\* What WalletCapability::write would write at any moment can be read again and
\* gives the same lists of addresses.
LEMMA ReadsBack == StoreInv /\ Placed => ReloadSame
<1> SUFFICES ASSUME StoreInv, Placed, keys # NoWallet
             PROVE  /\ Readable(WriteCapability)
                    /\ KeyOf(tkey, account, keys) =>
                         /\ ReadAddresses(WriteCapability) = unified
                         /\ IvkOf(ivk, tkey) =>
                              MoreRejections(<<>>, WriteCapability.tkey, WriteCapability.rejections) = rejections
  BY DEF ReloadSame
<1> DEFINE f == WriteCapability
<1>1. /\ f \in Files /\ f # NoFile /\ DOMAIN f.selections = DOMAIN unified
      /\ \A i \in DOMAIN unified : ReadSelection(f.selections[i]) = DOMAIN unified[i]
  BY WriteFacts
<1>2. f.version = 4 /\ f.keys = keys /\ f.tkey = tkey /\ f.account = account /\ f.rejections = Len(rejections)
  BY DEF WriteCapability
<1>3. /\ keys \in UnifiedKeyStores /\ tkey \in TransparentKeys /\ account \in Nat
      /\ unified \in Seq(Addresses) /\ rejections \in Seq(Seq(Nat))
  BY DEF StoreInv, Types
<1> HIDE DEF f
<1>4. ReadKeys(f) = keys /\ ~Legacy(f)
  BY <1>2, <1>3, StoreFacts DEF Legacy
<1>5. \A i \in DOMAIN unified : DOMAIN unified[i] \subseteq CanView(keys) /\ ~(DOMAIN unified[i] \subseteq {"transparent"})
  BY DEF StoreInv, OwnKeys
<1>6. \A i \in DOMAIN f.selections : Derivable(ReadKeys(f), ReadSelection(f.selections[i]))
  <2> TAKE i \in DOMAIN f.selections
  <2>1. ReadSelection(f.selections[i]) = DOMAIN unified[i] /\ i \in DOMAIN unified
    BY <1>1
  <2>2. Derivable(keys, DOMAIN unified[i])
    BY <1>5, <2>1 DEF Derivable
  <2> QED BY <1>4, <2>1, <2>2
<1>7. f.rejections > 0 => "transparent" \in CanView(keys)
  <2>1. f.rejections > 0 => rejections # <<>>
    BY <1>2, <1>3
  <2> QED BY <2>1 DEF StoreInv, OwnKeys
<1>8. Readable(f)
  BY <1>1, <1>3, <1>4, <1>6, <1>7 DEF Readable
<1>9. ASSUME KeyOf(tkey, account, keys) PROVE ReadAddresses(f) = unified
  <2> DEFINE n == Len(unified)
  <2>1. n \in Nat /\ DOMAIN unified = 1 .. n /\ \A i \in 1 .. n : unified[i] \in Addresses
    BY <1>3, Elements
  <2>2. /\ ReadAddresses(f) \in Seq(Addresses) /\ DOMAIN ReadAddresses(f) = 1 .. n
    <3>1. ReadAddresses(f) \in Seq(Addresses)
      BY <1>1, <1>8, ReadFacts
    <3>2. DOMAIN ReadAddresses(f) = DOMAIN f.selections
      BY DEF ReadAddresses
    <3> QED BY <1>1, <2>1, <3>1, <3>2
  <2>3. ASSUME NEW i \in 1 .. n PROVE ReadAddresses(f)[i] = unified[i]
    <3> DEFINE D == DOMAIN unified[i]
               u == ReadAddresses(f)[i]
    <3>1. u = Receivers(keys, tkey, Legacy(f), D, i - 1)
      <4>1. ReadAddresses(f)[i] = Receivers(ReadKeys(f), f.tkey, Legacy(f), ReadSelection(f.selections[i]), i - 1)
        BY <1>1, <1>8, <2>2, ReadFacts
      <4>2. ReadSelection(f.selections[i]) = D
        BY <1>1, <2>1
      <4> HIDE DEF D
      <4> QED BY <1>2, <1>4, <4>1, <4>2
    <3>2. D \cap CanView(keys) = D
      BY <1>5, <2>1
    <3>3. DOMAIN u = D
      BY <3>1, <3>2 DEF Receivers
    <3>4. \A p \in D : u[p] = <<account, 0, i - 1>>
      <4>1. \A k \in DOMAIN ReadAddresses(f) : \A p \in DOMAIN ReadAddresses(f)[k] :
              ReadAddresses(f)[k][p] = <<f.account, 0, k - 1>>
        <5>1. KeyOf(f.tkey, f.account, ReadKeys(f))
          BY <1>2, <1>4, <1>9
        <5> QED BY <1>1, <1>4, <1>8, <5>1, AddressesPlaced
      <4> QED BY <1>2, <2>2, <3>3, <4>1
    <3>5. \A p \in D : unified[i][p] = <<account, 0, i - 1>>
      BY <1>9, <2>1 DEF Placed, OwnPlaced, PositionIsIndex
    <3>6. u \in Addresses /\ unified[i] \in Addresses
      BY <2>1, <2>2
    <3>7. u = [p \in DOMAIN u |-> u[p]] /\ unified[i] = [p \in D |-> unified[i][p]]
      BY <3>6, AddressFacts
    <3> HIDE DEF u, D
    <3>8. \A p \in D : u[p] = unified[i][p]
      BY <3>4, <3>5
    <3>9. u = unified[i]
      BY <3>3, <3>7, <3>8
    <3> QED BY <3>9 DEF u
  <2>4. Len(ReadAddresses(f)) = n
    BY <2>1, <2>2, Elements
  <2> QED BY <1>3, <2>1, <2>2, <2>3, <2>4, SeqEqual
<1>10. ASSUME KeyOf(tkey, account, keys), IvkOf(ivk, tkey)
       PROVE  MoreRejections(<<>>, f.tkey, f.rejections) = rejections
  <2> DEFINE none == <<>>
             n == Len(rejections)
             rs == MoreRejections(none, tkey, n)
  <2>1. none \in Seq(Seq(Nat)) /\ Len(none) = 0 /\ n \in Nat /\ DOMAIN none = {} /\ DOMAIN rejections = 1 .. n
    BY <1>3
  <2> HIDE DEF none, n
  <2>2. rs \in Seq(Seq(Nat)) /\ Len(rs) = Len(none) + n
    BY <1>3, <2>1, RejectionFacts
  <2>3. n = 0 \/ (KeyOf(tkey, account, keys) /\ "transparent" \in CanView(keys))
    <3>1. n = 0 \/ f.rejections > 0
      BY <1>2, <2>1 DEF n
    <3> QED BY <1>7, <1>10, <3>1
  <2>4. \A i \in DOMAIN none : none[i] = <<account, 2, i - 1>>
    BY <2>1
  <2>5. \A i \in DOMAIN rs : rs[i] = <<account, 2, i - 1>>
    <3> DEFINE ks == keys
    <3>1. n = 0 \/ (KeyOf(tkey, account, ks) /\ "transparent" \in CanView(ks))
      BY <2>3
    <3> DEFINE tk == tkey
               a == account
    <3>2. /\ tk \in TransparentKeys /\ a \in Nat /\ none \in Seq(Seq(Nat)) /\ n \in Nat
          /\ (\A i \in DOMAIN none : none[i] = <<a, 2, i - 1>>)
          /\ n = 0 \/ (KeyOf(tk, a, ks) /\ "transparent" \in CanView(ks))
      BY <1>3, <2>1, <2>4, <3>1
    <3> HIDE DEF ks, tk, a
    <3>3. \A i \in DOMAIN MoreRejections(none, tk, n) : MoreRejections(none, tk, n)[i] = <<a, 2, i - 1>>
      BY <3>2, RejectionsPlaced
    <3> QED BY <3>3 DEF tk, a
  <2>6. \A i \in DOMAIN rejections : rejections[i] = <<account, 2, i - 1>>
    BY <1>10 DEF Placed, OwnPlaced, PositionIsIndex
  <2> HIDE DEF rs
  <2>7. Len(rs) = n /\ DOMAIN rs = 1 .. n
    BY <2>1, <2>2, Elements
  <2>8. Len(rs) = Len(rejections) /\ \A i \in 1 .. Len(rs) : rs[i] = rejections[i]
    BY <2>1, <2>5, <2>6, <2>7 DEF n
  <2>9. rs = rejections
    BY <1>3, <2>2, <2>8, SeqEqual
  <2> QED BY <1>2, <2>9 DEF rs, none, n
<1> QED BY <1>8, <1>9, <1>10 DEF f

\* What would be written can be read in every state, while other callers are in the
\* middle of new_address and after calls of it failed; with the wallet's own keys it
\* gives the same addresses again, in every order of saves, loads and sends.
THEOREM ReloadAlwaysSame == Spec => []ReloadSame
BY ReadsBack, PlacedAlways, PTL
=============================================================================
