------------------------------- MODULE KeyStore -------------------------------
(* The keys and addresses of a wallet (zingolib wallet/keys): WalletCapability, *)
(* its list of unified addresses guarded by a flag that callers swap, its       *)
(* rejection addresses (the ephemeral addresses of sends to a TEX address) and  *)
(* the wallet-internal memos that name them, and the versions of its serialised *)
(* form.  A receiver is the path it is derived on: <<account, scope, index>>,   *)
(* with scope 0 for external and 2 for ephemeral addresses.                     *)
EXTENDS Integers, Sequences, FiniteSets, FiniteSetsExt, SequencesExt

CONSTANTS
  Callers,       \* threads that ask for addresses
  Wanted,        \* the receiver selections they ask for
  Stores,        \* the key stores a wallet is created with
  LegacyFiles,   \* files of older versions a wallet may be read from
  Requests,      \* sends: how many unified and how many TEX recipients
  Accounts,      \* account indices a wallet is created with
  FreshOnly,     \* whether every proposal is sent before anything else happens
  MaxAddresses,  \* bound on the addresses, those of failed calls included
  MaxSends

VARIABLES
  keys,        \* unified_key_store: what each pool can do, or NoWallet
  tkey,        \* the path of the transparent key: its account, then its scope if
               \* it is a legacy key, which is derived one level further
  ivk,         \* rejection_ivk in the wallet's SpendingData: the path of the
               \* transparent key it was made from, or NoIvk
  account,     \* the account index kept with the seed phrase
  unified,     \* unified_addresses
  children,    \* transparent_child_addresses
  rejections,  \* rejection_addresses
  lock,        \* addresses_write_lock
  caller,      \* where each caller is inside new_address
  file,        \* the serialised capability, or NoFile
  proposal,    \* the latest proposal of a send, or NoProposal
  chain        \* the sends with a TEX recipient on the chain

vars == <<keys, tkey, ivk, account, unified, children, rejections, lock, caller, file,
          proposal, chain>>

Pools == {"orchard", "sapling", "transparent"}
Powers == {"none", "view", "spend"}
NoWallet == [p \in {} |-> "none"]
NoIvk == <<>>
NoFile == [version |-> 0]
NoProposal == [memo |-> <<>>, tex |-> 0, at |-> 0]

\* The three variants of UnifiedKeyStore: all spending keys, viewing keys of some
\* pools, or nothing.
UnifiedKeyStores ==
  {[p \in Pools |-> "spend"]}
    \cup {[p \in Pools |-> IF p \in S THEN "view" ELSE "none"] : S \in SUBSET Pools}

CanSpend(ks) == \A p \in Pools : ks[p] = "spend"
CanView(ks) == {p \in Pools : ks[p] # "none"}

\* new_from_ufvk, and reading a viewing key, refuse a key of another network or
\* one that does not parse: only the stores above exist.
ASSUME StoresAssumption == Stores \subseteq UnifiedKeyStores

\* A file of an older version has no rejection addresses.  Version 1 has all
\* spending keys, version 2 a capability for each pool, version 3 a key store; until
\* version 2 the transparent key is the legacy one.
ASSUME FilesAssumption ==
  /\ LegacyFiles \subseteq [version : 1 .. 3, keys : [Pools -> Powers], tkey : Seq(Nat),
                            account : Nat, seed : BOOLEAN, trees : BOOLEAN, rejections : {0},
                            selections : Seq(0 .. 7)]
  /\ \A f \in LegacyFiles :
       /\ f.version = 1 => CanSpend(f.keys)
       /\ f.version = 3 => f.keys \in UnifiedKeyStores
       /\ f.tkey = IF f.version <= 2 THEN <<f.account, 0>> ELSE <<f.account>>

ASSUME AskedAssumption ==
  /\ Wanted \subseteq SUBSET Pools /\ Accounts \subseteq Nat
  /\ Requests \subseteq [uas : Nat, tex : Nat]

-----------------------------------------------------------------------------
(* Deriving receivers.                                                        *)

\* A transparent key is derived to the external scope first, unless the caller
\* says it is a legacy key, which has been derived already.
Receiver(p, tk, legacy, i) ==
  IF p # "transparent" THEN <<Head(tk), 0, i>>
  ELSE IF legacy THEN Append(tk, i) ELSE tk \o <<0, i>>

\* The receivers new_address puts together: a transparent one the keys cannot
\* derive is left out, a shielded one is an error.
Receivers(ks, tk, legacy, want, i) ==
  [p \in want \cap CanView(ks) |-> Receiver(p, tk, legacy, i)]

Derivable(ks, want) ==
  /\ want \ {"transparent"} \subseteq CanView(ks)
  /\ want \ {"transparent"} # {}

\* get_rejection_address_by_index
RejectionAddress(tk, i) == tk \o <<2, i>>

\* new_rejection_address, n times over.
MoreRejections(rs, tk, n) == rs \o [i \in 1 .. n |-> RejectionAddress(tk, Len(rs) + i - 1)]

-----------------------------------------------------------------------------
(* The serialised form.                                                       *)

Bit == [orchard |-> 1, sapling |-> 2, transparent |-> 4]

\* ReceiverSelection as one byte.
WriteSelection(s) == SumFunctionOnSet(Bit, s)
ReadSelection(b) == {p \in Pools : (b \div Bit[p]) % 2 = 1}

\* Mutant: the number of rejection addresses is not written.
WriteCapabilityNoRejections ==
  [version |-> 4, keys |-> keys, tkey |-> tkey, account |-> account,
   seed |-> CanSpend(keys), trees |-> ivk # NoIvk, rejections |-> 0,
   selections |-> [i \in DOMAIN unified |-> WriteSelection(DOMAIN unified[i])]]

\* The capability and, from the rest of the wallet, whether there is a seed phrase
\* and whether the transactions have their witness trees.
WriteCapability ==
  [version |-> 4, keys |-> keys, tkey |-> tkey, account |-> account,
   seed |-> CanSpend(keys), trees |-> ivk # NoIvk, rejections |-> Len(rejections),
   selections |-> [i \in DOMAIN unified |-> WriteSelection(DOMAIN unified[i])]]

Legacy(f) == f.version <= 2

\* Version 2 stores a capability per pool: viewing keys win over spending keys;
\* without them the sapling key decides whether the store is of spending keys, which
\* must then be complete, or empty.
ReadKeys(f) ==
  LET views == {p \in Pools : f.keys[p] = "view"} IN
  IF ~Legacy(f) \/ (views = {} /\ f.keys["sapling"] = "spend") THEN f.keys
  ELSE [p \in Pools |-> IF p \in views THEN "view" ELSE "none"]

\* Mutant: a set of spending keys that is not complete is accepted.
ReadableAnyKeys(f) == f # NoFile

\* The keys a version can hold are a store, a spending wallet older than
\* wallet version 29 has its seed, and every stored selection can be derived.
Readable(f) ==
  /\ f # NoFile
  /\ ReadKeys(f) \in UnifiedKeyStores
  /\ Legacy(f) /\ CanSpend(ReadKeys(f)) => f.seed
  /\ \A i \in DOMAIN f.selections : Derivable(ReadKeys(f), ReadSelection(f.selections[i]))
  /\ f.rejections > 0 => "transparent" \in CanView(ReadKeys(f))

\* The addresses replayed from the selections, in their order.
ReadAddresses(f) ==
  [i \in DOMAIN f.selections |->
     Receivers(ReadKeys(f), f.tkey, Legacy(f), ReadSelection(f.selections[i]), i - 1)]

\* generate_transparent_receiver also notes the address with the length of the list.
ReadChildren(addresses) ==
  LET Note(cs, i) == IF "transparent" \in DOMAIN addresses[i]
                     THEN Append(cs, <<i - 1, addresses[i]["transparent"]>>) ELSE cs
  IN FoldLeftDomain(Note, <<>>, addresses)

\* A wallet of an old version that has its seed phrase then derives its keys again,
\* of account 0; the viewing keys of an old version are kept as they are.
Derived(f) == Legacy(f) /\ f.seed
LoadedKeys(f) == IF Derived(f) THEN [p \in Pools |-> "spend"] ELSE ReadKeys(f)
LoadedKey(f) == IF Derived(f) THEN <<0>> ELSE f.tkey

\* TxMap::read has kept the rejection key of the keys as they were before that, if
\* the file has witness trees; nothing makes it again.
LoadedIvk(f) == IF f.trees /\ "transparent" \in CanView(ReadKeys(f)) THEN f.tkey ELSE NoIvk

-----------------------------------------------------------------------------
(* The wallet-internal memo of a send.                                        *)

CompactSize(n) == IF n < 253 THEN 1 ELSE IF n <= 65535 THEN 3 ELSE 5

\* A unified address of all three receivers: the number of receivers, then a
\* typecode, a length and the bytes of each.
UaBytes == 1 + (2 + 43) + (2 + 43) + (2 + 20)
MemoBytes == 511

MemoSize(uas, indexes) ==
  1 + CompactSize(uas) + uas * UaBytes + CompactSize(Len(indexes))
    + FoldLeft(LAMBDA n, i : n + CompactSize(i), 0, indexes)

\* change_memo_from_transaction_request: one index for every TEX recipient,
\* counted from the rejection addresses there are; a list that does not fit
\* becomes a memo of zeros, which parses as version 0 without addresses.
ChangeMemo(request, n) ==
  LET indexes == [i \in 1 .. request.tex |-> n + i - 1]
  IN IF MemoSize(request.uas, indexes) > MemoBytes THEN <<>> ELSE indexes

\* Mutant: the gap is filled up to the index, without it.
HandleTexesBelow(n, memo) ==
  n + FoldLeft(LAMBDA a, i : a + i - n, 0, SelectSeq(memo, LAMBDA i : i >= n))

\* handle_texes: the number of addresses is read once; an index that is known
\* ends the loop, any other one fills the gap counted from that number.
HandleTexes(n, memo) ==
  LET known == {i \in DOMAIN memo : memo[i] < n}
      handled == IF known = {} THEN Len(memo) ELSE Min(known) - 1
  IN n + FoldLeft(LAMBDA a, i : a + i - n + 1, 0, SubSeq(memo, 1, handled))

\* A wallet restored from the seed reads the memos of its sends in chain order.
Restored(sends) == FoldLeft(LAMBDA n, s : HandleTexes(n, s.memo), 0, sends)

-----------------------------------------------------------------------------
Idle == [pc |-> "idle", want |-> {}, got |-> [p \in {} |-> <<>>], before |-> 0]

Init ==
  /\ keys = NoWallet /\ tkey = <<0>> /\ ivk = NoIvk /\ account = 0
  /\ unified = <<>> /\ children = <<>> /\ rejections = <<>>
  /\ lock = FALSE
  /\ caller = [c \in Callers |-> Idle]
  /\ file \in {NoFile} \cup LegacyFiles
  /\ proposal = NoProposal
  /\ chain = <<>>

\* LightWallet::new: the keys, and a first address of everything they can view.
CreateWallet(ks, a) ==
  /\ keys = NoWallet /\ file = NoFile
  /\ Derivable(ks, CanView(ks))
  /\ keys' = ks /\ tkey' = <<a>> /\ account' = a
  /\ ivk' = IF CanSpend(ks) THEN <<a>> ELSE NoIvk
  /\ unified' = <<Receivers(ks, <<a>>, FALSE, CanView(ks), 0)>>
  /\ children' = ReadChildren(unified')
  /\ UNCHANGED <<rejections, lock, caller, file, proposal, chain>>

\* A process starts from the file: what the last one had in memory is gone.
LoadWallet ==
  /\ Readable(file)
  /\ keys' = LoadedKeys(file) /\ tkey' = LoadedKey(file) /\ ivk' = LoadedIvk(file)
  /\ account' = file.account
  /\ unified' = ReadAddresses(file)
  /\ children' = ReadChildren(unified')
  /\ rejections' = MoreRejections(<<>>, file.tkey, file.rejections)
  /\ lock' = FALSE
  /\ caller' = [c \in Callers |-> Idle]
  /\ proposal' = NoProposal
  /\ UNCHANGED <<file, chain>>

SaveWallet ==
  /\ keys # NoWallet
  /\ file' = WriteCapability
  /\ file' # file
  /\ UNCHANGED <<keys, tkey, ivk, account, unified, children, rejections, lock, caller, proposal, chain>>

-----------------------------------------------------------------------------
(* new_address, one step for each read of the length of the address list.     *)

At(c, pc) == caller[c].pc = pc

Goes(c, pc) == caller' = [caller EXCEPT ![c].pc = pc]

\* Mutant: the flag is set without looking at what it was.
TakeLockAnyway(c, want) ==
  /\ At(c, "idle") /\ keys # NoWallet
  /\ Len(unified) < MaxAddresses /\ Len(children) < MaxAddresses
  /\ lock' = TRUE
  /\ caller' = [caller EXCEPT ![c] = [Idle EXCEPT !.pc = "orchard", !.want = want, !.before = Len(unified)]]
  /\ UNCHANGED <<keys, tkey, ivk, account, unified, children, rejections, file, proposal, chain>>

\* The flag is swapped: a caller that finds it set returns "addresses_write_lock
\* collision!" and nothing has changed.
TakeLock(c, want) ==
  /\ At(c, "idle") /\ keys # NoWallet
  /\ Len(unified) < MaxAddresses /\ Len(children) < MaxAddresses
  /\ ~lock
  /\ lock' = TRUE
  /\ caller' = [caller EXCEPT ![c] = [Idle EXCEPT !.pc = "orchard", !.want = want, !.before = Len(unified)]]
  /\ UNCHANGED <<keys, tkey, ivk, account, unified, children, rejections, file, proposal, chain>>

\* The way out of new_address: the flag is cleared.
Release(c) ==
  /\ lock' = FALSE
  /\ caller' = [caller EXCEPT ![c] = Idle]
  /\ UNCHANGED children

With(a, p, r) == [q \in DOMAIN a \cup {p} |-> IF q = p THEN r ELSE a[q]]

Adds(c, p, next) ==
  caller' = [caller EXCEPT ![c].pc = next,
                           ![c].got = With(@, p, Receiver(p, tkey, FALSE, Len(unified)))]

\* The orchard receiver at the index of the next address, then the sapling one:
\* the key store may have no such key, which ends the call.
ShieldedReceiver(c, p, next) ==
  /\ At(c, p)
  /\ \/ p \notin caller[c].want /\ Goes(c, next) /\ UNCHANGED <<lock, children>>
     \/ p \in caller[c].want /\ p \notin CanView(keys) /\ Release(c)
     \/ p \in caller[c].want /\ p \in CanView(keys) /\ Adds(c, p, next) /\ UNCHANGED <<lock, children>>
  /\ UNCHANGED <<keys, tkey, ivk, account, unified, rejections, file, proposal, chain>>

OrchardReceiver(c) == ShieldedReceiver(c, "orchard", "sapling")
SaplingReceiver(c) == ShieldedReceiver(c, "sapling", "transparent")

\* Mutant: the address is not noted among the children.
TransparentReceiverUnlisted(c) ==
  /\ At(c, "transparent")
  /\ IF "transparent" \in caller[c].want \cap CanView(keys)
     THEN Adds(c, "transparent", "assemble") ELSE Goes(c, "assemble")
  /\ UNCHANGED <<keys, tkey, ivk, account, unified, children, rejections, lock, file, proposal, chain>>

\* generate_transparent_receiver: the address is noted among the children before
\* it is known whether the unified address will be valid; without a key there is
\* no receiver and no error.
TransparentReceiver(c) ==
  /\ At(c, "transparent")
  /\ IF "transparent" \in caller[c].want \cap CanView(keys)
     THEN /\ children' = Append(children, <<Len(unified), Receiver("transparent", tkey, FALSE, Len(unified))>>)
          /\ Adds(c, "transparent", "assemble")
     ELSE Goes(c, "assemble") /\ UNCHANGED children
  /\ UNCHANGED <<keys, tkey, ivk, account, unified, rejections, lock, file, proposal, chain>>

\* An error of the derivation returns at once and leaves the flag set.
DerivationFails(c) ==
  /\ At(c, "transparent") /\ "transparent" \in caller[c].want \cap CanView(keys)
  /\ Goes(c, "failed")
  /\ UNCHANGED <<keys, tkey, ivk, account, unified, children, rejections, lock, file, proposal, chain>>

\* from_receivers needs a shielded receiver.
Assemble(c) ==
  /\ At(c, "assemble")
  /\ unified' = IF DOMAIN caller[c].got \subseteq {"transparent"} THEN unified
                ELSE Append(unified, caller[c].got)
  /\ Release(c)
  /\ UNCHANGED <<keys, tkey, ivk, account, rejections, file, proposal, chain>>

-----------------------------------------------------------------------------
(* Sends to a TEX address.                                                    *)

\* create_send_proposal: the memo of the change is made here.
ProposeTex(request) ==
  /\ keys # NoWallet /\ CanSpend(keys) /\ Len(chain) < MaxSends
  /\ proposal' = [memo |-> ChangeMemo(request, Len(rejections)), tex |-> request.tex, at |-> Len(rejections)]
  /\ UNCHANGED <<keys, tkey, ivk, account, unified, children, rejections, lock, caller, file, chain>>

\* create_transaction: the first step of a proposal with TEX recipients pays one
\* new rejection address, whatever happened since the proposal was made; the
\* proposal stays stored and can be sent again.  The address is made with the
\* rejection key that is kept with the witness trees.
SendTex ==
  /\ proposal.tex > 0 /\ Len(chain) < MaxSends
  /\ ivk # NoIvk
  /\ FreshOnly => proposal.at = Len(rejections)
  /\ rejections' = MoreRejections(rejections, ivk, 1)
  /\ chain' = Append(chain, [memo |-> proposal.memo, used |-> Len(rejections)])
  /\ UNCHANGED <<keys, tkey, ivk, account, unified, children, lock, caller, file, proposal>>

\* The memo of a send of this wallet is found on the chain, by a wallet read from
\* a file that is older than the send or by the sender itself; handle_texes takes
\* the key of the wallet.
ScanMemo(s) ==
  /\ keys # NoWallet /\ "transparent" \in CanView(keys)
  /\ LET n == HandleTexes(Len(rejections), chain[s].memo)
     IN n > Len(rejections) /\ rejections' = MoreRejections(rejections, tkey, n - Len(rejections))
  /\ UNCHANGED <<keys, tkey, ivk, account, unified, children, lock, caller, file, proposal, chain>>

Next ==
  \/ \E ks \in Stores, a \in Accounts : CreateWallet(ks, a)
  \/ LoadWallet \/ SaveWallet
  \/ \E c \in Callers :
       \/ \E want \in Wanted : TakeLock(c, want)
       \/ OrchardReceiver(c) \/ SaplingReceiver(c) \/ TransparentReceiver(c)
       \/ DerivationFails(c) \/ Assemble(c)
  \/ \E request \in Requests : ProposeTex(request)
  \/ SendTex
  \/ \E s \in DOMAIN chain : ScanMemo(s)

Spec == Init /\ [][Next]_vars

-----------------------------------------------------------------------------
IsAddress(a) == DOMAIN a \subseteq Pools /\ \A p \in DOMAIN a : a[p] \in Seq(Nat)
Pcs == {"idle", "failed", "orchard", "sapling", "transparent", "assemble"}

(* Types of the capability's fields and of a caller's place in new_address.   *)
TypeOK ==
  /\ keys \in UnifiedKeyStores \cup {NoWallet}
  /\ Len(tkey) \in 1 .. 2 /\ Len(ivk) \in 0 .. 2 /\ account \in Nat
  /\ \A i \in DOMAIN unified : IsAddress(unified[i])
  /\ \A i \in DOMAIN children : children[i] \in Nat \X Seq(Nat)
  /\ rejections \in Seq(Seq(Nat))
  /\ lock \in BOOLEAN
  /\ \A c \in Callers : /\ caller[c].pc \in Pcs /\ caller[c].want \subseteq Pools
                         /\ IsAddress(caller[c].got) /\ caller[c].before \in Nat
  /\ proposal.memo \in Seq(Nat) /\ proposal.tex \in Nat
  /\ \A s \in DOMAIN chain : chain[s].used \in Nat

\* The transparent key is that of the account, or a legacy key that is not used.  It
\* is not for a viewing wallet of version 2 with a transparent key, and for an old
\* wallet of another account, which is given the keys of account 0.
KeyOf(tk, a, ks) == tk = <<a>> \/ (tk = <<a, 0>> /\ "transparent" \notin CanView(ks))

\* The rejection key is made from that key.
IvkOf(i, tk) == i \in {NoIvk, tk}

(* The place of an address in the list is the index all its receivers are      *)
(* derived at, in the wallet's own account, whoever asked for it and however   *)
(* often it was written and read, and so is the place of a rejection address   *)
(* unless the process has read a file of version 1 or 2 and kept its legacy    *)
(* rejection key (new_address, WalletCapability::read, TxMap::read): the lists *)
(* are rebuilt from places alone.                                              *)
PositionIsIndex ==
  KeyOf(tkey, account, keys) =>
    /\ \A i \in DOMAIN unified : \A p \in DOMAIN unified[i] : unified[i][p] = <<account, 0, i - 1>>
    /\ IvkOf(ivk, tkey) => \A i \in DOMAIN rejections : rejections[i] = <<account, 2, i - 1>>

(* What would be written at any moment can be read, a new_address in progress  *)
(* included, and with the wallet's own keys it gives the same addresses again  *)
(* (WalletCapability::write, read).                                            *)
ReloadSame ==
  keys # NoWallet =>
    /\ Readable(WriteCapability)
    /\ KeyOf(tkey, account, keys) =>
         /\ ReadAddresses(WriteCapability) = unified
         /\ IvkOf(ivk, tkey) =>
              MoreRejections(<<>>, WriteCapability.tkey, WriteCapability.rejections) = rejections

(* Once an old wallet has derived its keys from the seed, its rejection        *)
(* addresses are those of the new key, as after the next reading of the file.  *)
(* This is what "overide temporary USK" in read_internal promises and does not *)
(* hold: SpendingData keeps the rejection key of the temporary one, so TLC     *)
(* finds a violation for the files of versions 1 and 2 (SpendFiles), and the   *)
(* two properties above speak of a rejection key that is the wallet's own.     *)
RejectionsOfKey ==
  keys # NoWallet => rejections = MoreRejections(<<>>, tkey, Len(rejections))

(* The child list has the transparent receiver of every address at its place,  *)
(* next to those of calls that failed (generate_transparent_receiver).         *)
ChildrenListed ==
  \A i \in DOMAIN unified : "transparent" \in DOMAIN unified[i] =>
    <<i - 1, unified[i]["transparent"]>> \in Range(children)

(* A wallet restored from the seed derives, from the memos of its sends alone, *)
(* every rejection address the sends used (change_memo_from_transaction_request, *)
(* handle_texes).                                                              *)
MemoCoversUsed == \A s \in DOMAIN chain : chain[s].used < Restored(chain)
=============================================================================
