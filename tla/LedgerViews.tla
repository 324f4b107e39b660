------------------------------ MODULE LedgerViews ------------------------------
(***************************************************************************)
(* What the wallet tells its user of the records: fees, summaries and      *)
(* value transfers, balances, lists of outputs, and the outputs that it    *)
(* may spend.  m is a record map; anchor is the height of the anchor       *)
(* block, the last one the wallet is synced to.                            *)
(***************************************************************************)
EXTENDS LedgerRecords

CONSTANT MarginalFee    \* MARGINAL_FEE

Received(m, t) == {t} \X (DOMAIN m[t].notes \cup DOMAIN m[t].coins)
SentBy(m, t) == {t} \X DOMAIN m[t].outgoing

\* A fee, or the FeeError there is instead.
Amount(v) == [error |-> "none", fee |-> v]
FeeError(e) == [error |-> e, fee |-> 0]

\* total_value_input_to_transaction
TotalInput(m, t) ==
  LET spent == NotesSpentIn(m, t) \cup CoinsSpentIn(m, t)
  IN IF m[t].listed # NotesSpentIn(m, t) THEN FeeError("SpendNotFound")
     ELSE IF spent # {} THEN Amount(Total(spent))
     ELSE FeeError(IF SentBy(m, t) = {} THEN "ReceivedTransaction" ELSE "OutgoingWithoutSpends")

\* calculate_transaction_fee
Fee(m, t) ==
  LET input == TotalInput(m, t)
      explicit == Total(Received(m, t)) + Total(SentBy(m, t))
  IN IF input.error # "none" THEN input
     ELSE IF input.fee < explicit THEN FeeError("FeeUnderflow") ELSE Amount(input.fee - explicit)

\* SpendSummary::from_spend: a spend that was only calculated is not shown.
SpendSummary(spend) ==
  IF spend.by = NoTx \/ spend.status.kind = "Calculated" THEN "unspent"
  ELSE IF S!IsConfirmed(spend.status) THEN "spent" ELSE "pending"

\* basic_transaction_summary_parts, TransactionSummary
Summary(m, t) ==
  [kind |-> Kind(m, t), status |-> m[t].status, fee |-> Fee(m, t),
   value |-> Total(IF Kind(m, t) = "send" THEN SentBy(m, t) ELSE Received(m, t)),
   outputs |-> [o \in Received(m, t) |-> SpendSummary(SpendOf(m, o))],
   memos |-> {n \in DOMAIN m[t].notes : m[t].notes[n].memo = "text"},
   outgoing |-> m[t].outgoing]

\* balance_delta; in a transaction to self only the fee counts, whatever it
\* donates.  It is asked only of summaries that have their fee.
BalanceDelta(s) ==
  IF s.kind = "received" THEN s.value
  ELSE IF s.kind = "send" THEN -(s.value + s.fee.fee) ELSE -s.fee.fee

\* paid_fees: the fees that are known.
PaidFees(m) == LET Paid(t) == Fee(m, t).fee IN MapThenSumSet(Paid, S!Known(m))
-----------------------------------------------------------------------------
(* value_transfers *)

\* ValueTransfer; memos are the outputs whose text is shown.
Transfer(kind, os, to, pool, memos) ==
  [kind |-> kind, value |-> Total(os), to |-> to, pool |-> pool, memos |-> memos]

\* create_send_value_transfers: one for each address that is shown.
SendTransfers(t, s) ==
  {LET ns == {n \in DOMAIN s.outgoing : s.outgoing[n] = a}
   IN Transfer("send", {t} \X ns, a, "none", {n \in ns : Outs[t][n].memo = "text"}) :
     a \in {s.outgoing[n] : n \in DOMAIN s.outgoing}}

\* One for each pool that got something.
PoolTransfers(t, s, kind, pools) ==
  {LET os == {o \in DOMAIN s.outputs : Out(o).pool = p}
   IN Transfer(kind, os, "none", p, {n \in s.memos : <<t, n>> \in os}) :
     p \in {q \in pools : \E o \in DOMAIN s.outputs : Out(o).pool = q}}

MemoToSelf(s) ==
  IF s.memos = {} THEN {} ELSE {Transfer("memo-to-self", {}, "none", "none", s.memos)}

\* A payment, and the memos that the wallet sent itself with it.
PaymentTransfers(t, s) == SendTransfers(t, s) \cup MemoToSelf(s)

\* A payment of the wallet to itself is shown even if it carries no memo.
SelfTransfers(t, s) ==
  SendTransfers(t, s) \cup IF s.memos # {} THEN MemoToSelf(s)
                          ELSE {Transfer("basic", {}, "none", "none", {})}

ShieldTransfers(t, s) == PoolTransfers(t, s, "shield", Shielded)
ReceivedTransfers(t, s) == PoolTransfers(t, s, "received", Pools)

Transfers(m, t) ==
  LET s == Summary(m, t)
  IN CASE s.kind = "send" -> PaymentTransfers(t, s)
       [] s.kind = "shield" -> ShieldTransfers(t, s)
       [] s.kind = "send-to-self" -> SelfTransfers(t, s)
       [] s.kind = "received" -> ReceivedTransfers(t, s)

\* value_transfer_by_to_address and the totals made from it.
SentTo(m) ==
  LET sends == UNION {{<<t, v>> : v \in {w \in Transfers(m, t) : w.kind = "send"}} : t \in S!Known(m)}
  IN [a \in {x[2].to : x \in sends} |->
        LET own == {x \in sends : x[2].to = a}
            Val(x) == x[2].value
        IN [sends |-> Cardinality(own), value |-> MapThenSumSet(Val, own)]]
-----------------------------------------------------------------------------
(* Balances *)

UnspentOuts(m, pools) ==
  {o \in Held(m) : Out(o).pool \in pools /\ IsUnspent(m, o)}

\* confirmed_balance, pending_balance, and the transparent one of do_balance
ConfirmedBalance(m, pool) ==
  Total({o \in UnspentOuts(m, {pool}) : HasNullifier(m, o) /\ S!IsConfirmed(m[o[1]].status)})
PendingBalance(m, pool) == Total({o \in UnspentOuts(m, {pool}) : ~HasNullifier(m, o)})
TransparentBalance(m) == Total(UnspentOuts(m, {"transparent"}))

\* confirmed_shielded_balance_excluding_dust
BalanceExcludingDust(m) ==
  Total({o \in UnspentOuts(m, Shielded) :
           HasNullifier(m, o) /\ S!IsConfirmed(m[o[1]].status) /\ Value(o) > MarginalFee})

\* The outputs in os by how they are spent (unspent_pending_spent), and those
\* of ready that are shown as spendable.
BySpend(m, os, ready) ==
  LET gone == {o \in os : S!IsConfirmed(SpendOf(m, o).status)}
      free == {o \in os : IsUnspent(m, o)}
  IN [unspent |-> free, pending |-> os \ (free \cup gone), spent |-> gone, spendable |-> free \cap ready]

\* Outputs of records confirmed at height h or above (is_confirmed_after_or_at).
ConfirmedFrom(m, h) == {o \in Held(m) : S!IsConfirmed(m[o[1]].status) /\ m[o[1]].status.height >= h}

\* The three lists of do_list_notes.  Without all the spent outputs are left
\* out, of sapling also those whose spend is pending.
ListSapling(m, all, anchor) ==
  BySpend(m, {o \in Held(m) : Out(o).pool = "sapling" /\ (all \/ IsUnspent(m, o))}, ConfirmedFrom(m, anchor))
ListOrchard(m, all, anchor) ==
  BySpend(m, {o \in Held(m) : Out(o).pool = "orchard" /\ (all \/ ~S!IsConfirmed(SpendOf(m, o).status))},
          ConfirmedFrom(m, anchor))
ListTransparent(m, all) ==
  BySpend(m, {o \in Held(m) : HasCoin(m, o) /\ (all \/ ~S!IsConfirmed(SpendOf(m, o).status))}, ConfirmedFrom(m, 0))

ListOutputs(m, all, anchor) ==
  [orchard |-> ListOrchard(m, all, anchor), sapling |-> ListSapling(m, all, anchor),
   transparent |-> ListTransparent(m, all)]
-----------------------------------------------------------------------------
(* What note selection may choose from *)

\* get_spendable_note_ids_and_values.  A note without index is an error.
Spendable(m, sources, anchor) ==
  {o \in Held(m) : /\ Out(o).pool \in sources /\ HasNote(m, o) /\ IsUnspent(m, o)
                  /\ S!IsConfirmed(m[o[1]].status) /\ m[o[1]].status.height <= anchor}

Unnamed(m, sources, anchor) ==
  {o \in Spendable(m, sources, anchor) : ~m[o[1]].notes[o[2]].index}

\* get_spendable_transparent_outputs
SpendableCoins(m, height) ==
  {o \in UnspentOuts(m, {"transparent"}) : S!IsConfirmed(m[o[1]].status) /\ m[o[1]].status.height <= height}
=============================================================================
