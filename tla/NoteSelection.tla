----------------------------- MODULE NoteSelection -----------------------------
(***************************************************************************)
(* The loop of select_spendable_notes, turn by turn: notes are sorted from *)
(* the smallest to the largest, the ones that do not pay for their own     *)
(* input are left aside, and notes are taken until they cover the target.  *)
(* A note is a number; LedgerViews says which notes there are to choose    *)
(* from.                                                                   *)
(***************************************************************************)
EXTENDS Integers, FiniteSets, FiniteSetsExt, SequencesExt

CONSTANTS
  MarginalFee,  \* MARGINAL_FEE
  MaxMoney,     \* MAX_MONEY, the largest NonNegativeAmount
  Values,       \* what a note may be worth
  MaxNotes,     \* bound on the notes there are
  MaxFlaws      \* bound on the notes without an output index or a witness position

ASSUME SelectionAssumption ==
  MarginalFee \in Nat /\ MaxMoney \in Nat /\ Values \subseteq Nat /\ MaxNotes \in Nat /\ MaxFlaws \in Nat

VARIABLES
  value,        \* the notes there are, and what each is worth
  unnamed,      \* the notes without an output index
  unplaced,     \* the notes without a witness position
  target,       \* target_value
  unselected,   \* the notes that may still be taken, by their value
  selected,     \* the notes that were taken, in this order
  index,        \* index_of_unselected, counted from 1
  step          \* "sort", "loop", "found", "done" or "error"

wallet == <<value, unnamed, unplaced>>
vars == <<wallet, target, unselected, selected, index, step>>

Total(notes) == SumFunctionOnSet(value, notes)

\* The notes that pay for their own input.
Able == {n \in DOMAIN value : value[n] > MarginalFee}

Before(a, b) == value[a] < value[b] \/ (value[a] = value[b] /\ a < b)
-----------------------------------------------------------------------------
\* The target is a NonNegativeAmount.
Init ==
  /\ \E k \in 0..MaxNotes : value \in [1..k -> Values]
  /\ unnamed \in SUBSET DOMAIN value /\ unplaced \in SUBSET DOMAIN value
  /\ Cardinality(unnamed) + Cardinality(unplaced) <= MaxFlaws
  /\ target \in 0..MaxMoney
  /\ unselected = << >> /\ selected = << >> /\ index = 1 /\ step = "sort"

\* A note of the wallet has no index (MissingOutputIndexes), or is worth more
\* than there is (InvalidValue).
Unusable == unnamed # {} \/ \E n \in DOMAIN value : value[n] > MaxMoney

Refuse ==
  /\ step = "sort" /\ Unusable
  /\ step' = "error" /\ UNCHANGED <<wallet, target, unselected, selected, index>>

\* sort_by_key keeps the order of equal notes; then the dust is drained.
Sort ==
  /\ step = "sort" /\ ~Unusable /\ step' = "loop"
  /\ \E s \in [1..Cardinality(Able) -> Able] :
       /\ Range(s) = Able /\ \A i, j \in DOMAIN s : i < j => Before(s[i], s[j])
       /\ unselected' = s
  /\ UNCHANGED <<wallet, target, selected, index>>

\* selected_notes_total_value
Taken == SumFunction([i \in DOMAIN selected |-> value[selected[i]]])

\* calculate_remaining_needed; nothing or less is needed when the target is met.
Needed == target - Taken

\* The notes selected are worth more than there is (InvalidValue).
Overflow ==
  /\ step = "loop" /\ unselected # << >> /\ Taken > MaxMoney
  /\ step' = "error" /\ UNCHANGED <<wallet, target, unselected, selected, index>>

\* The loop ends: nothing is left, or enough is selected.
Break ==
  /\ step = "loop" /\ (unselected = << >> \/ (Taken <= MaxMoney /\ Needed <= 0))
  /\ step' = "found" /\ UNCHANGED <<wallet, target, unselected, selected, index>>

Continues == step = "loop" /\ unselected # << >> /\ Taken <= MaxMoney /\ Needed > 0

\* The note at the index is enough.
TakeNote ==
  /\ Continues /\ index \in DOMAIN unselected /\ value[unselected[index]] >= Needed
  /\ selected' = Append(selected, unselected[index])
  /\ unselected' = RemoveAt(unselected, index)
  /\ UNCHANGED <<wallet, target, index, step>>

\* It is not: the next one is looked at.
NextNote ==
  /\ Continues /\ index \in DOMAIN unselected /\ value[unselected[index]] < Needed
  /\ index' = index + 1 /\ UNCHANGED <<wallet, target, unselected, selected, step>>

\* Mutant: the walk starts over without the largest note.
TakeLargestForgets ==
  /\ Continues /\ index \notin DOMAIN unselected
  /\ index' = 1 /\ UNCHANGED <<wallet, target, unselected, selected, step>>

\* Mutant: the walk does not start over.
TakeLargestStays ==
  /\ Continues /\ index \notin DOMAIN unselected
  /\ selected' = Append(selected, Last(unselected)) /\ unselected' = Front(unselected)
  /\ UNCHANGED <<wallet, target, index, step>>

\* None of them was: the largest is taken, and the walk starts over.
TakeLargest ==
  /\ Continues /\ index \notin DOMAIN unselected
  /\ selected' = Append(selected, Last(unselected)) /\ unselected' = Front(unselected)
  /\ index' = 1 /\ UNCHANGED <<wallet, target, step>>

\* Each note selected is made a received note (get_received_note), if it has a
\* witness position; otherwise the notes are not returned
\* (WitnessPositionNotFound).
Receive ==
  /\ step = "found"
  /\ step' = IF Range(selected) \cap unplaced = {} THEN "done" ELSE "error"
  /\ UNCHANGED <<wallet, target, unselected, selected, index>>

\* The notes or the error are returned.
Stop == step \in {"done", "error"} /\ UNCHANGED vars

Loop == Overflow \/ Break \/ TakeNote \/ NextNote \/ TakeLargest
Select == Refuse \/ Sort \/ Loop \/ Receive
Next == Select \/ Stop

\* Nothing but a turn of the loop can follow a turn.
Spec == Init /\ [][Next]_vars /\ WF_vars(Select)
-----------------------------------------------------------------------------
\* When the loop ends the notes it selected cover the target if all the notes
\* that pay for their input do; none is selected twice, and none could be left
\* out.  The last one is the smallest that covers what the others leave, and
\* the others are the largest there are, so they are none if one note is
\* enough ("pick the smallest that overcomes the target value and return it",
\* "if you cant, add the biggest to the selection").  A wallet whose notes all
\* have index and position, and that is not worth more than there is, gets no
\* error.
SelectionCovers ==
  /\ unnamed = {} /\ unplaced = {} /\ Total(DOMAIN value) <= MaxMoney => step # "error"
  /\ step = "done" =>
    LET got == Range(selected)
        first == Range(Front(selected))
        rest == target - Total(first)
    IN /\ got \subseteq Able /\ Cardinality(got) = Len(selected)
       /\ Total(Able) >= target <=> Total(got) >= target
       /\ target > 0 /\ Total(got) >= target =>
            /\ rest > 0 /\ value[Last(selected)] >= rest
            /\ \A a \in Able \ first : value[a] >= rest => value[Last(selected)] <= value[a]
            /\ \A n \in first, a \in Able \ first : value[a] <= value[n]
            /\ \A n \in Able : value[n] >= target => first = {}

\* The loop ends, though the list is shortened while an index walks it, and
\* notes or an error are returned.
SelectionEnds == <>(step \in {"done", "error"})
=============================================================================
