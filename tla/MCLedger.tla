------------------------------- MODULE MCLedger --------------------------------
(***************************************************************************)
(* g pays the wallet a note, r a note and a coin, and sh shields the coin. *)
(* x pays bob at a unified address, y carol at a transparent one, z both,  *)
(* and d donates.                                                          *)
(***************************************************************************)
EXTENDS Ledger

CONSTANTS g, r, sh, x, y, z, d

Pay(to, pool, ua, value, memo) ==
  [to |-> to, pool |-> pool, ua |-> ua, value |-> value, memo |-> memo]

MCOrder == <<g, r, sh, x, y, z, d>>
MCOuts ==
  (g :> << Pay("self", "orchard", "none", 6, "text") >>) @@
  (r :> << Pay("self", "orchard", "none", 6, "text"), Pay("self", "transparent", "none", 4, "empty"),
           Pay("dave", "transparent", "none", 2, "empty") >>) @@
  (sh :> << Pay("self", "orchard", "none", 3, "empty") >>) @@
  (x :> << Pay("bob", "orchard", "bob-ua", 2, "text"), Pay("self", "orchard", "none", 3, "zingo") >>) @@
  (y :> << Pay("carol", "transparent", "none", 7, "empty"), Pay("self", "sapling", "none", 1, "zingo") >>) @@
  (z :> << Pay("bob", "orchard", "bob-ua", 2, "text"), Pay("self", "orchard", "none", 2, "zingo"),
           Pay("carol", "transparent", "none", 1, "empty") >>) @@
  (d :> << Pay("donation-receiver", "orchard", "donation", 1, "empty"), Pay("self", "orchard", "none", 4, "zingo") >>)
MCIns ==
  (g :> {}) @@ (r :> {}) @@ (sh :> {<<r, 2>>}) @@ (x :> {<<g, 1>>}) @@ (y :> {<<r, 1>>, <<sh, 1>>}) @@
  (z :> {<<g, 1>>}) @@ (d :> {<<g, 1>>})
MCSize == ({r, sh, y} :> 5) @@ ({r, sh} :> 6) @@ ({g, x} :> 6) @@ ({g, d} :> 5) @@ ({g} :> 6)
BothPaid == {g, z} :> 5
=============================================================================
