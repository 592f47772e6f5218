--------------------------- MODULE MCReadCommitted ---------------------------
(* Instances of ReadCommitted for TLC. *)
EXTENDS ReadCommitted, TLC

CONSTANTS d1, d2

MCKeys == {"prompt", "prompt_source", "suffix", "pattern_label", "provisioned"}

BothOrders == {<<d1, d2>>, <<d2, d1>>}

Entry(d, m) == [domain |-> d, match |-> m]

(* An empty list, one of one entry, and one of two that contradicts it. *)
ThreeLists ==
  {<<>>} \union {<<Entry(d, TRUE)>> : d \in Domains}
         \union {<<Entry(o[1], TRUE), Entry(o[2], FALSE)>> : o \in BothOrders}

Symmetry == Permutations(Txs) \union Permutations(Domains)
=============================================================================
