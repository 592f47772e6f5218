------------------------------- MODULE Bounds -------------------------------
(***************************************************************************)
(* The bound every model puts on its environment: how often each kind of   *)
(* step (a crash, a failed call, an admin request, a day going by...) may  *)
(* happen.  A limit is one mix of such steps, and what happens in a        *)
(* behaviour stays within one of the limits.  Nothing here stands for code. *)
(***************************************************************************)
EXTENDS Integers

CONSTANTS
  Kinds,     \* the kinds of environment step
  Limits     \* in a limit l there are at most l[k] steps of kind k

ASSUME LimitsAssumption == Limits \subseteq [Kinds -> Nat]

VARIABLE used  \* used[k]: steps of kind k so far

BoundsTypeOK == used \in [Kinds -> Nat]

BoundsInit == used = [k \in Kinds |-> 0]

Spend(k) ==
  /\ used' = [used EXCEPT ![k] = @ + 1]
  /\ \E l \in Limits : \A j \in Kinds : used'[j] <= l[j]
=============================================================================
