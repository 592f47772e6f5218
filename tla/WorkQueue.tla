------------------------------ MODULE WorkQueue ------------------------------
(***************************************************************************)
(* What the stream and the processors together promise about the domains   *)
(* sent to them, whatever crashes, fails or comes late: an item that was   *)
(* published stays in the queue until a worker that has been given it says *)
(* it is done with it, no more than Limit items are out at a time, and a   *)
(* settled item stays settled.  An item may be worked on more than once,   *)
(* and by several workers at once.                                         *)
(***************************************************************************)
EXTENDS Integers, FiniteSets

CONSTANTS
  Items,
  Workers,
  NoItem,      \* what a worker has that has nothing
  Limit        \* items that may be out

VARIABLES
  waiting,     \* items to be given to a worker
  out,         \* items given to a worker that has not answered yet
  settled,     \* items some worker was done with
  working      \* working[w]: the item w works on

wqVars == <<waiting, out, settled, working>>

WQInit ==
  /\ waiting = {} /\ out = {} /\ settled = {}
  /\ working = [w \in Workers |-> NoItem]

Enqueue(i) ==
  /\ i \notin waiting \union out \union settled
  /\ waiting' = waiting \union {i}
  /\ UNCHANGED <<out, settled, working>>

GiveOut(i) ==
  /\ i \in waiting /\ Cardinality(out) < Limit
  /\ waiting' = waiting \ {i}
  /\ out' = out \union {i}
  /\ UNCHANGED <<settled, working>>

TakeBack(i) ==
  /\ i \in out
  /\ out' = out \ {i}
  /\ waiting' = waiting \union {i}
  /\ UNCHANGED <<settled, working>>

(* Perhaps an item that was taken back, or settled by another worker. *)
Begin(w, i) ==
  /\ working[w] = NoItem
  /\ i \in waiting \union out \union settled
  /\ working' = [working EXCEPT ![w] = i]
  /\ UNCHANGED <<waiting, out, settled>>

(* The worker goes away, or its answer does. *)
GiveUp(w) ==
  /\ working' = [working EXCEPT ![w] = NoItem]
  /\ UNCHANGED <<waiting, out, settled>>

Settle(w) ==
  /\ working[w] # NoItem
  /\ waiting' = waiting \ {working[w]}
  /\ out' = out \ {working[w]}
  /\ settled' = settled \union {working[w]}
  /\ working' = [working EXCEPT ![w] = NoItem]

WQNext ==
  \/ \E i \in Items : Enqueue(i) \/ GiveOut(i) \/ TakeBack(i)
  \/ \E w \in Workers : GiveUp(w) \/ Settle(w) \/ \E i \in Items : Begin(w, i)

WQSpec == WQInit /\ [][WQNext]_wqVars
=============================================================================
