----------------------------- MODULE JetStream -----------------------------
(***************************************************************************)
(* The DNS_SMART_BLOCK stream and its one durable pull consumer            *)
(* "dns-smart-block-queue-processor" (AckPolicy::Explicit, no delivery     *)
(* limit), as the services use them.  A message is its stream sequence     *)
(* number.  A message that is never captured by the stream (the publishers *)
(* use core NATS and get no acknowledgement) is one that is not sent here. *)
(***************************************************************************)
EXTENDS Integers, FiniteSets

CONSTANTS
  Processors,      \* queue-processor processes sharing the durable consumer
  Payloads,        \* what a message can hold
  MaxMessages,     \* bound: messages ever published
  MaxAckPending    \* max_ack_pending of the consumer

ASSUME JetStreamAssumption == MaxMessages \in Nat /\ MaxAckPending \in Nat \ {0}

VARIABLES
  payload,         \* payload[i]: the content of message i
  mstate,          \* mstate[i]: the consumer's state of message i
  inbox            \* inbox[p]: delivered to p's client, not yet taken by its loop

streamVars == <<payload, mstate, inbox>>

MessageIds == 1..MaxMessages

JetStreamTypeOK ==
  /\ payload \in [MessageIds -> Payloads]
  /\ mstate \in [MessageIds -> {"unsent", "ready", "delivered", "acked"}]
  /\ inbox \in [Processors -> SUBSET MessageIds]

(* The payloads are drawn in advance; message i is sent after i - 1. *)
JetStreamInit ==
  /\ payload \in [MessageIds -> Payloads]
  /\ mstate = [i \in MessageIds |-> "unsent"]
  /\ inbox = [p \in Processors |-> {}]

InState(s) == {i \in MessageIds : mstate[i] = s}

IsLowest(i, S) == i \in S /\ \A j \in S : i <= j

Send(i) ==
  /\ IsLowest(i, InState("unsent"))
  /\ mstate' = [mstate EXCEPT ![i] = "ready"]
  /\ UNCHANGED <<payload, inbox>>

Publish == \E i \in MessageIds : Send(i)

(* Bug: one message more than max_ack_pending. *)
DeliverOneMore(p) ==
  /\ Cardinality(InState("delivered")) <= MaxAckPending
  /\ \E i \in MessageIds :
       /\ IsLowest(i, InState("ready"))
       /\ mstate' = [mstate EXCEPT ![i] = "delivered"]
       /\ inbox' = [inbox EXCEPT ![p] = @ \union {i}]
  /\ UNCHANGED payload

(* Stream order, while fewer than max_ack_pending messages are unacknowledged. *)
Deliver(p) ==
  /\ Cardinality(InState("delivered")) < MaxAckPending
  /\ \E i \in MessageIds :
       /\ IsLowest(i, InState("ready"))
       /\ mstate' = [mstate EXCEPT ![i] = "delivered"]
       /\ inbox' = [inbox EXCEPT ![p] = @ \union {i}]
  /\ UNCHANGED payload

(* AckWait runs out: the message will be delivered again. *)
AckWaitExpires(i) ==
  /\ mstate[i] = "delivered"
  /\ mstate' = [mstate EXCEPT ![i] = "ready"]
  /\ UNCHANGED <<payload, inbox>>

(* An acknowledgement settles the message, even after its AckWait ran out. *)
Acknowledge(i) == mstate' = [mstate EXCEPT ![i] = "acked"]
=============================================================================
