-------------------------- MODULE WorkQueueProofs --------------------------
(***************************************************************************)
(* The stream and the processors implement WorkQueue: every step of        *)
(* QueueProcessor is one of its actions, on the message and the processor  *)
(* it names, or leaves its four variables alone.                           *)
(***************************************************************************)
EXTENDS QueueProcessorProofs

(* A processor out of process_domain has nothing, and a client is only     *)
(* given what was published.                                               *)
HandInv ==
  \A p \in Processors :
    /\ pc[p] \in {"down", "idle"} => current[p] = 0
    /\ \A i \in inbox[p] : mstate[i] # "unsent"

Stays == UNCHANGED <<mstate, inbox, current>>

LEMMA ZeroIsNoMessage == 0 \notin MessageIds
BY JetStreamAssumption DEF MessageIds

LEMMA InitHand == Init => HandInv
BY DEF Init, ProcessorInit, JetStreamInit, HandInv

(* Steps inside process_domain. *)
LEMMA StayingHand ==
  ASSUME HandInv, Stays,
         \A p \in Processors : pc'[p] \in {"down", "idle"} => pc[p] \in {"down", "idle"}
  PROVE  HandInv'
BY DEF HandInv, Stays

LEMMA GotoHand ==
  ASSUME CoreInv, HandInv, Stays, NEW p \in Processors,
         NEW m \in {"pattern", "exclude", "override", "each", "running", "store", "ack", pc[p]},
         Goto(p, m)
  PROVE  HandInv'
<1>1. \A q \in Processors : pc'[q] \in {"down", "idle"} => pc[q] \in {"down", "idle"}
  BY DEF Goto, CoreInv, ProcessorTypeOK
<1> QED BY <1>1, StayingHand

(* A queue that none of the four variables shows changing. *)
LEMMA StayingIsStutter ==
  ASSUME Stays PROVE UNCHANGED WQ!wqVars
BY DEF Stays, WQ!wqVars, InState

Implements == HandInv' /\ [WQ!WQNext]_WQ!wqVars

LEMMA ProcessDomainImplements ==
  ASSUME CoreInv, HandInv, Stays, NEW p \in Processors,
         NEW m \in {"pattern", "exclude", "override", "each", "running", "store", "ack", pc[p]},
         Goto(p, m)
  PROVE  Implements
BY GotoHand, StayingIsStutter DEF Implements
-----------------------------------------------------------------------------
LEMMA FetchImplements ==
  ASSUME CoreInv, HandInv, NEW p \in Processors, Fetch(p)
  PROVE  Implements
<1>1. PICK i \in MessageIds : /\ mstate[i] = "ready"
                              /\ mstate' = [mstate EXCEPT ![i] = "delivered"]
                              /\ inbox' = [inbox EXCEPT ![p] = @ \union {i}]
  BY DEF Fetch, Deliver, IsLowest, InState
<1>2. pc' = pc /\ current' = current /\ Cardinality(InState("delivered")) < MaxAckPending
  BY DEF Fetch, Deliver, procVars
<1>3. HandInv'
  BY <1>1, <1>2 DEF HandInv, CoreInv, JetStreamTypeOK
<1>4. WQ!GiveOut(i)
  <2>1. WQ!Cardinality(InState("delivered")) = Cardinality(InState("delivered"))
    BY Zenon DEF WQ!Cardinality, Cardinality
  <2> QED BY <1>1, <1>2, <2>1 DEF WQ!GiveOut, InState, CoreInv, JetStreamTypeOK
<1> QED BY <1>3, <1>4 DEF Implements, WQ!WQNext

LEMMA ReceiveImplements ==
  ASSUME CoreInv, HandInv, NEW p \in Processors, Receive(p)
  PROVE  Implements
<1>1. PICK i \in MessageIds :
        /\ i \in inbox[p]
        /\ inbox' = [inbox EXCEPT ![p] = @ \ {i}]
        /\ current' = [current EXCEPT ![p] = i]
        /\ pc' = [pc EXCEPT ![p] = IF payload[i] = Malformed THEN "ack" ELSE "received"]
  BY DEF Receive, IsLowest, Goto
<1>2. mstate' = mstate /\ pc[p] = "idle"
  BY DEF Receive
<1>3. HandInv'
  BY <1>1, <1>2 DEF HandInv, CoreInv, JetStreamTypeOK, ProcessorTypeOK
<1>4. mstate[i] \in {"ready", "delivered", "acked"} /\ current[p] = 0
  BY <1>1, <1>2 DEF HandInv, CoreInv, JetStreamTypeOK
<1>5. WQ!Begin(p, i)
  BY <1>1, <1>2, <1>4 DEF WQ!Begin, InState
<1> QED BY <1>3, <1>5 DEF Implements, WQ!WQNext

(* Acknowledged after process_domain, and by the processor that ran it. *)
LEMMA AckImplements ==
  ASSUME CoreInv, HandInv, NEW p \in Processors, Ack(p)
  PROVE  Implements
<1>1. current[p] \in MessageIds
  BY DEF Ack, CoreInv, Engaged
<1>2. /\ mstate' = [mstate EXCEPT ![current[p]] = "acked"]
      /\ pc' = [pc EXCEPT ![p] = "idle"]
      /\ current' = [current EXCEPT ![p] = 0]
      /\ inbox' = inbox
  BY DEF Ack, Acknowledge, Release, Forget, Goto
<1>3. HandInv'
  BY <1>1, <1>2 DEF HandInv, CoreInv, JetStreamTypeOK, ProcessorTypeOK
<1>4. current[p] # 0
  BY <1>1, ZeroIsNoMessage
<1>5. WQ!Settle(p)
  BY <1>1, <1>2, <1>4 DEF WQ!Settle, InState, CoreInv, JetStreamTypeOK
<1> QED BY <1>3, <1>5 DEF Implements, WQ!WQNext

LEMMA GiveUpImplements ==
  ASSUME CoreInv, HandInv, NEW p \in Processors, Crash(p) \/ AckFails(p)
  PROVE  Implements
<1>1. /\ mstate' = mstate
      /\ \E m \in {"down", "idle"} : pc' = [pc EXCEPT ![p] = m]
      /\ current' = [current EXCEPT ![p] = 0]
      /\ \A q \in Processors : inbox'[q] \subseteq inbox[q]
  BY DEF Crash, AckFails, Release, Forget, Goto, streamVars, CoreInv, JetStreamTypeOK
<1>2. HandInv'
  BY <1>1 DEF HandInv, CoreInv, ProcessorTypeOK
<1>3. WQ!GiveUp(p)
  BY <1>1 DEF WQ!GiveUp, InState
<1> QED BY <1>2, <1>3 DEF Implements, WQ!WQNext

LEMMA RedeliverImplements ==
  ASSUME CoreInv, HandInv, NEW i \in MessageIds, RedeliverLost(i) \/ RedeliverHeld(i)
  PROVE  Implements
<1>1. /\ mstate[i] = "delivered"
      /\ mstate' = [mstate EXCEPT ![i] = "ready"]
      /\ pc' = pc /\ current' = current /\ inbox' = inbox
  BY DEF RedeliverLost, RedeliverHeld, AckWaitExpires, procVars
<1>2. HandInv'
  BY <1>1 DEF HandInv, CoreInv, JetStreamTypeOK
<1>3. WQ!TakeBack(i)
  BY <1>1 DEF WQ!TakeBack, InState, CoreInv, JetStreamTypeOK
<1> QED BY <1>2, <1>3 DEF Implements, WQ!WQNext

LEMMA DomainSeenImplements ==
  ASSUME CoreInv, HandInv, DomainSeen
  PROVE  Implements
<1>1. PICK i \in MessageIds : mstate[i] = "unsent" /\ mstate' = [mstate EXCEPT ![i] = "ready"]
  BY DEF DomainSeen, Publish, Send, IsLowest, InState
<1>2. pc' = pc /\ current' = current /\ inbox' = inbox
  BY DEF DomainSeen, Publish, Send, procVars
<1>3. HandInv'
  BY <1>1, <1>2 DEF HandInv, CoreInv, JetStreamTypeOK
<1>4. WQ!Enqueue(i)
  BY <1>1, <1>2 DEF WQ!Enqueue, InState, CoreInv, JetStreamTypeOK
<1> QED BY <1>3, <1>4 DEF Implements, WQ!WQNext
-----------------------------------------------------------------------------
LEMMA ProcessorStepImplements ==
  ASSUME CoreInv, HandInv, NEW p \in Processors, ProcessorStep(p)
  PROVE  Implements
<1>1. CASE Start(p)
  <2>1. \A q \in Processors : pc'[q] \in {"down", "idle"} => pc[q] \in {"down", "idle"}
    BY <1>1 DEF Start, Goto, CoreInv, ProcessorTypeOK
  <2>2. Stays
    BY <1>1 DEF Start, Stays, streamVars
  <2> QED BY <2>1, <2>2, StayingHand, StayingIsStutter DEF Implements
<1>2. CASE Fetch(p) BY <1>2, FetchImplements
<1>3. CASE Receive(p) BY <1>3, ReceiveImplements
<1>4. CASE Ack(p) BY <1>4, AckImplements
<1>5. CASE ReadStates(p)
  BY <1>5, ProcessDomainImplements DEF ReadStates, streamVars, Stays
<1>6. CASE ReadOverride(p)
  BY <1>6, ProcessDomainImplements DEF ReadOverride, streamVars, Stays
<1>7. ASSUME NEW t \in Classifiers,
             ApplyPattern(p, t) \/ ApplyExclude(p, t) \/ PromptUnreadable(p, t)
      PROVE  Implements
  <2>1. Finish(p, t) /\ Stays
    BY <1>7 DEF ApplyPattern, ApplyExclude, PromptUnreadable, streamVars, Stays
  <2> QED BY <2>1, ProcessDomainImplements DEF Finish
<1>8. ASSUME NEW t \in Classifiers, StartClassifier(p, t) PROVE Implements
  BY <1>8, ProcessDomainImplements DEF StartClassifier, streamVars, Stays
<1>9. ASSUME NEW m \in BOOLEAN, NEW c \in Confidence, ClassifierSucceeds(p, m, c)
      PROVE  Implements
  <2>1. PICK l \in {"ack", "each", "store"} : Goto(p, l)
    BY <1>9 DEF ClassifierSucceeds, FinishJob
  <2>2. Stays
    BY <1>9 DEF ClassifierSucceeds, streamVars, Stays
  <2> QED BY <2>1, <2>2, ProcessDomainImplements
<1>10. CASE ClassifierFails(p) \/ StoreVerdict(p)
  BY <1>10, ProcessDomainImplements DEF ClassifierFails, StoreVerdict, FinishJob, streamVars, Stays
<1>11. CASE StoreRefused(p)
  BY <1>11, ProcessDomainImplements DEF StoreRefused, Abort, streamVars, Stays
<1> QED BY <1>1, <1>2, <1>3, <1>4, <1>5, <1>6, <1>7, <1>8, <1>9, <1>10, <1>11
        DEF ProcessorStep, Processing, Classifying

LEMMA FaultImplements ==
  ASSUME CoreInv, HandInv, Fault
  PROVE  Implements
<1>1. ASSUME NEW p \in Processors, DatabaseFails(p) PROVE Implements
  BY <1>1, ProcessDomainImplements DEF DatabaseFails, Abort, streamVars, Stays
<1>2. CASE DayPasses
  <2>1. Stays /\ pc' = pc
    BY <1>2 DEF DayPasses, streamVars, procVars, Stays
  <2> QED BY <2>1, StayingHand, StayingIsStutter DEF Implements
<1> QED BY <1>1, <1>2, GiveUpImplements, RedeliverImplements DEF Fault

LEMMA NextImplements == CoreInv /\ HandInv /\ [Next]_qpVars => Implements
<1> SUFFICES ASSUME CoreInv, HandInv, [Next]_qpVars PROVE Implements
  OBVIOUS
<1>1. CASE UNCHANGED qpVars
  <2>1. Stays /\ pc' = pc
    BY <1>1 DEF qpVars, Stays
  <2> QED BY <2>1, StayingHand, StayingIsStutter DEF Implements
<1>2. CASE Next
  BY <1>2, ProcessorStepImplements, RedeliverImplements, DomainSeenImplements,
     FaultImplements DEF Next
<1> QED BY <1>1, <1>2

LEMMA InitImplements == Init => WQ!WQInit
BY DEF Init, JetStreamInit, ProcessorInit, WQ!WQInit, InState

(* Whatever crashes, fails or is late, and with any number of processors,  *)
(* messages and pending acks, the stream and the processors keep the       *)
(* promises of the abstract work queue: nothing published is lost, and     *)
(* nothing is settled but by a processor that went through it.             *)
THEOREM WorkQueueImplemented == Spec => IsWorkQueue
<1>1. HandInv /\ CoreInv /\ [Next]_qpVars => HandInv' /\ [WQ!WQNext]_WQ!wqVars
  BY NextImplements DEF Implements
<1>2. Spec => []HandInv
  BY <1>1, InitHand, CoreInvariance, PTL DEF Spec
<1> QED BY <1>1, <1>2, InitImplements, CoreInvariance, PTL DEF Spec, IsWorkQueue, WQ!WQSpec
=============================================================================
