---------------------------- MODULE SerialProofs ----------------------------
(***************************************************************************)
(* Why max_ack_pending = 1 serialises the processors: as long as no ack is *)
(* late, a message that some processor has is "delivered", at most one is, *)
(* and only one processor has it.  And what that is good for: a domain     *)
(* that is processed again, alone, finds what the first time left, so the  *)
(* LLM has one valid verdict on it, and an ack comes after an outcome of   *)
(* every classifier.                                                       *)
(***************************************************************************)
EXTENDS QueueProcessorProofs, FiniteSetTheorems

Serial == MaxAckPending = 1 /\ used["late"] = 0

Has(p, i) == i \in inbox[p] \/ i = current[p]

IdleHasNone ==
  \A p \in Processors : pc[p] \in {"down", "idle"} => current[p] = 0

HeldDelivered ==
  \A p \in Processors, i \in MessageIds : Has(p, i) => mstate[i] = "delivered"

OneDelivered ==
  \A i, j \in MessageIds : mstate[i] = "delivered" /\ mstate[j] = "delivered" => i = j

OneHolder ==
  \A p, q \in Processors, i \in MessageIds : Has(p, i) /\ Has(q, i) => p = q

(* The ack settles a message nobody will be given by its client any more. *)
TakenOnce ==
  \A p \in Processors : current[p] \notin inbox[p]

SerialInv ==
  Serial => IdleHasNone /\ HeldDelivered /\ OneDelivered /\ OneHolder /\ TakenOnce

-----------------------------------------------------------------------------
LEMMA LateIsMonotone ==
  ASSUME CoreInv, NEW k \in Kinds, Spend(k), used'["late"] = 0
  PROVE  used["late"] = 0 /\ k # "late"
<1>1. "late" \in Kinds /\ used \in [Kinds -> Nat]
  BY KindsAssumption DEF CoreInv, BoundsTypeOK
<1>2. used' = [used EXCEPT ![k] = used[k] + 1]
  BY DEF Spend
<1>3. k # "late"
  <2> SUFFICES ASSUME k = "late" PROVE FALSE
    OBVIOUS
  <2>1. used'["late"] = used["late"] + 1 /\ used["late"] \in Nat
    BY <1>1, <1>2
  <2> QED BY <2>1
<1> QED BY <1>1, <1>2, <1>3

LEMMA InitSerial == Init => SerialInv
<1> SUFFICES ASSUME Init PROVE SerialInv
  OBVIOUS
<1>1. \A p \in Processors, i \in MessageIds : ~ Has(p, i)
  BY JetStreamAssumption DEF Init, ProcessorInit, JetStreamInit, Has, MessageIds
<1>2. \A i \in MessageIds : mstate[i] = "unsent"
  BY DEF Init, JetStreamInit
<1>3. IdleHasNone /\ TakenOnce
  BY DEF Init, ProcessorInit, JetStreamInit, IdleHasNone, TakenOnce
<1> QED BY <1>1, <1>2, <1>3 DEF SerialInv, HeldDelivered, OneDelivered, OneHolder

(* Steps of process_domain: no message changes hands. *)
LEMMA SerialKept ==
  ASSUME SerialInv, mstate' = mstate, inbox' = inbox, current' = current,
         used'["late"] = 0 => used["late"] = 0,
         \A p \in Processors : pc'[p] \in {"down", "idle"} => pc[p] \in {"down", "idle"}
  PROVE  SerialInv'
<1> SUFFICES ASSUME Serial' PROVE (IdleHasNone /\ HeldDelivered /\ OneDelivered /\ OneHolder /\ TakenOnce)'
  BY DEF SerialInv
<1>1. IdleHasNone /\ HeldDelivered /\ OneDelivered /\ OneHolder /\ TakenOnce
  BY DEF SerialInv, Serial
<1> QED BY <1>1 DEF IdleHasNone, HeldDelivered, OneDelivered, OneHolder, TakenOnce,
                     Has, MessageIds

(* Under max_ack_pending 1 a message is delivered only when no other is. *)
LEMMA NoneDelivered ==
  ASSUME CoreInv, MaxAckPending = 1, Cardinality(InState("delivered")) < MaxAckPending
  PROVE  InState("delivered") = {}
<1>1. IsFiniteSet(MessageIds)
  BY FS_Interval, JetStreamAssumption DEF MessageIds
<1>2. IsFiniteSet(InState("delivered"))
  BY <1>1, FS_Subset DEF InState
<1>3. Cardinality(InState("delivered")) \in Nat
  BY <1>2, FS_CardinalityType
<1> QED BY <1>2, <1>3, FS_EmptySet

LEMMA FetchSerial ==
  ASSUME CoreInv, SerialInv, NEW p \in Processors, Fetch(p)
  PROVE  SerialInv'
<1> SUFFICES ASSUME Serial' PROVE (IdleHasNone /\ HeldDelivered /\ OneDelivered /\ OneHolder /\ TakenOnce)'
  BY DEF SerialInv
<1>1. IdleHasNone /\ HeldDelivered /\ OneDelivered /\ OneHolder /\ TakenOnce
  BY DEF SerialInv, Serial, Fetch
<1>2. PICK i \in MessageIds : /\ mstate[i] = "ready"
                              /\ mstate' = [mstate EXCEPT ![i] = "delivered"]
                              /\ inbox' = [inbox EXCEPT ![p] = @ \union {i}]
  BY DEF Fetch, Deliver, IsLowest, InState
<1>3. \A j \in MessageIds : mstate[j] # "delivered"
  BY NoneDelivered DEF Serial, Fetch, Deliver, InState
<1>4. \A q \in Processors, j \in MessageIds : ~ Has(q, j)
  BY <1>1, <1>3 DEF HeldDelivered
<1>5. \A q \in Processors, j \in MessageIds : Has(q, j)' => q = p /\ j = i
  BY <1>2, <1>4 DEF Has, Fetch, procVars, CoreInv, JetStreamTypeOK
<1>6. \A j \in MessageIds : mstate'[j] = "delivered" <=> j = i
  BY <1>2, <1>3 DEF CoreInv, JetStreamTypeOK
<1>7. pc' = pc /\ current' = current
  BY DEF Fetch, procVars
<1>8. current[p] # i
  BY <1>4 DEF Has
<1>9. TakenOnce'
  BY <1>1, <1>2, <1>7, <1>8 DEF TakenOnce, CoreInv, JetStreamTypeOK
<1>10. IdleHasNone'
  BY <1>1, <1>7 DEF IdleHasNone
<1> QED BY <1>5, <1>6, <1>9, <1>10 DEF HeldDelivered, OneDelivered, OneHolder, MessageIds

LEMMA ReceiveSerial ==
  ASSUME CoreInv, SerialInv, NEW p \in Processors, Receive(p)
  PROVE  SerialInv'
<1> SUFFICES ASSUME Serial' PROVE (IdleHasNone /\ HeldDelivered /\ OneDelivered /\ OneHolder /\ TakenOnce)'
  BY DEF SerialInv
<1>1. IdleHasNone /\ HeldDelivered /\ OneDelivered /\ OneHolder /\ TakenOnce
  BY DEF SerialInv, Serial, Receive
<1>2. PICK i \in MessageIds :
        /\ i \in inbox[p]
        /\ inbox' = [inbox EXCEPT ![p] = @ \ {i}]
        /\ current' = [current EXCEPT ![p] = i]
        /\ pc' = [pc EXCEPT ![p] = IF payload[i] = Malformed THEN "ack" ELSE "received"]
  BY DEF Receive, IsLowest, Goto
<1>3. mstate' = mstate
  BY DEF Receive
<1>4. \A q \in Processors, j \in MessageIds : Has(q, j)' => Has(q, j)
  BY <1>2 DEF Has, CoreInv, JetStreamTypeOK, ProcessorTypeOK
<1>5. IdleHasNone'
  BY <1>1, <1>2 DEF IdleHasNone, CoreInv, ProcessorTypeOK
<1>6. TakenOnce'
  BY <1>1, <1>2 DEF TakenOnce, CoreInv, JetStreamTypeOK, ProcessorTypeOK
<1> QED BY <1>1, <1>3, <1>4, <1>5, <1>6 DEF HeldDelivered, OneDelivered, OneHolder, MessageIds

(* p had the message alone, so nobody has it when it is acked. *)
LEMMA AckSerial ==
  ASSUME CoreInv, SerialInv, NEW p \in Processors, Ack(p)
  PROVE  SerialInv'
<1> SUFFICES ASSUME Serial' PROVE (IdleHasNone /\ HeldDelivered /\ OneDelivered /\ OneHolder /\ TakenOnce)'
  BY DEF SerialInv
<1>1. IdleHasNone /\ HeldDelivered /\ OneDelivered /\ OneHolder /\ TakenOnce
  BY DEF SerialInv, Serial, Ack
<1>2. current[p] \in MessageIds
  BY DEF Ack, CoreInv, Engaged
<1>3. /\ mstate' = [mstate EXCEPT ![current[p]] = "acked"]
      /\ pc' = [pc EXCEPT ![p] = "idle"]
      /\ current' = [current EXCEPT ![p] = 0]
      /\ inbox' = inbox
  BY DEF Ack, Acknowledge, Release, Forget, Goto
<1>4. 0 \notin MessageIds
  BY JetStreamAssumption DEF MessageIds
<1>5. \A q \in Processors, j \in MessageIds : Has(q, j)' => Has(q, j) /\ j # current[p]
  <2> SUFFICES ASSUME NEW q \in Processors, NEW j \in MessageIds, Has(q, j)'
               PROVE  Has(q, j) /\ j # current[p]
    OBVIOUS
  <2>1. Has(p, current[p])
    BY DEF Has
  <2>2. CASE q = p
    <3>1. j \in inbox[p]
      BY <2>2, <1>3, <1>4 DEF Has, CoreInv, ProcessorTypeOK
    <3> QED BY <3>1, <2>2, <1>1 DEF Has, TakenOnce
  <2>3. CASE q # p
    <3>1. Has(q, j)
      BY <2>3, <1>3 DEF Has, CoreInv, ProcessorTypeOK
    <3> QED BY <2>1, <2>3, <3>1, <1>1, <1>2 DEF OneHolder
  <2> QED BY <2>2, <2>3
<1>6. HeldDelivered' /\ OneDelivered' /\ OneHolder'
  BY <1>1, <1>2, <1>3, <1>5 DEF HeldDelivered, OneDelivered, OneHolder, MessageIds,
                                CoreInv, JetStreamTypeOK
<1>7. TakenOnce' /\ IdleHasNone'
  <2>1. 0 \notin inbox[p]
    BY <1>4 DEF CoreInv, JetStreamTypeOK
  <2> QED BY <1>1, <1>3, <2>1 DEF TakenOnce, IdleHasNone, CoreInv, ProcessorTypeOK
<1> QED BY <1>6, <1>7

LEMMA CrashSerial ==
  ASSUME CoreInv, SerialInv, NEW p \in Processors, Crash(p)
  PROVE  SerialInv'
<1> SUFFICES ASSUME Serial' PROVE (IdleHasNone /\ HeldDelivered /\ OneDelivered /\ OneHolder /\ TakenOnce)'
  BY DEF SerialInv
<1>1. IdleHasNone /\ HeldDelivered /\ OneDelivered /\ OneHolder /\ TakenOnce
  BY LateIsMonotone, KindsAssumption DEF SerialInv, Serial, Crash
<1>2. /\ mstate' = mstate
      /\ pc' = [pc EXCEPT ![p] = "down"]
      /\ current' = [current EXCEPT ![p] = 0]
      /\ inbox' = [inbox EXCEPT ![p] = {}]
  BY DEF Crash, Forget, Goto
<1>3. 0 \notin MessageIds
  BY JetStreamAssumption DEF MessageIds
<1>4. \A q \in Processors, j \in MessageIds : Has(q, j)' => Has(q, j)
  BY <1>2, <1>3 DEF Has, CoreInv, JetStreamTypeOK, ProcessorTypeOK
<1>5. TakenOnce' /\ IdleHasNone'
  BY <1>1, <1>2 DEF TakenOnce, IdleHasNone, CoreInv, JetStreamTypeOK, ProcessorTypeOK
<1> QED BY <1>1, <1>2, <1>4, <1>5 DEF HeldDelivered, OneDelivered, OneHolder, MessageIds

LEMMA RedeliverLostSerial ==
  ASSUME CoreInv, SerialInv, NEW i \in MessageIds, RedeliverLost(i)
  PROVE  SerialInv'
<1> SUFFICES ASSUME Serial' PROVE (IdleHasNone /\ HeldDelivered /\ OneDelivered /\ OneHolder /\ TakenOnce)'
  BY DEF SerialInv
<1>1. IdleHasNone /\ HeldDelivered /\ OneDelivered /\ OneHolder /\ TakenOnce
  BY DEF SerialInv, Serial, RedeliverLost
<1>2. /\ mstate' = [mstate EXCEPT ![i] = "ready"]
      /\ pc' = pc /\ current' = current /\ inbox' = inbox
      /\ \A q \in Processors : ~ Has(q, i)
  BY DEF RedeliverLost, AckWaitExpires, Held, Has, procVars
<1>3. IdleHasNone' /\ OneHolder' /\ TakenOnce'
  BY <1>1, <1>2 DEF IdleHasNone, OneHolder, TakenOnce, Has, MessageIds
<1>4. HeldDelivered' /\ OneDelivered'
  BY <1>1, <1>2 DEF HeldDelivered, OneDelivered, Has, MessageIds, CoreInv, JetStreamTypeOK
<1> QED BY <1>3, <1>4

LEMMA DomainSeenSerial ==
  ASSUME CoreInv, SerialInv, DomainSeen
  PROVE  SerialInv'
<1> SUFFICES ASSUME Serial' PROVE (IdleHasNone /\ HeldDelivered /\ OneDelivered /\ OneHolder /\ TakenOnce)'
  BY DEF SerialInv
<1>1. IdleHasNone /\ HeldDelivered /\ OneDelivered /\ OneHolder /\ TakenOnce
  BY LateIsMonotone, KindsAssumption DEF SerialInv, Serial, DomainSeen
<1>2. PICK i \in MessageIds : mstate[i] = "unsent" /\ mstate' = [mstate EXCEPT ![i] = "ready"]
  BY DEF DomainSeen, Publish, Send, IsLowest, InState
<1>3. pc' = pc /\ current' = current /\ inbox' = inbox
  BY DEF DomainSeen, Publish, Send, procVars
<1>4. IdleHasNone' /\ OneHolder' /\ TakenOnce'
  BY <1>1, <1>3 DEF IdleHasNone, OneHolder, TakenOnce, Has, MessageIds
<1>5. HeldDelivered' /\ OneDelivered'
  BY <1>1, <1>2, <1>3 DEF HeldDelivered, OneDelivered, Has, MessageIds, CoreInv, JetStreamTypeOK
<1> QED BY <1>4, <1>5
-----------------------------------------------------------------------------
(* The steps of process_domain only move pc within the busy values. *)
LEMMA ProcessDomainSerial ==
  ASSUME CoreInv, SerialInv, NEW p \in Processors,
         NEW m \in {"pattern", "exclude", "override", "each", "running", "store", "ack", pc[p]},
         Goto(p, m), UNCHANGED <<mstate, inbox, current>>,
         used'["late"] = 0 => used["late"] = 0
  PROVE  SerialInv'
<1>1. pc' = [pc EXCEPT ![p] = m]
  BY DEF Goto
<1>2. \A q \in Processors : pc'[q] \in {"down", "idle"} => pc[q] \in {"down", "idle"}
  BY <1>1 DEF CoreInv, ProcessorTypeOK
<1> QED BY <1>2, SerialKept

LEMMA ProcessorStepSerial ==
  ASSUME CoreInv, SerialInv, NEW p \in Processors, ProcessorStep(p)
  PROVE  SerialInv'
<1>1. CASE Start(p)
  <2>1. \A q \in Processors : pc'[q] \in {"down", "idle"} => pc[q] \in {"down", "idle"}
    BY <1>1 DEF Start, Goto, CoreInv, ProcessorTypeOK
  <2> QED BY <1>1, <2>1, SerialKept DEF Start, streamVars
<1>2. CASE Fetch(p) BY <1>2, FetchSerial
<1>3. CASE Receive(p) BY <1>3, ReceiveSerial
<1>4. CASE Ack(p) BY <1>4, AckSerial
<1>5. CASE ReadStates(p)
  BY <1>5, ProcessDomainSerial DEF ReadStates, streamVars
<1>6. CASE ReadOverride(p)
  BY <1>6, ProcessDomainSerial DEF ReadOverride, streamVars
<1>7. ASSUME NEW t \in Classifiers,
             ApplyPattern(p, t) \/ ApplyExclude(p, t) \/ PromptUnreadable(p, t)
      PROVE  SerialInv'
  <2>1. Finish(p, t) /\ UNCHANGED <<mstate, inbox, current>>
    BY <1>7 DEF ApplyPattern, ApplyExclude, PromptUnreadable, streamVars
  <2>2. used'["late"] = 0 => used["late"] = 0
    BY <1>7, LateIsMonotone, KindsAssumption DEF ApplyPattern, ApplyExclude, PromptUnreadable
  <2> QED BY <2>1, <2>2, ProcessDomainSerial DEF Finish
<1>8. ASSUME NEW t \in Classifiers, StartClassifier(p, t) PROVE SerialInv'
  BY <1>8, ProcessDomainSerial DEF StartClassifier, streamVars
<1>9. ASSUME NEW m \in BOOLEAN, NEW c \in Confidence, ClassifierSucceeds(p, m, c)
      PROVE  SerialInv'
  <2>1. PICK l \in {"ack", "each", "store"} : Goto(p, l)
    BY <1>9 DEF ClassifierSucceeds, FinishJob
  <2>2. used'["late"] = 0 => used["late"] = 0
    BY <1>9, LateIsMonotone, KindsAssumption DEF ClassifierSucceeds
  <2> QED BY <1>9, <2>1, <2>2, ProcessDomainSerial DEF ClassifierSucceeds, streamVars
<1>10. CASE ClassifierFails(p) \/ StoreVerdict(p)
  BY <1>10, ProcessDomainSerial DEF ClassifierFails, StoreVerdict, FinishJob, streamVars
<1>11. CASE StoreRefused(p)
  BY <1>11, ProcessDomainSerial DEF StoreRefused, Abort, streamVars
<1> QED BY <1>1, <1>2, <1>3, <1>4, <1>5, <1>6, <1>7, <1>8, <1>9, <1>10, <1>11
        DEF ProcessorStep, Processing, Classifying

LEMMA FaultSerial ==
  ASSUME CoreInv, SerialInv, Fault
  PROVE  SerialInv'
<1>1. ASSUME NEW p \in Processors, Crash(p) PROVE SerialInv'
  BY <1>1, CrashSerial
<1>2. ASSUME NEW p \in Processors, DatabaseFails(p) PROVE SerialInv'
  <2>1. used'["late"] = 0 => used["late"] = 0
    BY <1>2, LateIsMonotone, KindsAssumption DEF DatabaseFails
  <2> QED BY <1>2, <2>1, ProcessDomainSerial DEF DatabaseFails, Abort, streamVars
<1>3. ASSUME Spend("late") PROVE SerialInv'
  <2>1. used'["late"] # 0
    BY <1>3, LateIsMonotone, KindsAssumption
  <2> QED BY <2>1 DEF SerialInv, Serial
<1>4. CASE DayPasses
  <2>1. used'["late"] = 0 => used["late"] = 0
    BY <1>4, LateIsMonotone, KindsAssumption DEF DayPasses
  <2> QED BY <1>4, <2>1, SerialKept DEF DayPasses, streamVars, procVars
<1> QED BY <1>1, <1>2, <1>3, <1>4 DEF Fault, AckFails, RedeliverHeld

LEMMA NextSerial == CoreInv /\ SerialInv /\ [Next]_qpVars => SerialInv'
<1> SUFFICES ASSUME CoreInv, SerialInv, [Next]_qpVars PROVE SerialInv'
  OBVIOUS
<1>1. CASE UNCHANGED qpVars
  BY <1>1, SerialKept DEF qpVars
<1>2. CASE Next
  BY <1>2, ProcessorStepSerial, RedeliverLostSerial, DomainSeenSerial, FaultSerial DEF Next
<1> QED BY <1>1, <1>2

(* Two busy processors would have two messages or share one. *)
LEMMA SerialIsAlone ==
  ASSUME CoreInv, SerialInv, Serial
  PROVE  \A p, q \in Busy : p = q
<1>1. HeldDelivered /\ OneDelivered /\ OneHolder
  BY DEF SerialInv
<1>2. \A p \in Busy : p \in Processors /\ current[p] \in MessageIds /\ Has(p, current[p])
  BY DEF Busy, CoreInv, Engaged, Has
<1> QED BY <1>1, <1>2 DEF HeldDelivered, OneDelivered, OneHolder

LEMMA SerialInvSerialises == CoreInv /\ SerialInv => SerialProcessing
<1> SUFFICES ASSUME CoreInv, SerialInv, Serial PROVE Cardinality(Busy) <= 1
  BY DEF SerialProcessing, Serial
<1>3. \A p, q \in Busy : p = q
  BY SerialIsAlone
<1>4. CASE Busy = {}
  BY <1>4, FS_EmptySet
<1>5. CASE Busy # {}
  <2>1. PICK p \in Busy : Busy = {p}
    BY <1>3, <1>5
  <2>2. Cardinality({p}) = 1
    BY FS_Singleton
  <2> QED BY <2>1, <2>2
<1> QED BY <1>4, <1>5

(* With max_ack_pending 1 and every ack in time, one domain at a time is   *)
(* processed, by however many processors, through any number of crashes.   *)
THEOREM SerialisedByAckPending == Spec => []SerialProcessing
<1>1. Spec => []SerialInv
  BY InitSerial, NextSerial, CoreInvariance, PTL DEF Spec
<1> QED BY <1>1, CoreInvariance, SerialInvSerialises, PTL
-----------------------------------------------------------------------------
(* One valid LLM verdict.  A type is due when its newest row has run out,  *)
(* and its older rows have then run out too: a row that does not displace  *)
(* the LLM's stays valid as long as they do.                               *)

Lasts(r) == r.verdict.src = "llm_prompt" /\ today < r.validUntil

RowsNumbered == \A r \in rows : r.id <= txid

LastsOneTtl == \A r \in rows : Lasts(r) => r.validUntil <= today + TtlDays

NewerOutlast ==
  \A r, s \in rows : SameKey(r, s) /\ Lasts(r) /\ r.id <= s.id => r.validUntil <= s.validUntil

(* A classifier runs for a type that is due. *)
JobIsDue == \A p \in Processors : pc[p] \in {"running", "store"} => job[p].ctype \in todo[p]

VerdictInv == RowsNumbered /\ LastsOneTtl /\ NewerOutlast /\ JobIsDue

OneLasts == \A r, s \in rows : SameKey(r, s) /\ Lasts(r) /\ Lasts(s) => r = s

HasRead(p) == pc[p] \in {"pattern", "exclude", "override", "each", "running", "store"}

(* No LLM verdict is valid on what is due. *)
DueHaveNone ==
  \A p \in Processors : HasRead(p) =>
    \A r \in rows : r.domain = DomainOf(p) /\ r.ctype \in todo[p] => ~ Lasts(r)

(* Domains are processed one at a time: max_ack_pending is 1 and no ack    *)
(* was late, or there is one processor.                                    *)
OneAtATime == Serial \/ \A p, q \in Processors : p = q

AloneInv == OneAtATime => OneLasts /\ DueHaveNone

(* A row d, t, v is written for ttl days; what overrules a classifier      *)
(* displaces its row.                                                      *)
WritesRow(d, t, v, ttl) ==
  /\ \/ rows' = rows \union {NewRow(d, t, v, ttl)} /\ ttl = TtlDays
     \/ /\ rows' = Expire(Displaced(d, t)) \union {NewRow(d, t, v, ttl)}
        /\ v.src # "llm_prompt"
  /\ today' = today /\ txid' = txid + 1

KeepsRows == rows' = rows /\ today <= today' /\ txid <= txid'

LEMMA RowsKept ==
  ASSUME DatabaseTypeOK, RowsNumbered, LastsOneTtl, NewerOutlast, today' \in Nat, txid' \in Nat,
         KeepsRows
  PROVE  /\ RowsNumbered' /\ LastsOneTtl' /\ NewerOutlast'
         /\ \A r \in rows' : Lasts(r)' => r \in rows /\ Lasts(r)
<1>1. \A r \in rows : Lasts(r)' => Lasts(r)
  BY DEF KeepsRows, Lasts, DatabaseTypeOK, Row
<1>2. RowsNumbered'
  BY DEF KeepsRows, RowsNumbered, DatabaseTypeOK, Row
<1>3. LastsOneTtl'
  <2> SUFFICES ASSUME NEW r \in rows, Lasts(r)' PROVE r.validUntil <= today' + TtlDays
    BY DEF LastsOneTtl, KeepsRows, Lasts
  <2>1. r.validUntil <= today + TtlDays /\ r.validUntil \in Nat
    BY <1>1 DEF LastsOneTtl, DatabaseTypeOK, Row
  <2> QED BY <2>1, TtlAssumption DEF KeepsRows, DatabaseTypeOK
<1>4. NewerOutlast'
  BY <1>1 DEF NewerOutlast, KeepsRows, SameKey, Lasts
<1> QED BY <1>1, <1>2, <1>3, <1>4 DEF KeepsRows

(* A row that is there after a write was there before, unless it is the    *)
(* new one; what an expiry changed is displaced and does not last.         *)
LEMMA RowsWritten ==
  ASSUME DatabaseTypeOK, RowsNumbered, LastsOneTtl, NewerOutlast,
         NEW d \in Domains, NEW t \in Types, NEW v \in Verdict, NEW ttl \in Nat,
         WritesRow(d, t, v, ttl)
  PROVE  /\ RowsNumbered' /\ LastsOneTtl' /\ NewerOutlast'
         /\ \A r \in rows' : Lasts(r)' =>
              \/ r \in rows /\ Lasts(r)
              \/ r = NewRow(d, t, v, ttl) /\ v.src = "llm_prompt"
<1> DEFINE n == NewRow(d, t, v, ttl)
<1>1. /\ n \in Row /\ n.id = txid + 1 /\ n.domain = d /\ n.ctype = t /\ n.verdict = v
      /\ n.validUntil = today + ttl
  BY NewRowType DEF NewRow
<1>2. today' = today /\ txid' = txid + 1 /\ today \in Nat /\ txid \in Nat /\ TtlDays \in Nat
  BY TtlAssumption DEF WritesRow, DatabaseTypeOK
<1> HIDE DEF n
<1>3. \A r \in rows' :
        \/ r = n
        \/ r \in rows
        \/ \E s \in Displaced(d, t) : r = [s EXCEPT !.validUntil = today]
  <2>1. CASE rows' = rows \union {n}
    BY <2>1
  <2>2. CASE rows' = Expire(Displaced(d, t)) \union {n}
    BY <2>2 DEF Expire
  <2> QED BY <2>1, <2>2 DEF WritesRow, n
<1>4. ASSUME NEW s \in Displaced(d, t), NEW r, r = [s EXCEPT !.validUntil = today]
      PROVE  /\ r.id = s.id /\ r.domain = d /\ r.ctype = t
             /\ r.validUntil = today /\ s \in rows
  BY <1>4 DEF Displaced, RowsOf, DatabaseTypeOK, Row
<1>5. \A r \in rows : r.id <= txid /\ r.id \in Nat /\ r.validUntil \in Nat
  BY DEF RowsNumbered, DatabaseTypeOK, Row
<1>6. \A r \in rows' : Lasts(r)' => r \in rows \/ (r = n /\ v.src = "llm_prompt")
  BY <1>1, <1>2, <1>3, <1>4 DEF Lasts
<1>7. \A r : Lasts(r)' <=> Lasts(r)
  BY <1>2 DEF Lasts
<1>8. \/ rows' = rows \union {n} /\ ttl = TtlDays
      \/ v.src # "llm_prompt" /\ \A r \in rows' : SameKey(r, n) => ~ Lasts(r)
  <2> SUFFICES ASSUME rows' = Expire(Displaced(d, t)) \union {n}, v.src # "llm_prompt",
                      NEW r \in rows', SameKey(r, n)
               PROVE  ~ Lasts(r)
    BY DEF WritesRow, n
  <2>1. CASE r = n
    BY <2>1, <1>1 DEF Lasts
  <2>2. CASE r \in rows \ Displaced(d, t)
    BY <2>2, <1>1 DEF Lasts, Displaced, RowsOf, SameKey
  <2>3. ASSUME NEW s \in Displaced(d, t), r = [s EXCEPT !.validUntil = today]
        PROVE  ~ Lasts(r)
    BY <2>3, <1>2, <1>4 DEF Lasts
  <2> QED BY <2>1, <2>2, <2>3 DEF Expire
<1>9. RowsNumbered'
  <2> SUFFICES ASSUME NEW r \in rows' PROVE r.id <= txid'
    BY DEF RowsNumbered
  <2>1. r.id \in Nat /\ (r.id <= txid \/ r.id = txid + 1)
    BY <1>1, <1>2, <1>3, <1>4, <1>5
  <2> QED BY <1>2, <2>1
<1>10. LastsOneTtl'
  <2> SUFFICES ASSUME NEW r \in rows', Lasts(r) PROVE r.validUntil <= today + TtlDays
    BY <1>2, <1>7 DEF LastsOneTtl
  <2>1. CASE r \in rows
    BY <2>1 DEF LastsOneTtl
  <2>2. CASE r = n /\ v.src = "llm_prompt"
    BY <2>2, <1>1, <1>2, <1>8
  <2> QED BY <1>6, <1>7, <2>1, <2>2
<1>11. NewerOutlast'
  <2> SUFFICES ASSUME NEW r \in rows', NEW s \in rows', SameKey(r, s), Lasts(r), r.id <= s.id
               PROVE  r.validUntil <= s.validUntil
    BY <1>7 DEF NewerOutlast, SameKey
  <2>1. CASE s = n
    <3>1. SameKey(r, n)
      BY <2>1
    <3>2. ttl = TtlDays
      BY <3>1, <1>8
    <3>3. r.validUntil <= today + TtlDays
      BY <1>7, <1>10, <1>2 DEF LastsOneTtl
    <3> QED BY <2>1, <3>2, <3>3, <1>1
  <2>2. CASE s \in rows
    <3>1. r # n
      BY <2>2, <1>1, <1>2, <1>5
    <3>2. r \in rows
      BY <3>1, <1>6, <1>7
    <3> QED BY <2>2, <3>2 DEF NewerOutlast
  <2>3. ASSUME NEW x \in Displaced(d, t), s = [x EXCEPT !.validUntil = today], s \notin rows
        PROVE  r.validUntil <= s.validUntil
    <3>0. s.id = x.id /\ s.domain = d /\ s.ctype = t /\ x \in rows
      BY <2>3, <1>4
    <3>1. SameKey(r, n)
      BY <3>0, <1>1 DEF SameKey
    <3>2. s # n
      BY <3>0, <1>1, <1>2, <1>5
    <3>3. rows' # rows \union {n}
      BY <2>3, <3>2
    <3> QED BY <3>1, <3>3, <1>8
  <2> QED BY <2>1, <2>2, <2>3, <1>3
<1> QED BY <1>6, <1>7, <1>9, <1>10, <1>11 DEF n

(* p does not begin to be at a domain, and nothing becomes due there. *)
Stays(p) ==
  /\ HasRead(p)' => HasRead(p) /\ todo'[p] \subseteq todo[p] /\ current'[p] = current[p]
  /\ pc'[p] \in {"running", "store"} =>
       /\ pc[p] \in {"running", "store"}
       /\ job'[p].ctype = job[p].ctype /\ todo'[p] = todo[p]

LEMMA ProcessorStays ==
  ASSUME CoreInv, NEW p \in Processors,
         \/ Start(p) \/ Receive(p) \/ Ack(p) \/ AckFails(p) \/ Crash(p)
         \/ ReadOverride(p) \/ ClassifierFails(p) \/ StoreVerdict(p)
         \/ StoreRefused(p) \/ DatabaseFails(p)
         \/ \E t \in Classifiers : ApplyPattern(p, t) \/ ApplyExclude(p, t) \/ PromptUnreadable(p, t)
         \/ \E m \in BOOLEAN, c \in Confidence : ClassifierSucceeds(p, m, c)
  PROVE  \A q \in Processors : Stays(q)
<1>1. ASSUME NEW m \in {"down", "idle", "ack", "received"}, Goto(p, m),
             \A q \in Processors \ {p} : /\ todo'[q] = todo[q] /\ current'[q] = current[q]
                                         /\ job'[q] = job[q]
      PROVE  \A q \in Processors : Stays(q)
  BY <1>1 DEF Goto, Stays, HasRead, CoreInv, ProcessorTypeOK
<1>2. CASE Start(p) \/ Receive(p) \/ Ack(p) \/ AckFails(p) \/ Crash(p) \/ StoreRefused(p) \/ DatabaseFails(p)
  <2>1. \E m \in {"down", "idle", "ack", "received"} : Goto(p, m)
    BY <1>2 DEF Start, Receive, Ack, AckFails, Crash, StoreRefused, DatabaseFails, Release, Abort, Goto
  <2>2. \A q \in Processors \ {p} : todo'[q] = todo[q] /\ current'[q] = current[q] /\ job'[q] = job[q]
    BY <1>2 DEF Start, Receive, Ack, AckFails, Crash, StoreRefused, DatabaseFails, Release, Abort,
                Forget, CoreInv, ProcessorTypeOK
  <2> QED BY <1>1, <2>1, <2>2
<1>3. CASE ReadOverride(p)
  BY <1>3 DEF ReadOverride, Goto, Stays, HasRead, CoreInv, ProcessorTypeOK
<1>4. CASE ClassifierFails(p) \/ StoreVerdict(p)
  BY <1>4 DEF ClassifierFails, StoreVerdict, FinishJob, Goto, Stays, HasRead, CoreInv, ProcessorTypeOK
<1>5. ASSUME NEW t \in Classifiers, ApplyPattern(p, t) \/ ApplyExclude(p, t) \/ PromptUnreadable(p, t)
      PROVE  \A q \in Processors : Stays(q)
  BY <1>5 DEF ApplyPattern, ApplyExclude, PromptUnreadable, Finish, Goto, Stays, HasRead, CoreInv,
              ProcessorTypeOK
<1>6. ASSUME NEW m \in BOOLEAN, NEW c \in Confidence, ClassifierSucceeds(p, m, c)
      PROVE  \A q \in Processors : Stays(q)
  <2>1. CASE c = "low"
    BY <1>6, <2>1 DEF ClassifierSucceeds, FinishJob, Goto, Stays, HasRead, CoreInv, ProcessorTypeOK
  <2>2. CASE c # "low"
    <3>1. pc' = [pc EXCEPT ![p] = "store"] /\ pc[p] = "running" /\ todo' = todo /\ current' = current
      BY <1>6, <2>2 DEF ClassifierSucceeds, Goto
    <3>2. job'[p].ctype = job[p].ctype /\ \A q \in Processors \ {p} : job'[q] = job[q]
      BY <1>6, <2>2 DEF ClassifierSucceeds, CoreInv, ProcessorTypeOK, Job
    <3> QED BY <3>1, <3>2 DEF Stays, HasRead, CoreInv, ProcessorTypeOK
  <2> QED BY <2>1, <2>2
<1> QED BY <1>2, <1>3, <1>4, <1>5, <1>6

LEMMA JobStaysDue ==
  ASSUME JobIsDue, \A q \in Processors : Stays(q)
  PROVE  JobIsDue'
  BY DEF JobIsDue, Stays

(* Steps of a processor or of the environment that write no row. *)
LEMMA PassingKeeps ==
  ASSUME CoreInv, CoreInv', VerdictInv, AloneInv, OneAtATime' => OneAtATime,
         KeepsRows, payload' = payload, \A q \in Processors : Stays(q)
  PROVE  VerdictInv' /\ AloneInv'
<1>1. DatabaseTypeOK /\ today' \in Nat /\ txid' \in Nat
  BY DEF CoreInv, DbInv, DatabaseTypeOK
<1>2. /\ RowsNumbered' /\ LastsOneTtl' /\ NewerOutlast'
      /\ \A r \in rows' : Lasts(r)' => r \in rows /\ Lasts(r)
  BY <1>1, RowsKept DEF VerdictInv
<1>3. JobIsDue'
  BY JobStaysDue DEF VerdictInv
<1>4. ASSUME OneAtATime' PROVE OneLasts' /\ DueHaveNone'
  <2>1. OneLasts /\ DueHaveNone
    BY <1>4 DEF AloneInv
  <2>2. OneLasts'
    BY <1>2, <2>1 DEF OneLasts, SameKey
  <2>3. DueHaveNone'
    <3> SUFFICES ASSUME NEW q \in Processors, HasRead(q)', NEW r \in rows',
                        r.domain = payload'[current'[q]], r.ctype \in todo'[q]
                 PROVE  ~ Lasts(r)'
      BY DEF DueHaveNone, DomainOf
    <3>1. HasRead(q) /\ r.domain = DomainOf(q) /\ r.ctype \in todo[q]
      BY DEF Stays, DomainOf
    <3> QED BY <1>2, <2>1, <3>1 DEF DueHaveNone
  <2> QED BY <2>2, <2>3
<1> QED BY <1>2, <1>3, <1>4 DEF VerdictInv, AloneInv

(* What is due has run out: its newest row, and so every verdict the LLM   *)
(* gave before.                                                            *)
LEMMA DueRanOut ==
  ASSUME DatabaseTypeOK, RowsNumbered, NewerOutlast, NEW d, NEW t,
         DomainState(d, t) # "Current", NEW r \in RowsOf(d, t)
  PROVE  ~ Lasts(r)
<1> DEFINE S == RowsOf(d, t)
<1>1. S # {} /\ \A x \in S : x \in rows /\ x.domain = d /\ x.ctype = t
  BY DEF RowsOf
<1>2. txid \in Nat /\ today \in Nat /\ \A x \in S : x.id \in Nat /\ x.id <= txid /\ x.validUntil \in Nat
  BY <1>1 DEF DatabaseTypeOK, Row, RowsNumbered
<1> HIDE DEF S
<1>3. Latest(S) \in S /\ \A y \in S : y.id <= Latest(S).id
  BY <1>1, <1>2, LatestIsNewest
<1>4. ~ (today < Latest(S).validUntil)
  BY <1>1 DEF DomainState, S
<1>5. r \in S
  BY DEF S
<1>6. Lasts(r) => r.validUntil <= Latest(S).validUntil
  BY <1>1, <1>3, <1>5 DEF NewerOutlast, SameKey
<1> QED BY <1>2, <1>3, <1>4, <1>5, <1>6 DEF Lasts

LEMMA ReadStatesVerdict ==
  ASSUME CoreInv, CoreInv', VerdictInv, AloneInv, NEW p \in Processors, ReadStates(p)
  PROVE  VerdictInv' /\ AloneInv'
<1>1. DatabaseTypeOK /\ KeepsRows /\ txid' \in Nat /\ today' \in Nat /\ today' = today /\ rows' = rows
  BY DEF CoreInv, DbInv, DatabaseTypeOK, KeepsRows, ReadStates, dbVars
<1>2. RowsNumbered' /\ LastsOneTtl' /\ NewerOutlast'
  BY <1>1, RowsKept DEF VerdictInv
<1>3. PICK m \in {"ack", "pattern", "exclude", "override"} : pc' = [pc EXCEPT ![p] = m]
  BY DEF ReadStates, Goto
<1>4. pc[p] = "received" /\ payload' = payload /\ current' = current /\ job' = job
  BY DEF ReadStates, streamVars
<1>5. todo' = [todo EXCEPT ![p] = {t \in Classifiers : DomainState(DomainOf(p), t) # "Current"}]
  BY DEF ReadStates
<1>6. JobIsDue'
  BY <1>3, <1>4, <1>5 DEF JobIsDue, VerdictInv, CoreInv, ProcessorTypeOK
<1>7. ASSUME OneAtATime' PROVE OneLasts' /\ DueHaveNone'
  <2>1. OneLasts /\ DueHaveNone
    BY <1>7 DEF AloneInv, OneAtATime, Serial, ReadStates
  <2>2. OneLasts'
    BY <1>1, <2>1 DEF OneLasts, Lasts, SameKey
  <2>3. DueHaveNone'
    <3> SUFFICES ASSUME NEW q \in Processors, HasRead(q)', NEW r \in rows,
                        r.domain = DomainOf(q), r.ctype \in todo'[q]
                 PROVE  ~ Lasts(r)
      BY <1>1, <1>4 DEF DueHaveNone, DomainOf, Lasts
    <3>1. CASE q = p
      <4>1. DomainState(DomainOf(p), r.ctype) # "Current" /\ r \in RowsOf(DomainOf(p), r.ctype)
        BY <3>1, <1>5 DEF RowsOf, CoreInv, ProcessorTypeOK
      <4> QED BY <4>1, <1>1, DueRanOut DEF VerdictInv
    <3>2. CASE q # p
      BY <3>2, <1>3, <1>5, <2>1 DEF DueHaveNone, HasRead, CoreInv, ProcessorTypeOK
    <3> QED BY <3>1, <3>2
  <2> QED BY <2>2, <2>3
<1> QED BY <1>2, <1>6, <1>7 DEF VerdictInv, AloneInv

LEMMA StartClassifierVerdict ==
  ASSUME CoreInv, CoreInv', VerdictInv, AloneInv, NEW p \in Processors, NEW t \in Classifiers,
         StartClassifier(p, t)
  PROVE  VerdictInv' /\ AloneInv'
<1>1. /\ rows' = rows /\ today' = today /\ txid' = txid + 1 /\ payload' = payload
      /\ current' = current /\ todo' = todo /\ used' = used
  BY DEF StartClassifier, InsertEvent, InsertEvents, streamVars
<1>2. DatabaseTypeOK /\ KeepsRows /\ txid' \in Nat /\ today' \in Nat
  BY <1>1 DEF CoreInv, DbInv, DatabaseTypeOK, KeepsRows
<1>3. RowsNumbered' /\ LastsOneTtl' /\ NewerOutlast'
  BY <1>2, RowsKept DEF VerdictInv
<1>4. pc[p] = "each" /\ t \in todo[p] /\ pc' = [pc EXCEPT ![p] = "running"]
  BY DEF StartClassifier, Goto
<1>5. JobIsDue'
  <2> SUFFICES ASSUME NEW q \in Processors, pc'[q] \in {"running", "store"}
               PROVE  job'[q].ctype \in todo'[q]
    BY DEF JobIsDue
  <2>1. CASE q = p
    BY <1>1, <1>4, <2>1 DEF StartClassifier, CoreInv, ProcessorTypeOK
  <2>2. CASE q # p
    BY <1>1, <1>4, <2>2 DEF StartClassifier, CoreInv, ProcessorTypeOK, VerdictInv, JobIsDue
  <2> QED BY <2>1, <2>2
<1>6. ASSUME OneAtATime' PROVE OneLasts' /\ DueHaveNone'
  <2>1. OneLasts /\ DueHaveNone
    BY <1>1, <1>6 DEF AloneInv, OneAtATime, Serial
  <2>2. \A q \in Processors : HasRead(q)' => HasRead(q)
    BY <1>4 DEF HasRead, CoreInv, ProcessorTypeOK
  <2>3. OneLasts'
    BY <1>1, <2>1 DEF OneLasts, Lasts, SameKey
  <2>4. DueHaveNone'
    BY <1>1, <2>1, <2>2 DEF DueHaveNone, Lasts, DomainOf
  <2> QED BY <2>3, <2>4
<1> QED BY <1>3, <1>5, <1>6 DEF VerdictInv, AloneInv

(* The row of a type that was due, by the only processor at work. *)
LEMMA WritingKeeps ==
  ASSUME CoreInv, CoreInv', VerdictInv, AloneInv, OneAtATime' => OneAtATime,
         OneAtATime => \A p, q \in Busy : p = q,
         NEW p \in Processors, HasRead(p), NEW t \in todo[p], t \in Types,
         NEW v \in Verdict, NEW ttl \in Nat, WritesRow(DomainOf(p), t, v, ttl),
         payload' = payload, \A q \in Processors : Stays(q), t \notin todo'[p]
  PROVE  VerdictInv' /\ AloneInv'
<1> DEFINE n == NewRow(DomainOf(p), t, v, ttl)
<1>1. DatabaseTypeOK /\ DomainOf(p) \in Domains
  BY DomainInHand DEF CoreInv, DbInv, HasRead
<1>2. /\ RowsNumbered' /\ LastsOneTtl' /\ NewerOutlast'
      /\ \A r \in rows' : Lasts(r)' =>
           \/ r \in rows /\ Lasts(r)
           \/ r = n /\ v.src = "llm_prompt"
  BY <1>1, RowsWritten DEF VerdictInv
<1>3. n.domain = DomainOf(p) /\ n.ctype = t
  BY DEF NewRow
<1> HIDE DEF n
<1>4. JobIsDue'
  BY JobStaysDue DEF VerdictInv
<1>5. ASSUME OneAtATime' PROVE OneLasts' /\ DueHaveNone'
  <2>1. OneLasts /\ DueHaveNone /\ \A x, y \in Busy : x = y
    BY <1>5 DEF AloneInv
  <2>2. \A r \in rows : SameKey(r, n) => ~ Lasts(r)
    BY <2>1, <1>3 DEF DueHaveNone, SameKey
  <2>3. OneLasts'
    <3> SUFFICES ASSUME NEW r \in rows', NEW s \in rows', SameKey(r, s), Lasts(r)', Lasts(s)'
                 PROVE  r = s
      BY DEF OneLasts, SameKey
    <3>1. CASE r = n \/ s = n
      BY <1>2, <2>2, <3>1 DEF SameKey
    <3>2. CASE r # n /\ s # n
      BY <1>2, <2>1, <3>2 DEF OneLasts
    <3> QED BY <3>1, <3>2
  <2>4. DueHaveNone'
    <3> SUFFICES ASSUME NEW q \in Processors, HasRead(q)', NEW r \in rows',
                        r.domain = payload'[current'[q]], r.ctype \in todo'[q]
                 PROVE  ~ Lasts(r)'
      BY DEF DueHaveNone, DomainOf
    <3>1. HasRead(q) /\ r.domain = DomainOf(q) /\ r.ctype \in todo[q]
      BY DEF Stays, DomainOf
    <3>2. q = p
      BY <2>1, <3>1 DEF Busy, HasRead
    <3>3. r # n
      BY <1>3, <3>2
    <3> QED BY <1>2, <2>1, <3>1, <3>3 DEF DueHaveNone
  <2> QED BY <2>3, <2>4
<1> QED BY <1>2, <1>4, <1>5 DEF VerdictInv, AloneInv

LEMMA AloneBefore ==
  ASSUME CoreInv, Next, OneAtATime'
  PROVE  OneAtATime
<1>1. \/ used' = used
      \/ \E k \in Kinds : Spend(k)
  BY KindsAssumption
     DEF Next, ProcessorStep, Processing, Classifying, Fault, Start, Fetch, Receive, ReadStates,
         ApplyPattern, ApplyExclude, ReadOverride, Ack, StartClassifier, PromptUnreadable,
         ClassifierSucceeds, ClassifierFails, StoreVerdict, StoreRefused, RedeliverLost, DomainSeen,
         Crash, DatabaseFails, AckFails, RedeliverHeld, DayPasses
<1> QED BY <1>1, LateIsMonotone DEF OneAtATime, Serial

LEMMA ApplyPatternVerdict ==
  ASSUME CoreInv, CoreInv', VerdictInv, AloneInv, OneAtATime' => OneAtATime,
         OneAtATime => \A p, q \in Busy : p = q,
         NEW p \in Processors, NEW t \in Classifiers, ApplyPattern(p, t)
  PROVE  VerdictInv' /\ AloneInv'
<1>1. PICK rule \in matched[p] : ApplyPatternClassification(DomainOf(p), t, rule)
  BY DEF ApplyPattern
<1> DEFINE v == [match |-> rule.match, conf |-> "enough", src |-> rule.src]
<1>2. v \in Verdict /\ v.src # "llm_prompt"
  BY DEF CoreInv, ProcessorTypeOK, Rule, Verdict, Confidence, SourceType
<1>3. WritesRow(DomainOf(p), t, v, Forever)
  BY <1>1, <1>2 DEF ApplyPatternClassification, Classify, InsertEvents, WritesRow
<1> HIDE DEF v
<1>4. t \in Types /\ t \in todo[p] /\ HasRead(p) /\ payload' = payload /\ t \notin todo'[p]
  BY ClassifierIsType DEF ApplyPattern, HasRead, streamVars, Finish, CoreInv, ProcessorTypeOK
<1> QED BY <1>2, <1>3, <1>4, ProcessorStays, WritingKeeps, TtlAssumption

LEMMA ApplyExcludeVerdict ==
  ASSUME CoreInv, CoreInv', VerdictInv, AloneInv, OneAtATime' => OneAtATime,
         OneAtATime => \A p, q \in Busy : p = q,
         NEW p \in Processors, NEW t \in Classifiers, ApplyExclude(p, t)
  PROVE  VerdictInv' /\ AloneInv'
<1> DEFINE v == [match |-> FALSE, conf |-> "enough", src |-> "config_exclude_rule"]
<1>1. v \in Verdict
  BY DEF Verdict, Confidence, SourceType
<1>2. rows' = Expire({}) \union {NewRow(DomainOf(p), t, v, TtlDays)} /\ today' = today /\ txid' = txid + 1
  BY DEF ApplyExclude, ExcludeRuleClassify, Classify, InsertEvents
<1>3. WritesRow(DomainOf(p), t, v, TtlDays)
  <2>1. Expire({}) = rows
    BY DEF Expire
  <2> QED BY <1>2, <2>1 DEF WritesRow
<1> HIDE DEF v
<1>4. t \in Types /\ t \in todo[p] /\ HasRead(p) /\ payload' = payload /\ t \notin todo'[p]
  BY ClassifierIsType DEF ApplyExclude, HasRead, streamVars, Finish, CoreInv, ProcessorTypeOK
<1> QED BY <1>1, <1>3, <1>4, ProcessorStays, WritingKeeps, TtlAssumption

LEMMA StoreVerdictVerdict ==
  ASSUME CoreInv, CoreInv', VerdictInv, AloneInv, OneAtATime' => OneAtATime,
         OneAtATime => \A p, q \in Busy : p = q,
         NEW p \in Processors, StoreVerdict(p)
  PROVE  VerdictInv' /\ AloneInv'
<1> DEFINE t == job[p].ctype
           v == job[p].verdict
<1>1. t \in Types /\ v \in Verdict
  BY LlmVerdictType DEF CoreInv, ProcessorTypeOK, Job
<1>2. t \in todo[p] /\ HasRead(p) /\ payload' = payload /\ t \notin todo'[p]
  BY DEF StoreVerdict, HasRead, streamVars, FinishJob, CoreInv, ProcessorTypeOK, VerdictInv, JobIsDue
<1>3. WritesRow(DomainOf(p), t, v, TtlDays)
  BY DEF StoreVerdict, ClassificationStore, WritesRow
<1> HIDE DEF t, v
<1> QED BY <1>1, <1>2, <1>3, ProcessorStays, WritingKeeps, TtlAssumption

(* The steps that write no row and make nothing due. *)
LEMMA ProcessorPasses ==
  ASSUME CoreInv, NEW p \in Processors,
         \/ Start(p) \/ Receive(p) \/ Ack(p) \/ AckFails(p) \/ Crash(p)
         \/ ReadOverride(p) \/ ClassifierFails(p) \/ StoreRefused(p) \/ DatabaseFails(p)
         \/ \E t \in Classifiers : PromptUnreadable(p, t)
         \/ \E m \in BOOLEAN, c \in Confidence : ClassifierSucceeds(p, m, c)
  PROVE  KeepsRows /\ payload' = payload
<1>1. today \in Nat /\ txid \in Nat
  BY DEF CoreInv, DbInv, DatabaseTypeOK
<1>2. /\ rows' = rows /\ today' = today /\ txid' \in {txid, txid + 1} /\ payload' = payload
  BY DEF Start, Receive, Ack, AckFails, Crash, ReadOverride, ClassifierFails, StoreRefused,
         DatabaseFails, Abort, PromptUnreadable, ClassifierSucceeds, Acknowledge, dbVars, streamVars,
         InsertEvent, InsertClassifiedEvent, InsertEvents
<1> QED BY <1>1, <1>2 DEF KeepsRows

(* The environment, and a message that arrives, leave processors alone. *)
LEMMA EnvironmentPasses ==
  ASSUME CoreInv,
         \/ \E p \in Processors : Fetch(p)
         \/ \E i \in MessageIds : RedeliverLost(i) \/ RedeliverHeld(i)
         \/ DomainSeen \/ DayPasses
         \/ UNCHANGED qpVars
  PROVE  KeepsRows /\ payload' = payload /\ \A q \in Processors : Stays(q)
<1>1. today \in Nat /\ txid \in Nat
  BY DEF CoreInv, DbInv, DatabaseTypeOK
<1>2. UNCHANGED procVars
  BY DEF Fetch, RedeliverLost, RedeliverHeld, DomainSeen, DayPasses, qpVars, procVars
<1>3. rows' = rows /\ today' \in {today, today + 1} /\ txid' = txid /\ payload' = payload
  BY DEF Fetch, Deliver, RedeliverLost, RedeliverHeld, AckWaitExpires, DomainSeen, Publish, Send,
         DayPasses, NewDay, dbVars, streamVars, qpVars
<1>4. KeepsRows
  BY <1>1, <1>3 DEF KeepsRows
<1> QED BY <1>2, <1>3, <1>4 DEF Stays, HasRead, procVars

LEMMA NextVerdict ==
  ASSUME CoreInv, CoreInv', SerialInv, VerdictInv, AloneInv, [Next]_qpVars
  PROVE  VerdictInv' /\ AloneInv'
<1>1. OneAtATime' => OneAtATime
  <2>1. CASE Next
    BY <2>1, AloneBefore
  <2>2. CASE UNCHANGED qpVars
    BY <2>2 DEF qpVars, OneAtATime, Serial
  <2> QED BY <2>1, <2>2
<1>2. OneAtATime => \A p, q \in Busy : p = q
  BY SerialIsAlone DEF OneAtATime, Busy
<1>3. ASSUME NEW p \in Processors, ProcessorStep(p) PROVE VerdictInv' /\ AloneInv'
  <2>1. CASE ReadStates(p)
    BY <2>1, ReadStatesVerdict
  <2>2. ASSUME NEW t \in Classifiers,
               StartClassifier(p, t) \/ ApplyPattern(p, t) \/ ApplyExclude(p, t)
        PROVE  VerdictInv' /\ AloneInv'
    BY <1>1, <1>2, <2>2, StartClassifierVerdict, ApplyPatternVerdict, ApplyExcludeVerdict
  <2>3. CASE StoreVerdict(p)
    BY <1>1, <1>2, <2>3, StoreVerdictVerdict
  <2>4. CASE Fetch(p)
    BY <1>1, <2>4, EnvironmentPasses, PassingKeeps
  <2>5. CASE \/ Start(p) \/ Receive(p) \/ Ack(p) \/ ReadOverride(p) \/ ClassifierFails(p)
             \/ StoreRefused(p)
             \/ \E t \in Classifiers : PromptUnreadable(p, t)
             \/ \E m \in BOOLEAN, c \in Confidence : ClassifierSucceeds(p, m, c)
    BY <1>1, <2>5, ProcessorPasses, ProcessorStays, PassingKeeps
  <2> QED BY <1>3, <2>1, <2>2, <2>3, <2>4, <2>5 DEF ProcessorStep, Processing, Classifying
<1>4. ASSUME NEW p \in Processors, Crash(p) \/ DatabaseFails(p) \/ AckFails(p)
      PROVE  VerdictInv' /\ AloneInv'
  BY <1>1, <1>4, ProcessorPasses, ProcessorStays, PassingKeeps
<1>5. CASE \/ \E i \in MessageIds : RedeliverLost(i) \/ RedeliverHeld(i)
           \/ DomainSeen \/ DayPasses
           \/ UNCHANGED qpVars
  BY <1>1, <1>5, EnvironmentPasses, PassingKeeps
<1> QED BY <1>3, <1>4, <1>5 DEF Next, Fault

LEMMA InitVerdict == Init => VerdictInv /\ AloneInv
  BY DEF Init, DatabaseInit, ProcessorInit, VerdictInv, RowsNumbered, LastsOneTtl, NewerOutlast,
         JobIsDue, AloneInv, OneLasts, DueHaveNone, HasRead

(* While domains are processed one at a time, because max_ack_pending is 1 *)
(* and no ack was late, or because there is one processor, the LLM has one *)
(* valid verdict on a type of a domain: a message that is delivered again, *)
(* after a crash or a lost ack, does not add a second.                     *)
THEOREM OneVerdictAtATime == Spec => [](OneAtATime => OneValidLlmVerdict)
<1>1. CoreInv /\ SerialInv /\ VerdictInv /\ AloneInv /\ [Next]_qpVars /\ CoreInv' => (VerdictInv /\ AloneInv)'
  BY NextVerdict
<1>2. AloneInv => (OneAtATime => OneValidLlmVerdict)
  BY DEF AloneInv, OneLasts, OneValidLlmVerdict, SameKey, Lasts, IsActive, ActiveOn
<1>3. Spec => []SerialInv
  BY InitSerial, NextSerial, CoreInvariance, PTL DEF Spec
<1>4. Spec => [](VerdictInv /\ AloneInv)
  BY <1>1, <1>3, InitVerdict, CoreInvariance, PTL DEF Spec
<1> QED BY <1>2, <1>4, PTL
-----------------------------------------------------------------------------
(* What an acknowledgement says.  Outcomes are appended to the log for     *)
(* what is due, and what is not due has a valid row, which was written     *)
(* after its outcome; only a classifier that is started puts "classifying" *)
(* on top of an outcome, for a type that then has no valid row.            *)

At(p, d) == DomainOf(p) = d

DueNotCurrent ==
  \A p \in Processors, d \in Domains : HasRead(p) /\ At(p, d) =>
    \A t \in todo[p] : DomainState(d, t) # "Current"

CurrentSettled ==
  \A d \in Domains, t \in Classifiers : DomainState(d, t) = "Current" => IsSettled(d, t)

DoneSettled ==
  \A p \in Processors, d \in Domains : At(p, d) =>
    \A t \in Classifiers :
      /\ HasRead(p) /\ t \notin todo[p] => IsSettled(d, t)
      /\ pc[p] = "ack" /\ d # Malformed => IsSettled(d, t)
      /\ pc[p] = "store" /\ job[p].ctype = t => IsSettled(d, t)

(* What is on its way to a row fits its CHECK. *)
StoreInRange == \A p \in Processors : pc[p] = "store" => job[p].verdict.conf # "out"

(* Without the admin API there is no override. *)
NoAllRow == \A r \in rows : r.ctype # ALL_CLASSIFICATION_TYPE

SettleInv == DueNotCurrent /\ CurrentSettled /\ DoneSettled /\ StoreInRange /\ NoAllRow

(* No call failed, and no verdict was refused. *)
Undisturbed == OneAtATime /\ used["dbfail"] = 0 /\ used["outofrange"] = 0

LEMMA OutcomeSettles ==
  ASSUME DatabaseTypeOK, EventsNumbered, NEW e, events' = events \union {e}, e.id = txid + 1,
         e.action \in {"classified", "error"}
  PROVE  IsSettled(e.domain, e.ctype)'
<1> DEFINE S == TypedEvents(e.domain, e.ctype)'
<1>1. e \in S /\ \A x \in S : x = e \/ x \in events
  BY DEF TypedEvents
<1>2. \A x \in S : x = e \/ (x.id \in Nat /\ x.id <= txid)
  BY <1>1 DEF EventsNumbered, DatabaseTypeOK, Event
<1>3. txid \in Nat
  BY DEF DatabaseTypeOK
<1> HIDE DEF S
<1>4. \A x \in S : (\A y \in S : y.id <= x.id) <=> x = e
  BY <1>1, <1>2, <1>3
<1>5. Latest(S) = e
  BY <1>1, <1>4 DEF Latest
<1> QED BY <1>1, <1>5 DEF IsSettled, S

LEMMA SettledElsewhere ==
  ASSUME NEW e, events' = events \union {e}, NEW d, NEW t, d # e.domain \/ t # e.ctype,
         IsSettled(d, t)
  PROVE  IsSettled(d, t)'
<1>1. TypedEvents(d, t)' = TypedEvents(d, t)
  BY DEF TypedEvents
<1> QED BY <1>1 DEF IsSettled

LEMMA SettledStays ==
  ASSUME events' = events, NEW d, NEW t
  PROVE  IsSettled(d, t)' <=> IsSettled(d, t)
  BY DEF IsSettled, TypedEvents

(* A day that passes makes nothing Current. *)
LEMMA CurrentBefore ==
  ASSUME DatabaseTypeOK, RowsNumbered, KeepsRows, today' \in Nat, NEW d, NEW t,
         DomainState(d, t)' = "Current"
  PROVE  DomainState(d, t) = "Current"
<1> DEFINE S == RowsOf(d, t)
<1>1. RowsOf(d, t)' = S
  BY DEF RowsOf, KeepsRows
<1>2. S # {} /\ today' < Latest(S).validUntil
  BY <1>1 DEF DomainState
<1>3. txid \in Nat /\ today \in Nat /\ \A x \in S : x.id \in Nat /\ x.id <= txid /\ x.validUntil \in Nat
  BY DEF DatabaseTypeOK, Row, RowsNumbered, RowsOf
<1>4. Latest(S) \in S
  <2> HIDE DEF S
  <2> QED BY <1>2, <1>3, LatestIsNewest
<1>5. today < Latest(S).validUntil
  <2> HIDE DEF S
  <2> QED BY <1>2, <1>3, <1>4 DEF KeepsRows
<1> QED BY <1>2, <1>5 DEF DomainState

(* A type that was due gets its outcome, or the row of an outcome it has;  *)
(* the only processor at work leaves the type, or goes on to write its row.*)
LEMMA SettlingKeeps ==
  ASSUME CoreInv, CoreInv', SettleInv, \A x, y \in Busy : x = y,
         NEW p \in Processors, NEW t \in todo[p], HasRead(p),
         NEW dom \in Domains, At(p, dom), At(p, dom)', IsSettled(dom, t)',
         \A d, u : d # dom \/ u # t =>
           /\ IsSettled(d, u) => IsSettled(d, u)'
           /\ DomainState(d, u)' = "Current" => DomainState(d, u) = "Current",
         NoAllRow', \A q \in Processors \ {p} : pc'[q] = pc[q],
         \/ /\ todo'[p] = todo[p] \ {t}
            /\ pc'[p] = "ack" => todo[p] = {t}
            /\ pc'[p] # "store"
         \/ /\ todo'[p] = todo[p] /\ pc'[p] = "store"
            /\ job'[p].ctype = t /\ job'[p].verdict.conf # "out"
            /\ DomainState(dom, t)' # "Current"
  PROVE  SettleInv'
<1>1. \A d : At(p, d) \/ At(p, d)' => d = dom
  BY DEF At
<1>2. \A q \in Processors \ {p} : pc'[q] \in {"down", "idle"}
  BY DEF Busy, HasRead
<1>3. DueNotCurrent'
  <2> SUFFICES ASSUME NEW q \in Processors, NEW d \in Domains, HasRead(q)', At(q, d)', NEW u \in todo'[q]
               PROVE  DomainState(d, u)' # "Current"
    BY DEF DueNotCurrent
  <2>1. q = p /\ d = dom
    BY <1>1, <1>2 DEF HasRead
  <2>2. CASE u = t
    BY <2>1, <2>2
  <2>3. CASE u # t
    <3>1. u \in todo[p]
      BY <2>1, <2>3
    <3> QED BY <2>1, <2>3, <3>1 DEF SettleInv, DueNotCurrent
  <2> QED BY <2>2, <2>3
<1>4. CurrentSettled'
  <2> SUFFICES ASSUME NEW d \in Domains, NEW u \in Classifiers, DomainState(d, u)' = "Current"
               PROVE  IsSettled(d, u)'
    BY DEF CurrentSettled
  <2>1. CASE d = dom /\ u = t
    BY <2>1
  <2>2. CASE d # dom \/ u # t
    BY <2>2 DEF SettleInv, CurrentSettled
  <2> QED BY <2>1, <2>2
<1>5. ASSUME NEW u \in Classifiers, u \notin todo[p] \/ u = t PROVE IsSettled(dom, u)'
  BY <1>5 DEF SettleInv, DoneSettled
<1>6. DoneSettled'
  <2> SUFFICES ASSUME NEW q \in Processors, NEW d \in Domains, At(q, d)', NEW u \in Classifiers,
                      \/ HasRead(q)' /\ u \notin todo'[q]
                      \/ pc'[q] = "ack"
                      \/ pc'[q] = "store" /\ job'[q].ctype = u
               PROVE  IsSettled(d, u)'
    BY DEF DoneSettled
  <2>1. q = p /\ d = dom
    BY <1>1, <1>2 DEF HasRead
  <2> QED BY <1>5, <2>1
<1>7. StoreInRange'
  BY <1>2 DEF StoreInRange
<1> QED BY <1>3, <1>4, <1>6, <1>7 DEF SettleInv

(* What a transaction leaves alone when it is about one (domain, type). *)
LEMMA Elsewhere ==
  ASSUME today' = today, NEW dom, NEW t,
         \/ events' = events
         \/ \E e : events' = events \union {e} /\ e.domain = dom /\ e.ctype = t,
         \A r : r.domain # dom \/ r.ctype # t => (r \in rows' <=> r \in rows)
  PROVE  \A d, u : d # dom \/ u # t =>
           /\ IsSettled(d, u) => IsSettled(d, u)'
           /\ DomainState(d, u)' = "Current" => DomainState(d, u) = "Current"
<1> SUFFICES ASSUME NEW d, NEW u, d # dom \/ u # t
             PROVE  /\ IsSettled(d, u) => IsSettled(d, u)'
                    /\ DomainState(d, u)' = "Current" => DomainState(d, u) = "Current"
  OBVIOUS
<1>1. IsSettled(d, u) => IsSettled(d, u)'
  BY SettledElsewhere, SettledStays
<1>2. RowsOf(d, u)' = RowsOf(d, u)
  BY DEF RowsOf
<1>3. DomainState(d, u)' = "Current" => DomainState(d, u) = "Current"
  BY <1>2 DEF DomainState
<1> QED BY <1>1, <1>3

LEMMA WrittenElsewhere ==
  ASSUME DatabaseTypeOK, NEW dom \in Domains, NEW t \in Types, NEW v \in Verdict, NEW ttl \in Nat,
         WritesRow(dom, t, v, ttl)
  PROVE  \A r : r.domain # dom \/ r.ctype # t => (r \in rows' <=> r \in rows)
<1> DEFINE n == NewRow(dom, t, v, ttl)
<1>1. n.domain = dom /\ n.ctype = t
  BY DEF NewRow
<1> HIDE DEF n
<1> SUFFICES ASSUME NEW r, r.domain # dom \/ r.ctype # t PROVE r \in rows' <=> r \in rows
  OBVIOUS
<1>2. CASE rows' = rows \union {n}
  BY <1>1, <1>2
<1>3. CASE rows' = Expire(Displaced(dom, t)) \union {n}
  <2>1. r \notin Displaced(dom, t)
    BY DEF Displaced, RowsOf
  <2>2. ASSUME NEW s \in Displaced(dom, t), r = [s EXCEPT !.validUntil = today]
        PROVE  FALSE
    BY <2>2 DEF Displaced, RowsOf, DatabaseTypeOK, Row
  <2> QED BY <1>1, <1>3, <2>1, <2>2 DEF Expire
<1> QED BY <1>2, <1>3 DEF WritesRow, n

(* An outcome, or the row of one, for a type of the domain p is at. *)
LEMMA OutcomeKeeps ==
  ASSUME CoreInv, CoreInv', SettleInv, \A x, y \in Busy : x = y,
         NEW p \in Processors, NEW t \in todo[p], HasRead(p),
         NEW dom \in Domains, At(p, dom), current' = current, payload' = payload, today' = today,
         \/ events' = events /\ IsSettled(dom, t)
         \/ \E e : /\ events' = events \union {e} /\ e.domain = dom /\ e.ctype = t
                   /\ e.id = txid + 1 /\ e.action \in {"classified", "error"},
         rows' = rows \/ \E v \in Verdict, ttl \in Nat : WritesRow(dom, t, v, ttl),
         \A q \in Processors \ {p} : pc'[q] = pc[q],
         \/ /\ todo'[p] = todo[p] \ {t}
            /\ pc'[p] = "ack" => todo[p] = {t}
            /\ pc'[p] # "store"
         \/ /\ todo'[p] = todo[p] /\ pc'[p] = "store"
            /\ job'[p].ctype = t /\ job'[p].verdict.conf # "out"
            /\ rows' = rows
  PROVE  SettleInv'
<1>1. t \in Classifiers /\ t \in Types /\ t # ALL_CLASSIFICATION_TYPE /\ DatabaseTypeOK /\ EventsNumbered
  BY ClassifiersAssumption, ClassifierIsType DEF CoreInv, ProcessorTypeOK, DbInv
<1>2. \A r : r.domain # dom \/ r.ctype # t => (r \in rows' <=> r \in rows)
  BY <1>1, WrittenElsewhere
<1>3. \A d, u : d # dom \/ u # t =>
        /\ IsSettled(d, u) => IsSettled(d, u)'
        /\ DomainState(d, u)' = "Current" => DomainState(d, u) = "Current"
  BY <1>2, Elsewhere
<1>4. IsSettled(dom, t)'
  <2>1. CASE events' = events /\ IsSettled(dom, t)
    BY <2>1, SettledStays
  <2>2. ASSUME NEW e, events' = events \union {e}, e.domain = dom, e.ctype = t,
               e.id = txid + 1, e.action \in {"classified", "error"}
        PROVE  IsSettled(dom, t)'
    BY <1>1, <2>2, OutcomeSettles
  <2> QED BY <2>1, <2>2
<1>5. At(p, dom)'
  BY DEF At, DomainOf
<1>6. NoAllRow'
  BY <1>1, <1>2 DEF SettleInv, NoAllRow
<1>7. rows' = rows => DomainState(dom, t)' # "Current"
  <2> SUFFICES ASSUME rows' = rows, DomainState(dom, t)' = "Current" PROVE FALSE
    OBVIOUS
  <2>1. DomainState(dom, t) = "Current"
    BY DEF DomainState, RowsOf
  <2> QED BY <2>1 DEF SettleInv, DueNotCurrent
<1> QED BY <1>3, <1>4, <1>5, <1>6, <1>7, SettlingKeeps

(* p is at a domain and ends what was due for the type t. *)
LEMMA ApplyingSettles ==
  ASSUME CoreInv, CoreInv', SettleInv, \A x, y \in Busy : x = y,
         NEW p \in Processors, NEW t \in Classifiers, ApplyPattern(p, t) \/ ApplyExclude(p, t)
  PROVE  SettleInv'
<1>1. HasRead(p) /\ t \in todo[p] /\ current' = current /\ payload' = payload /\ t \in Types
  BY ClassifierIsType DEF ApplyPattern, ApplyExclude, HasRead, streamVars
<1>2. PICK dom : dom = DomainOf(p)
  OBVIOUS
<1>3. dom \in Domains /\ At(p, dom)
  BY <1>1, <1>2, DomainInHand DEF HasRead, At
<1>4. PICK v \in Verdict, ttl \in Nat :
        /\ WritesRow(dom, t, v, ttl)
        /\ InsertEvents({NewEvent(dom, "classified", t, v)})
  <2>1. CASE ApplyPattern(p, t)
    <3>1. PICK rule \in matched[p] : ApplyPatternClassification(dom, t, rule)
      BY <1>2, <2>1 DEF ApplyPattern
    <3> DEFINE v == [match |-> rule.match, conf |-> "enough", src |-> rule.src]
    <3>2. v \in Verdict /\ v.src # "llm_prompt"
      BY DEF CoreInv, ProcessorTypeOK, Rule, Verdict, Confidence, SourceType
    <3>3. WritesRow(dom, t, v, Forever) /\ InsertEvents({NewEvent(dom, "classified", t, v)})
      BY <3>1, <3>2 DEF ApplyPatternClassification, Classify, InsertEvents, WritesRow
    <3> HIDE DEF v
    <3> QED BY <3>2, <3>3, TtlAssumption
  <2>2. CASE ApplyExclude(p, t)
    <3> DEFINE v == [match |-> FALSE, conf |-> "enough", src |-> "config_exclude_rule"]
    <3>1. v \in Verdict
      BY DEF Verdict, Confidence, SourceType
    <3>2. /\ rows' = Expire({}) \union {NewRow(dom, t, v, TtlDays)} /\ today' = today /\ txid' = txid + 1
          /\ InsertEvents({NewEvent(dom, "classified", t, v)})
      BY <1>2, <2>2 DEF ApplyExclude, ExcludeRuleClassify, Classify, InsertEvents
    <3>3. WritesRow(dom, t, v, TtlDays)
      <4>1. Expire({}) = rows
        BY DEF Expire
      <4> QED BY <3>2, <4>1 DEF WritesRow
    <3> HIDE DEF v
    <3> QED BY <3>1, <3>2, <3>3, TtlAssumption
  <2> QED BY <2>1, <2>2
<1>5. PICK e : e = NewEvent(dom, "classified", t, v)
  OBVIOUS
<1>6. /\ events' = events \union {e} /\ e.domain = dom /\ e.ctype = t
      /\ e.id = txid + 1 /\ e.action \in {"classified", "error"}
  BY <1>4, <1>5 DEF InsertEvents, NewEvent
<1>7. today' = today
  BY <1>4 DEF WritesRow
<1>8. /\ todo'[p] = todo[p] \ {t} /\ pc'[p] # "store" /\ (pc'[p] = "ack" => todo[p] = {t})
      /\ \A q \in Processors \ {p} : pc'[q] = pc[q]
  BY DEF ApplyPattern, ApplyExclude, Finish, Goto, CoreInv, ProcessorTypeOK
<1> QED BY <1>1, <1>3, <1>4, <1>6, <1>7, <1>8, OutcomeKeeps

LEMMA ClassifyingSettles ==
  ASSUME CoreInv, CoreInv', VerdictInv, SettleInv, \A x, y \in Busy : x = y, Undisturbed',
         NEW p \in Processors,
         \/ \E t \in Classifiers : PromptUnreadable(p, t)
         \/ ClassifierFails(p) \/ StoreVerdict(p)
         \/ \E m \in BOOLEAN, c \in Confidence : ClassifierSucceeds(p, m, c)
  PROVE  SettleInv'
<1>1. HasRead(p) /\ current' = current /\ payload' = payload
  BY DEF PromptUnreadable, ClassifierFails, StoreVerdict, ClassifierSucceeds, HasRead, streamVars
<1>2. PICK dom : dom = DomainOf(p)
  OBVIOUS
<1>3. dom \in Domains /\ At(p, dom)
  BY <1>1, <1>2, DomainInHand DEF HasRead, At
<1>4. ASSUME NEW t \in Classifiers, PromptUnreadable(p, t) PROVE SettleInv'
  <2>1. PICK e : e = NewEvent(dom, "error", t, NoVerdict)
    OBVIOUS
  <2>2. /\ events' = events \union {e} /\ e.domain = dom /\ e.ctype = t
        /\ e.id = txid + 1 /\ e.action \in {"classified", "error"}
        /\ rows' = rows /\ today' = today
    BY <1>2, <1>4, <2>1 DEF PromptUnreadable, InsertEvent, InsertEvents, NewEvent
  <2>3. /\ todo'[p] = todo[p] \ {t} /\ pc'[p] # "store" /\ (pc'[p] = "ack" => todo[p] = {t})
        /\ t \in todo[p] /\ \A q \in Processors \ {p} : pc'[q] = pc[q]
    BY <1>4 DEF PromptUnreadable, Finish, Goto, CoreInv, ProcessorTypeOK
  <2> QED BY <1>1, <1>3, <2>2, <2>3, OutcomeKeeps
<1>5. pc[p] \in {"running", "store"} => job[p].ctype \in todo[p]
  BY DEF VerdictInv, JobIsDue
<1>6. ASSUME FinishJob(p), pc[p] \in {"running", "store"}
      PROVE  /\ todo'[p] = todo[p] \ {job[p].ctype} /\ pc'[p] # "store"
             /\ pc'[p] = "ack" => todo[p] = {job[p].ctype}
             /\ \A q \in Processors \ {p} : pc'[q] = pc[q]
  BY <1>6 DEF FinishJob, Goto, CoreInv, ProcessorTypeOK
<1>7. CASE ClassifierFails(p)
  <2>1. PICK e, t : e = NewEvent(dom, "error", t, NoVerdict) /\ t = job[p].ctype
    OBVIOUS
  <2>2. /\ events' = events \union {e} /\ e.domain = dom /\ e.ctype = t
        /\ e.id = txid + 1 /\ e.action \in {"classified", "error"}
        /\ rows' = rows /\ today' = today
    BY <1>2, <1>7, <2>1 DEF ClassifierFails, InsertEvent, InsertEvents, NewEvent
  <2>3. FinishJob(p) /\ pc[p] = "running"
    BY <1>7 DEF ClassifierFails
  <2> QED BY <1>1, <1>3, <1>5, <1>6, <2>1, <2>2, <2>3, OutcomeKeeps
<1>8. CASE StoreVerdict(p)
  <2>1. PICK t, v : t = job[p].ctype /\ v = job[p].verdict
    OBVIOUS
  <2>2. t \in Classifiers /\ v \in Verdict
    BY <1>5, <1>8, <2>1, LlmVerdictType DEF StoreVerdict, CoreInv, ProcessorTypeOK, Job
  <2>3. WritesRow(dom, t, v, TtlDays) /\ events' = events /\ today' = today
    BY <1>2, <1>8, <2>1 DEF StoreVerdict, ClassificationStore, WritesRow
  <2>4. IsSettled(dom, t)
    BY <1>3, <1>8, <2>1, <2>2 DEF StoreVerdict, SettleInv, DoneSettled
  <2>5. FinishJob(p) /\ pc[p] = "store"
    BY <1>8 DEF StoreVerdict
  <2> QED BY <1>1, <1>3, <1>5, <1>6, <2>1, <2>2, <2>3, <2>4, <2>5, TtlAssumption, OutcomeKeeps
<1>9. ASSUME NEW m \in BOOLEAN, NEW c \in Confidence, ClassifierSucceeds(p, m, c)
      PROVE  SettleInv'
  <2> DEFINE v == [match |-> m, conf |-> c, src |-> "llm_prompt"]
  <2>1. c # "out"
    <3> SUFFICES ASSUME c = "out" PROVE FALSE
      OBVIOUS
    <3>1. used' = [used EXCEPT !["outofrange"] = used["outofrange"] + 1]
      BY <1>9 DEF ClassifierSucceeds, Spend
    <3>2. "outofrange" \in Kinds /\ used \in [Kinds -> Nat]
      BY KindsAssumption DEF CoreInv, BoundsTypeOK
    <3>3. used'["outofrange"] = used["outofrange"] + 1 /\ used["outofrange"] \in Nat
      BY <3>1, <3>2
    <3> QED BY <3>3 DEF Undisturbed
  <2>2. PICK e, t : e = NewEvent(dom, "classified", t, v) /\ t = job[p].ctype
    OBVIOUS
  <2>3. /\ events' = events \union {e} /\ e.domain = dom /\ e.ctype = t
        /\ e.id = txid + 1 /\ e.action \in {"classified", "error"}
        /\ rows' = rows /\ today' = today
    BY <1>2, <1>9, <2>2 DEF ClassifierSucceeds, InsertClassifiedEvent, InsertEvents, NewEvent
  <2>4. pc[p] = "running" /\ t \in todo[p]
    BY <1>5, <1>9, <2>2 DEF ClassifierSucceeds
  <2>5. CASE c = "low"
    <3>1. FinishJob(p)
      BY <1>9, <2>5 DEF ClassifierSucceeds
    <3> QED BY <1>1, <1>3, <1>6, <2>2, <2>3, <2>4, <3>1, OutcomeKeeps
  <2>6. CASE c # "low"
    <3>1. /\ todo'[p] = todo[p] /\ pc'[p] = "store" /\ job'[p].ctype = t /\ job'[p].verdict.conf # "out"
          /\ \A q \in Processors \ {p} : pc'[q] = pc[q]
      BY <1>9, <2>1, <2>2, <2>6 DEF ClassifierSucceeds, Goto, CoreInv, ProcessorTypeOK, Job
    <3> QED BY <1>1, <1>3, <2>3, <2>4, <3>1, OutcomeKeeps
  <2> QED BY <2>5, <2>6
<1> QED BY <1>4, <1>7, <1>8, <1>9

LEMMA StartClassifierSettles ==
  ASSUME CoreInv, CoreInv', SettleInv, \A x, y \in Busy : x = y,
         NEW p \in Processors, NEW t \in Classifiers, StartClassifier(p, t)
  PROVE  SettleInv'
<1>1. /\ pc[p] = "each" /\ t \in todo[p] /\ pc' = [pc EXCEPT ![p] = "running"] /\ todo' = todo
      /\ current' = current /\ payload' = payload /\ rows' = rows /\ today' = today
  BY DEF StartClassifier, Goto, InsertEvent, streamVars
<1>2. PICK dom : dom = DomainOf(p)
  OBVIOUS
<1>3. dom \in Domains /\ At(p, dom)
  BY <1>1, <1>2, DomainInHand DEF At
<1>4. PICK e : e = NewEvent(dom, "classifying", t, NoVerdict)
  OBVIOUS
<1>5. events' = events \union {e} /\ e.domain = dom /\ e.ctype = t
  BY <1>2, <1>4 DEF StartClassifier, InsertEvent, InsertEvents, NewEvent
<1>6. \A d, u : d # dom \/ u # t => (IsSettled(d, u) => IsSettled(d, u)')
  BY <1>1, <1>5, Elsewhere
<1>7. \A d, u : DomainState(d, u)' = "Current" => DomainState(d, u) = "Current"
  BY <1>1 DEF DomainState, RowsOf
<1>8. \A q \in Processors \ {p} : pc'[q] \in {"down", "idle"}
  BY <1>1 DEF Busy, CoreInv, ProcessorTypeOK
<1>9. \A q \in Processors : \A d : At(q, d)' <=> At(q, d)
  BY <1>1 DEF At, DomainOf
<1>10. pc'[p] = "running" /\ HasRead(p)
  BY <1>1 DEF HasRead, CoreInv, ProcessorTypeOK
<1>11. DueNotCurrent'
  BY <1>1, <1>7, <1>8, <1>9, <1>10 DEF SettleInv, DueNotCurrent, HasRead
<1>12. CurrentSettled'
  <2>1. DomainState(dom, t) # "Current"
    BY <1>1, <1>3, <1>10 DEF SettleInv, DueNotCurrent
  <2> QED BY <1>6, <1>7, <2>1 DEF SettleInv, CurrentSettled
<1>13. DoneSettled'
  <2> SUFFICES ASSUME NEW q \in Processors, NEW d \in Domains, At(q, d), NEW u \in Classifiers,
                      \/ HasRead(q)' /\ u \notin todo[q]
                      \/ pc'[q] = "ack"
                      \/ pc'[q] = "store"
               PROVE  IsSettled(d, u)'
    BY <1>1, <1>9 DEF DoneSettled
  <2>1. q = p
    BY <1>8 DEF HasRead
  <2>2. u \notin todo[p] /\ u # t
    BY <1>1, <1>10, <2>1 DEF HasRead
  <2> QED BY <1>6, <1>10, <2>1, <2>2 DEF SettleInv, DoneSettled
<1>14. StoreInRange' /\ NoAllRow'
  BY <1>1, <1>8, <1>10 DEF StoreInRange, SettleInv, NoAllRow
<1> QED BY <1>11, <1>12, <1>13, <1>14 DEF SettleInv

(* q does no work on a domain, or goes on to the same work. *)
Quiet(q) ==
  /\ HasRead(q)' => HasRead(q) /\ todo'[q] = todo[q] /\ current'[q] = current[q]
  /\ pc'[q] = "ack" => \/ pc[q] = "ack" /\ current'[q] = current[q]
                       \/ payload[current'[q]] = Malformed
  /\ pc'[q] = "store" => pc[q] = "store" /\ job'[q] = job[q]

LEMMA QuietSettles ==
  ASSUME CoreInv, CoreInv', RowsNumbered, SettleInv, KeepsRows, events' = events,
         payload' = payload, \A q \in Processors : Quiet(q)
  PROVE  SettleInv'
<1>1. DatabaseTypeOK /\ today' \in Nat
  BY DEF CoreInv, DbInv, DatabaseTypeOK
<1>2. \A d, t : DomainState(d, t)' = "Current" => DomainState(d, t) = "Current"
  BY <1>1, CurrentBefore
<1>3. \A d, t : IsSettled(d, t)' <=> IsSettled(d, t)
  BY SettledStays
<1>4. \A q \in Processors : \A d : current'[q] = current[q] => (At(q, d)' <=> At(q, d))
  BY DEF At, DomainOf
<1>5. DueNotCurrent'
  BY <1>2, <1>4 DEF SettleInv, DueNotCurrent, Quiet
<1>6. CurrentSettled'
  BY <1>2, <1>3 DEF SettleInv, CurrentSettled
<1>7. DoneSettled'
  <2> SUFFICES ASSUME NEW q \in Processors, NEW d \in Domains, At(q, d)', NEW u \in Classifiers
               PROVE  /\ HasRead(q)' /\ u \notin todo'[q] => IsSettled(d, u)
                      /\ pc'[q] = "ack" /\ d # Malformed => IsSettled(d, u)
                      /\ pc'[q] = "store" /\ job'[q].ctype = u => IsSettled(d, u)
    BY <1>3 DEF DoneSettled
  <2>1. HasRead(q)' /\ u \notin todo'[q] => IsSettled(d, u)
    BY <1>4 DEF Quiet, SettleInv, DoneSettled
  <2>2. pc'[q] = "ack" /\ d # Malformed => IsSettled(d, u)
    <3>1. payload[current'[q]] = d
      BY DEF At, DomainOf
    <3> QED BY <1>4, <3>1 DEF Quiet, SettleInv, DoneSettled
  <2>3. pc'[q] = "store" /\ job'[q].ctype = u => IsSettled(d, u)
    BY <1>4 DEF Quiet, SettleInv, DoneSettled, HasRead
  <2> QED BY <2>1, <2>2, <2>3
<1>8. StoreInRange' /\ NoAllRow'
  BY DEF SettleInv, StoreInRange, NoAllRow, Quiet, KeepsRows
<1> QED BY <1>5, <1>6, <1>7, <1>8 DEF SettleInv

LEMMA ProcessorQuiet ==
  ASSUME CoreInv, NoAllRow, NEW p \in Processors,
         Start(p) \/ Receive(p) \/ Ack(p) \/ AckFails(p) \/ Crash(p) \/ ReadOverride(p)
  PROVE  KeepsRows /\ events' = events /\ payload' = payload /\ \A q \in Processors : Quiet(q)
<1>1. KeepsRows /\ payload' = payload
  BY ProcessorPasses
<1>2. events' = events
  BY DEF Start, Receive, Ack, AckFails, Crash, ReadOverride, dbVars
<1>3. CASE Receive(p)
  <2>1. PICK i \in MessageIds :
          /\ current' = [current EXCEPT ![p] = i]
          /\ pc' = [pc EXCEPT ![p] = IF payload[i] = Malformed THEN "ack" ELSE "received"]
          /\ todo' = todo /\ job' = job
    BY <1>3 DEF Receive, Goto
  <2>2. \A q \in Processors : Quiet(q)
    BY <2>1 DEF Quiet, HasRead, CoreInv, ProcessorTypeOK
  <2> QED BY <1>1, <1>2, <2>2
<1>4. CASE ReadOverride(p)
  <2>1. ~ HasAllOverride(DomainOf(p))
    BY DEF HasAllOverride, RowsOf, NoAllRow
  <2>2. pc' = [pc EXCEPT ![p] = "each"] /\ pc[p] = "override" /\ todo' = todo /\ current' = current /\ job' = job
    BY <1>4, <2>1 DEF ReadOverride, Goto
  <2>3. \A q \in Processors : Quiet(q)
    BY <2>2 DEF Quiet, HasRead, CoreInv, ProcessorTypeOK
  <2> QED BY <1>1, <1>2, <2>3
<1>5. CASE Start(p) \/ Ack(p) \/ AckFails(p) \/ Crash(p)
  <2>1. \E m \in {"down", "idle"} : pc' = [pc EXCEPT ![p] = m]
    BY <1>5 DEF Start, Ack, AckFails, Crash, Release, Goto
  <2>2. \A q \in Processors \ {p} : todo'[q] = todo[q] /\ current'[q] = current[q] /\ job'[q] = job[q]
    BY <1>5 DEF Start, Ack, AckFails, Crash, Release, Forget, CoreInv, ProcessorTypeOK
  <2>3. \A q \in Processors : Quiet(q)
    BY <2>1, <2>2 DEF Quiet, HasRead, CoreInv, ProcessorTypeOK
  <2> QED BY <1>1, <1>2, <2>3
<1> QED BY <1>3, <1>4, <1>5

LEMMA EnvironmentQuiet ==
  ASSUME CoreInv,
         \/ \E p \in Processors : Fetch(p)
         \/ \E i \in MessageIds : RedeliverLost(i) \/ RedeliverHeld(i)
         \/ DomainSeen \/ DayPasses
         \/ UNCHANGED qpVars
  PROVE  KeepsRows /\ events' = events /\ payload' = payload /\ \A q \in Processors : Quiet(q)
<1>1. KeepsRows /\ payload' = payload
  BY EnvironmentPasses
<1>2. UNCHANGED procVars /\ events' = events
  BY DEF Fetch, RedeliverLost, RedeliverHeld, DomainSeen, DayPasses, NewDay, qpVars, procVars, dbVars
<1> QED BY <1>1, <1>2 DEF Quiet, HasRead, procVars

(* What p finds Current has its outcome, the rest becomes due. *)
LEMMA ReadStatesSettles ==
  ASSUME CoreInv, CoreInv', SettleInv, NEW p \in Processors, ReadStates(p)
  PROVE  SettleInv'
<1>1. /\ pc[p] = "received" /\ rows' = rows /\ events' = events /\ today' = today
      /\ payload' = payload /\ current' = current /\ job' = job
  BY DEF ReadStates, dbVars, streamVars
<1>2. PICK due : /\ due = {t \in Classifiers : DomainState(DomainOf(p), t) # "Current"}
                 /\ todo' = [todo EXCEPT ![p] = due]
  BY DEF ReadStates
<1>3. PICK m \in {"ack", "pattern", "exclude", "override"} : pc' = [pc EXCEPT ![p] = m]
  BY DEF ReadStates, Goto
<1>4. m = "ack" => due = {}
  BY <1>2, <1>3 DEF ReadStates, Goto, CoreInv, ProcessorTypeOK
<1>5. /\ \A q \in Processors : \A d : At(q, d)' <=> At(q, d)
      /\ \A d, t : IsSettled(d, t)' <=> IsSettled(d, t)
      /\ \A d, t : DomainState(d, t)' = "Current" <=> DomainState(d, t) = "Current"
  BY <1>1, SettledStays DEF At, DomainOf, DomainState, RowsOf
<1>6. ASSUME NEW d \in Domains, At(p, d), NEW u \in Classifiers, u \notin due
      PROVE  IsSettled(d, u)
  BY <1>2, <1>6 DEF At, SettleInv, CurrentSettled
<1>7. DueNotCurrent'
  <2> SUFFICES ASSUME NEW q \in Processors, NEW d \in Domains, HasRead(q)', At(q, d), NEW u \in todo'[q]
               PROVE  DomainState(d, u) # "Current"
    BY <1>5 DEF DueNotCurrent
  <2>1. CASE q = p
    BY <1>2, <2>1 DEF At, CoreInv, ProcessorTypeOK
  <2>2. CASE q # p
    BY <1>2, <1>3, <2>2 DEF SettleInv, DueNotCurrent, HasRead, CoreInv, ProcessorTypeOK
  <2> QED BY <2>1, <2>2
<1>8. DoneSettled'
  <2> SUFFICES ASSUME NEW q \in Processors, NEW d \in Domains, At(q, d), NEW u \in Classifiers
               PROVE  /\ HasRead(q)' /\ u \notin todo'[q] => IsSettled(d, u)
                      /\ pc'[q] = "ack" /\ d # Malformed => IsSettled(d, u)
                      /\ pc'[q] = "store" /\ job'[q].ctype = u => IsSettled(d, u)
    BY <1>5 DEF DoneSettled
  <2>1. CASE q = p
    BY <1>2, <1>3, <1>4, <1>6, <2>1 DEF CoreInv, ProcessorTypeOK
  <2>2. CASE q # p
    <3>1. pc'[q] = pc[q] /\ todo'[q] = todo[q]
      BY <1>2, <1>3, <2>2 DEF CoreInv, ProcessorTypeOK
    <3> QED BY <1>1, <3>1 DEF SettleInv, DoneSettled, HasRead
  <2> QED BY <2>1, <2>2
<1>9. CurrentSettled' /\ StoreInRange' /\ NoAllRow'
  <2>1. CurrentSettled'
    BY <1>5 DEF SettleInv, CurrentSettled
  <2>2. StoreInRange' /\ NoAllRow'
    BY <1>1, <1>3 DEF SettleInv, StoreInRange, NoAllRow, CoreInv, ProcessorTypeOK
  <2> QED BY <2>1, <2>2
<1> QED BY <1>7, <1>8, <1>9 DEF SettleInv

LEMMA NextSettles ==
  ASSUME CoreInv, CoreInv', SerialInv, VerdictInv, SettleInv, Undisturbed, Undisturbed',
         [Next]_qpVars
  PROVE  SettleInv'
<1>1. \A x, y \in Busy : x = y
  BY SerialIsAlone DEF Undisturbed, OneAtATime, Busy
<1>2. RowsNumbered /\ NoAllRow
  BY DEF VerdictInv, SettleInv
<1>3. ASSUME NEW p \in Processors, ProcessorStep(p) PROVE SettleInv'
  <2>1. CASE Start(p) \/ Receive(p) \/ Ack(p) \/ ReadOverride(p)
    BY <1>2, <2>1, ProcessorQuiet, QuietSettles
  <2>2. CASE Fetch(p)
    BY <1>2, <2>2, EnvironmentQuiet, QuietSettles
  <2>3. CASE ReadStates(p)
    BY <2>3, ReadStatesSettles
  <2>4. ASSUME NEW t \in Classifiers, ApplyPattern(p, t) \/ ApplyExclude(p, t) PROVE SettleInv'
    BY <1>1, <2>4, ApplyingSettles
  <2>5. ASSUME NEW t \in Classifiers, StartClassifier(p, t) PROVE SettleInv'
    BY <1>1, <2>5, StartClassifierSettles
  <2>6. CASE \/ \E t \in Classifiers : PromptUnreadable(p, t)
             \/ ClassifierFails(p) \/ StoreVerdict(p)
             \/ \E m \in BOOLEAN, c \in Confidence : ClassifierSucceeds(p, m, c)
    BY <1>1, <2>6, ClassifyingSettles
  <2>7. CASE StoreRefused(p)
    BY <2>7 DEF StoreRefused, SettleInv, StoreInRange
  <2> QED BY <1>3, <2>1, <2>2, <2>3, <2>4, <2>5, <2>6, <2>7 DEF ProcessorStep, Processing, Classifying
<1>4. ASSUME NEW p \in Processors, Crash(p) \/ AckFails(p) PROVE SettleInv'
  BY <1>2, <1>4, ProcessorQuiet, QuietSettles
<1>5. ASSUME NEW p \in Processors, DatabaseFails(p) PROVE SettleInv'
  <2>1. used' = [used EXCEPT !["dbfail"] = used["dbfail"] + 1]
    BY <1>5 DEF DatabaseFails, Spend
  <2>2. "dbfail" \in Kinds /\ used \in [Kinds -> Nat]
    BY KindsAssumption DEF CoreInv, BoundsTypeOK
  <2>3. used'["dbfail"] = used["dbfail"] + 1 /\ used["dbfail"] \in Nat
    BY <2>1, <2>2
  <2> QED BY <2>3 DEF Undisturbed
<1>6. CASE \/ \E i \in MessageIds : RedeliverLost(i) \/ RedeliverHeld(i)
           \/ DomainSeen \/ DayPasses
           \/ UNCHANGED qpVars
  BY <1>2, <1>6, EnvironmentQuiet, QuietSettles
<1> QED BY <1>3, <1>4, <1>5, <1>6 DEF Next, Fault

LEMMA InitSettles == Init => SettleInv
  BY DEF Init, DatabaseInit, ProcessorInit, SettleInv, DueNotCurrent, CurrentSettled, DoneSettled,
         StoreInRange, NoAllRow, HasRead, DomainState, RowsOf, IsErrored, TypedEvents

(* While domains are processed one at a time, no database call fails and   *)
(* no confidence is out of range, an acknowledgement means that every      *)
(* classifier has its outcome on record: crashes, lost acks, unreadable    *)
(* prompts, failing classifiers and verdicts that run out do not change    *)
(* that.  Without the hypothesis it is wrong: a failed call acknowledges   *)
(* what it leaves undone.                                                  *)
THEOREM AckedHasOutcomes == Spec /\ []Undisturbed => AckedIsSettled
<1>1. /\ CoreInv /\ SerialInv /\ VerdictInv /\ SettleInv /\ Undisturbed
      /\ [Next]_qpVars /\ CoreInv' /\ Undisturbed'
      => SettleInv'
  BY NextSettles
<1>2. Spec => []SerialInv
  BY InitSerial, NextSerial, CoreInvariance, PTL DEF Spec
<1>3. Spec => []VerdictInv
  <2>1. CoreInv /\ SerialInv /\ VerdictInv /\ AloneInv /\ [Next]_qpVars /\ CoreInv' => (VerdictInv /\ AloneInv)'
    BY NextVerdict
  <2> QED BY <1>2, <2>1, InitVerdict, CoreInvariance, PTL DEF Spec
<1>4. Spec /\ []Undisturbed => []SettleInv
  BY <1>1, <1>2, <1>3, InitSettles, CoreInvariance, PTL DEF Spec
<1>5. CoreInv /\ SettleInv =>
        [\A p \in Processors :
           Ack(p) /\ DomainOf(p) # Malformed
             => \A t \in Classifiers : IsSettled(DomainOf(p), t)]_qpVars
  <2> SUFFICES ASSUME CoreInv, SettleInv, NEW p \in Processors, Ack(p), DomainOf(p) # Malformed,
                      NEW t \in Classifiers
               PROVE  IsSettled(DomainOf(p), t)
    OBVIOUS
  <2>1. DomainOf(p) \in Domains /\ pc[p] = "ack"
    BY PayloadsAssumption DEF Ack, CoreInv, Engaged, JetStreamTypeOK, DomainOf
  <2> QED BY <2>1 DEF SettleInv, DoneSettled, At
<1> QED BY <1>4, <1>5, CoreInvariance, PTL DEF AckedIsSettled
=============================================================================
