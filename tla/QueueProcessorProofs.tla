------------------------ MODULE QueueProcessorProofs ------------------------
(***************************************************************************)
(* Safety of QueueProcessor for any number of processors, messages,        *)
(* domains and classifiers, and any budget of faults.                      *)
(***************************************************************************)
EXTENDS QueueProcessor, DatabaseProofs

(* A processor that is past its receive holds a message, and until its ack *)
(* a message that names a domain.                                          *)
Engaged ==
  \A p \in Processors : pc[p] \notin {"down", "idle"} =>
    /\ current[p] \in MessageIds
    /\ pc[p] # "ack" => DomainOf(p) \in Domains

(* Between its two transactions, an LLM verdict is in the log already.     *)
(* Without this RowsExplained is not inductive: it is what StoreVerdict    *)
(* relies on.                                                              *)
StoreLogged ==
  \A p \in Processors : pc[p] = "store" =>
    /\ job[p].verdict.conf # "low"
    /\ \E e \in events : Explains(e, DomainOf(p), job[p].ctype, job[p].verdict)

CoreInv ==
  /\ DbInv
  /\ JetStreamTypeOK
  /\ BoundsTypeOK
  /\ ProcessorTypeOK
  /\ Engaged
  /\ StoreLogged

(* What the admin API next to the processors preserves is CoreInv: only    *)
(* its rebuilds write rows that are not confident.                         *)
IInv == CoreInv /\ RowsConfident

-----------------------------------------------------------------------------
ConfidenceKept == RowsConfident => RowsConfident'

LEMMA LlmVerdictType == LlmVerdict \subseteq Verdict
  BY DEF LlmVerdict, Verdict, SourceType

LEMMA NoJobType == NoJob \in Job /\ NoVerdict \in LlmVerdict
  BY DEF NoJob, Job, Types, NoVerdict, LlmVerdict, Confidence

LEMMA InitIInv == Init => IInv
<1> SUFFICES ASSUME Init PROVE IInv
  OBVIOUS
<1>1. DbInv /\ RowsConfident
  BY DbInvInit DEF Init
<1>2. JetStreamTypeOK /\ BoundsTypeOK
  BY LimitsAssumption DEF Init, JetStreamInit, JetStreamTypeOK, BoundsInit, BoundsTypeOK
<1>3. NoJob \in Job
  BY NoJobType
<1>4. ProcessorTypeOK
  BY <1>3 DEF Init, ProcessorInit, ProcessorTypeOK
<1>5. Engaged /\ StoreLogged
  BY DEF Init, ProcessorInit, Engaged, StoreLogged
<1> QED BY <1>1, <1>2, <1>4, <1>5 DEF IInv, CoreInv

(* The messages of the other processors, and where they are in their loop. *)
OthersKept(p) ==
  /\ payload' = payload
  /\ \A q \in Processors \ {p} :
       pc'[q] = pc[q] /\ current'[q] = current[q] /\ job'[q] = job[q]

(* A processor that lets go of its message, or goes on with it, leaves     *)
(* everyone engaged; only a step into "store" adds to StoreLogged.         *)
LEMMA StepKeeps ==
  ASSUME CoreInv, NEW p \in Processors, OthersKept(p), events \subseteq events',
         pc'[p] # "store",
         \/ pc'[p] \in {"down", "idle"}
         \/ /\ current'[p] = current[p]
            /\ pc[p] \notin {"down", "idle"}
            /\ pc[p] = "ack" => pc'[p] = "ack"
  PROVE  Engaged' /\ StoreLogged'
<1>1. Engaged'
  BY DEF CoreInv, Engaged, OthersKept, DomainOf, MessageIds
<1>2. StoreLogged'
  <2> SUFFICES ASSUME NEW q \in Processors, pc'[q] = "store"
               PROVE  /\ job'[q].verdict.conf # "low"
                      /\ \E e \in events' :
                           Explains(e, payload'[current'[q]], job'[q].ctype, job'[q].verdict)
    BY DEF StoreLogged, DomainOf, Explains
  <2>1. q # p
    OBVIOUS
  <2> QED BY <2>1 DEF CoreInv, StoreLogged, OthersKept, DomainOf
<1> QED BY <1>1, <1>2

(* Steps that leave every processor where it is. *)
LEMMA ProcessorsStay ==
  ASSUME CoreInv, payload' = payload, UNCHANGED procVars, events \subseteq events'
  PROVE  ProcessorTypeOK' /\ Engaged' /\ StoreLogged'
<1>1. ProcessorTypeOK'
  BY DEF CoreInv, ProcessorTypeOK, procVars
<1>2. Engaged'
  BY DEF CoreInv, Engaged, procVars, DomainOf, MessageIds
<1>3. StoreLogged'
  <2> SUFFICES ASSUME NEW q \in Processors, pc'[q] = "store"
               PROVE  /\ job'[q].verdict.conf # "low"
                      /\ \E e \in events' :
                           Explains(e, payload'[current'[q]], job'[q].ctype, job'[q].verdict)
    BY DEF StoreLogged, DomainOf, Explains
  <2> QED BY DEF CoreInv, StoreLogged, procVars, DomainOf
<1> QED BY <1>1, <1>2, <1>3

LEMMA SpendType ==
  ASSUME BoundsTypeOK, NEW k \in Kinds, Spend(k)
  PROVE  BoundsTypeOK'
  BY LimitsAssumption DEF BoundsTypeOK, Spend

LEMMA StreamKept ==
  ASSUME JetStreamTypeOK, UNCHANGED streamVars
  PROVE  JetStreamTypeOK'
  BY DEF JetStreamTypeOK, streamVars, MessageIds

-----------------------------------------------------------------------------
(* main *)

LEMMA StartCore ==
  ASSUME CoreInv, NEW p \in Processors, Start(p)
  PROVE  CoreInv' /\ ConfidenceKept
<1>1. DbInv' /\ events \subseteq events' /\ ConfidenceKept
  BY UnchangedInv DEF CoreInv, Start, dbVars, RowsConfident, ConfidenceKept
<1>2. JetStreamTypeOK' /\ BoundsTypeOK'
  BY StreamKept DEF CoreInv, Start, BoundsTypeOK
<1>3. ProcessorTypeOK'
  BY DEF CoreInv, DbInv, DatabaseTypeOK, ProcessorTypeOK, Start, Goto
<1>4. Engaged' /\ StoreLogged'
  <2>1. pc' = [pc EXCEPT ![p] = "idle"] /\ pc'[p] = "idle"
    BY DEF CoreInv, ProcessorTypeOK, Start, Goto
  <2>2. OthersKept(p)
    BY <2>1 DEF OthersKept, Start, streamVars, CoreInv, ProcessorTypeOK
  <2> QED BY <1>1, <2>1, <2>2, StepKeeps
<1> QED BY <1>1, <1>2, <1>3, <1>4 DEF CoreInv

LEMMA FetchCore ==
  ASSUME CoreInv, NEW p \in Processors, Fetch(p)
  PROVE  CoreInv' /\ ConfidenceKept
<1>1. DbInv' /\ events \subseteq events' /\ ConfidenceKept
  BY UnchangedInv DEF CoreInv, Fetch, dbVars, RowsConfident, ConfidenceKept
<1>2. JetStreamTypeOK' /\ payload' = payload
  BY DEF CoreInv, Fetch, Deliver, JetStreamTypeOK, MessageIds
<1>3. BoundsTypeOK'
  BY DEF CoreInv, Fetch, BoundsTypeOK
<1>4. ProcessorTypeOK' /\ Engaged' /\ StoreLogged'
  BY <1>1, <1>2, ProcessorsStay DEF Fetch
<1> QED BY <1>1, <1>2, <1>3, <1>4 DEF CoreInv

LEMMA ReceiveCore ==
  ASSUME CoreInv, NEW p \in Processors, Receive(p)
  PROVE  CoreInv' /\ ConfidenceKept
<1>1. DbInv' /\ events \subseteq events' /\ ConfidenceKept
  BY UnchangedInv DEF CoreInv, Receive, dbVars, RowsConfident, ConfidenceKept
<1>2. JetStreamTypeOK' /\ payload' = payload
  BY DEF CoreInv, Receive, JetStreamTypeOK, MessageIds
<1>3. BoundsTypeOK'
  BY DEF CoreInv, Receive, BoundsTypeOK
<1>4. PICK i \in MessageIds :
        /\ current' = [current EXCEPT ![p] = i]
        /\ pc' = [pc EXCEPT ![p] = IF payload[i] = Malformed THEN "ack" ELSE "received"]
  BY DEF Receive, Goto
<1>5. ProcessorTypeOK'
  BY <1>4 DEF CoreInv, ProcessorTypeOK, Receive, MessageIds
<1>6. payload[i] # Malformed => payload[i] \in Domains
  BY PayloadsAssumption DEF CoreInv, JetStreamTypeOK
<1>7. Engaged'
  <2> SUFFICES ASSUME NEW q \in Processors, pc'[q] \notin {"down", "idle"}
               PROVE  /\ current'[q] \in MessageIds
                      /\ pc'[q] # "ack" => payload'[current'[q]] \in Domains
    BY DEF Engaged, DomainOf, MessageIds
  <2>1. CASE q = p
    BY <2>1, <1>2, <1>4, <1>6 DEF CoreInv, ProcessorTypeOK
  <2>2. CASE q # p
    BY <2>2, <1>2, <1>4 DEF CoreInv, ProcessorTypeOK, Engaged, DomainOf
  <2> QED BY <2>1, <2>2
<1>8. StoreLogged'
  <2> SUFFICES ASSUME NEW q \in Processors, pc'[q] = "store"
               PROVE  /\ job'[q].verdict.conf # "low"
                      /\ \E e \in events' :
                           Explains(e, payload'[current'[q]], job'[q].ctype, job'[q].verdict)
    BY DEF StoreLogged, DomainOf, Explains
  <2>1. q # p
    BY <1>4 DEF CoreInv, ProcessorTypeOK
  <2>2. pc[q] = "store" /\ current'[q] = current[q] /\ job' = job
    BY <2>1, <1>4 DEF CoreInv, ProcessorTypeOK, Receive
  <2> QED BY <1>1, <1>2, <2>2 DEF CoreInv, StoreLogged, DomainOf
<1> QED BY <1>1, <1>2, <1>3, <1>5, <1>7, <1>8 DEF CoreInv

(* Going back to the loop with nothing in hand. *)
LEMMA ReleaseKeeps ==
  ASSUME CoreInv, NEW p \in Processors, NEW l \in {"down", "idle"},
         Goto(p, l), Forget(p), payload' = payload, compiled' = compiled,
         events \subseteq events'
  PROVE  ProcessorTypeOK' /\ Engaged' /\ StoreLogged'
<1>1. pc' = [pc EXCEPT ![p] = l] /\ pc'[p] = l
  BY DEF CoreInv, ProcessorTypeOK, Goto
<1>2. ProcessorTypeOK'
  BY <1>1, NoJobType DEF CoreInv, ProcessorTypeOK, Forget, MessageIds
<1>3. OthersKept(p)
  BY <1>1 DEF OthersKept, Forget, CoreInv, ProcessorTypeOK
<1> QED BY <1>1, <1>2, <1>3, StepKeeps

LEMMA AckCore ==
  ASSUME CoreInv, NEW p \in Processors, Ack(p)
  PROVE  CoreInv' /\ ConfidenceKept
<1>1. DbInv' /\ events \subseteq events' /\ ConfidenceKept
  BY UnchangedInv DEF CoreInv, Ack, dbVars, RowsConfident, ConfidenceKept
<1>2. JetStreamTypeOK' /\ BoundsTypeOK'
  BY DEF CoreInv, Ack, Acknowledge, JetStreamTypeOK, BoundsTypeOK, MessageIds
<1>3. ProcessorTypeOK' /\ Engaged' /\ StoreLogged'
  BY <1>1, ReleaseKeeps DEF Ack, Release
<1> QED BY <1>1, <1>2, <1>3 DEF CoreInv

LEMMA AckFailsCore ==
  ASSUME CoreInv, NEW p \in Processors, AckFails(p)
  PROVE  CoreInv' /\ ConfidenceKept
<1>1. DbInv' /\ events \subseteq events' /\ ConfidenceKept
  BY UnchangedInv DEF CoreInv, AckFails, dbVars, RowsConfident, ConfidenceKept
<1>2. JetStreamTypeOK'
  BY StreamKept DEF CoreInv, AckFails
<1>3. BoundsTypeOK'
  BY SpendType, KindsAssumption DEF CoreInv, AckFails
<1>4. ProcessorTypeOK' /\ Engaged' /\ StoreLogged'
  BY <1>1, ReleaseKeeps DEF AckFails, Release, streamVars
<1> QED BY <1>1, <1>2, <1>3, <1>4 DEF CoreInv

LEMMA CrashCore ==
  ASSUME CoreInv, NEW p \in Processors, Crash(p)
  PROVE  CoreInv' /\ ConfidenceKept
<1>1. DbInv' /\ events \subseteq events' /\ ConfidenceKept
  BY UnchangedInv DEF CoreInv, Crash, dbVars, RowsConfident, ConfidenceKept
<1>2. JetStreamTypeOK'
  BY DEF CoreInv, Crash, JetStreamTypeOK, MessageIds
<1>3. BoundsTypeOK'
  BY SpendType, KindsAssumption DEF CoreInv, Crash
<1>4. ProcessorTypeOK' /\ Engaged' /\ StoreLogged'
  BY <1>1, ReleaseKeeps DEF Crash
<1> QED BY <1>1, <1>2, <1>3, <1>4 DEF CoreInv
-----------------------------------------------------------------------------
(* process_domain.  A step at l that goes to m keeps its message.          *)

LEMMA AdvanceKeeps ==
  ASSUME CoreInv, NEW p \in Processors, NEW m, Goto(p, m), m # "store",
         pc[p] \notin {"down", "idle", "ack"},
         current' = current, payload' = payload, events \subseteq events',
         \A q \in Processors \ {p} : job'[q] = job[q]
  PROVE  Engaged' /\ StoreLogged'
<1>1. pc' = [pc EXCEPT ![p] = m] /\ pc'[p] = m
  BY DEF CoreInv, ProcessorTypeOK, Goto
<1>2. OthersKept(p)
  BY <1>1 DEF OthersKept, CoreInv, ProcessorTypeOK
<1> QED BY <1>1, <1>2, StepKeeps

LEMMA ReadStatesCore ==
  ASSUME CoreInv, NEW p \in Processors, ReadStates(p)
  PROVE  CoreInv' /\ ConfidenceKept
<1>1. DbInv' /\ events \subseteq events' /\ ConfidenceKept
  BY UnchangedInv DEF CoreInv, ReadStates, dbVars, RowsConfident, ConfidenceKept
<1>2. JetStreamTypeOK' /\ BoundsTypeOK'
  BY StreamKept DEF CoreInv, ReadStates, BoundsTypeOK
<1>3. PICK m \in {"ack", "pattern", "exclude", "override"} : Goto(p, m)
  BY DEF ReadStates
<1>4. PICK due \in SUBSET Classifiers : todo' = [todo EXCEPT ![p] = due]
  BY DEF ReadStates
<1>5. matched' \in [Processors -> SUBSET Rule]
  <2>1. matched' = matched \/ \E rule \in Rule : matched' = [matched EXCEPT ![p] = {rule}]
    BY DEF ReadStates, Matching, CoreInv, ProcessorTypeOK
  <2> QED BY <2>1 DEF CoreInv, ProcessorTypeOK
<1>6. ProcessorTypeOK'
  BY <1>3, <1>4, <1>5 DEF CoreInv, ProcessorTypeOK, ReadStates, Goto, MessageIds
<1>7. Engaged' /\ StoreLogged'
  BY <1>1, <1>3, AdvanceKeeps DEF ReadStates, streamVars
<1> QED BY <1>1, <1>2, <1>6, <1>7 DEF CoreInv

(* Leaving a type behind keeps the types of the processor's locals. *)
LEMMA FinishType ==
  ASSUME ProcessorTypeOK, NEW p \in Processors, NEW t, Finish(p, t),
         UNCHANGED <<current, matched, job, compiled>>
  PROVE  ProcessorTypeOK' /\ \E m : Goto(p, m) /\ m \in {"ack", pc[p]}
<1>1. PICK m \in {"ack", pc[p]} : Goto(p, m)
  BY DEF Finish
<1>2. ProcessorTypeOK'
  BY <1>1 DEF ProcessorTypeOK, Finish, Goto, MessageIds
<1> QED BY <1>1, <1>2

LEMMA FinishJobType ==
  ASSUME ProcessorTypeOK, NEW p \in Processors, FinishJob(p),
         UNCHANGED <<current, matched, compiled>>
  PROVE  /\ ProcessorTypeOK'
         /\ \E m : Goto(p, m) /\ m \in {"ack", "each"}
         /\ \A q \in Processors \ {p} : job'[q] = job[q]
<1>1. PICK m \in {"ack", "each"} : Goto(p, m)
  BY DEF FinishJob
<1>2. ProcessorTypeOK' /\ \A q \in Processors \ {p} : job'[q] = job[q]
  BY <1>1, NoJobType DEF ProcessorTypeOK, FinishJob, Goto, MessageIds
<1> QED BY <1>1, <1>2

LEMMA ClassifierIsType == Classifiers \subseteq Types
  BY DEF Types

LEMMA DomainInHand ==
  ASSUME CoreInv, NEW p \in Processors, pc[p] \notin {"down", "idle", "ack"}
  PROVE  DomainOf(p) \in Domains
  BY DEF CoreInv, Engaged

LEMMA ApplyPatternCore ==
  ASSUME CoreInv, NEW p \in Processors, NEW t \in Classifiers, ApplyPattern(p, t)
  PROVE  CoreInv' /\ ConfidenceKept
<1>1. PICK rule \in matched[p] : ApplyPatternClassification(DomainOf(p), t, rule)
  BY DEF ApplyPattern
<1>2. rule \in Rule /\ DomainOf(p) \in Domains /\ t \in Types
  BY DomainInHand, ClassifierIsType DEF CoreInv, ProcessorTypeOK, ApplyPattern
<1>3. DbInv' /\ events \subseteq events'
  BY <1>1, <1>2, ApplyPatternClassificationInv DEF CoreInv
<1>4. ConfidenceKept
  <2> SUFFICES ASSUME RowsConfident PROVE RowsConfident'
    BY DEF ConfidenceKept
  <2> DEFINE v == [match |-> rule.match, conf |-> "enough", src |-> rule.src]
  <2>1. v \in Verdict /\ v.conf = "enough"
    BY <1>2 DEF Verdict, Confidence, SourceType, Rule
  <2>2. Classify(DomainOf(p), t, v, Forever, Displaced(DomainOf(p), t))
    BY <1>1 DEF ApplyPatternClassification
  <2>3. DatabaseTypeOK /\ RowsConfident
    BY DEF CoreInv, DbInv
  <2> HIDE DEF v
  <2> QED BY <1>2, <2>1, <2>2, <2>3, ClassifyConfident, DisplacedType, TtlAssumption
<1>5. JetStreamTypeOK' /\ BoundsTypeOK'
  BY StreamKept DEF CoreInv, ApplyPattern, BoundsTypeOK
<1>6. ProcessorTypeOK' /\ \E m : Goto(p, m) /\ m \in {"ack", pc[p]}
  BY FinishType DEF CoreInv, ApplyPattern
<1>7. Engaged' /\ StoreLogged'
  BY <1>3, <1>6, AdvanceKeeps DEF ApplyPattern, streamVars
<1> QED BY <1>3, <1>4, <1>5, <1>6, <1>7 DEF CoreInv

LEMMA ApplyExcludeCore ==
  ASSUME CoreInv, NEW p \in Processors, NEW t \in Classifiers, ApplyExclude(p, t)
  PROVE  CoreInv' /\ ConfidenceKept
<1>1. ExcludeRuleClassify(DomainOf(p), t) /\ DomainOf(p) \in Domains /\ t \in Types
  BY DomainInHand, ClassifierIsType DEF ApplyExclude
<1>2. DbInv' /\ events \subseteq events'
  BY <1>1, ExcludeRuleClassifyInv DEF CoreInv
<1>3. ConfidenceKept
  <2> SUFFICES ASSUME RowsConfident PROVE RowsConfident'
    BY DEF ConfidenceKept
  <2> DEFINE v == [match |-> FALSE, conf |-> "enough", src |-> "config_exclude_rule"]
  <2>1. v \in Verdict /\ v.conf = "enough"
    BY DEF Verdict, Confidence, SourceType
  <2>2. Classify(DomainOf(p), t, v, TtlDays, {})
    BY <1>1 DEF ExcludeRuleClassify
  <2>3. DatabaseTypeOK /\ RowsConfident /\ {} \in SUBSET rows
    BY DEF CoreInv, DbInv
  <2> HIDE DEF v
  <2> QED BY <1>1, <2>1, <2>2, <2>3, ClassifyConfident, TtlAssumption
<1>4. JetStreamTypeOK' /\ BoundsTypeOK'
  BY StreamKept DEF CoreInv, ApplyExclude, BoundsTypeOK
<1>5. ProcessorTypeOK' /\ \E m : Goto(p, m) /\ m \in {"ack", pc[p]}
  BY FinishType DEF CoreInv, ApplyExclude
<1>6. Engaged' /\ StoreLogged'
  BY <1>2, <1>5, AdvanceKeeps DEF ApplyExclude, streamVars
<1> QED BY <1>2, <1>3, <1>4, <1>5, <1>6 DEF CoreInv

LEMMA ReadOverrideCore ==
  ASSUME CoreInv, NEW p \in Processors, ReadOverride(p)
  PROVE  CoreInv' /\ ConfidenceKept
<1>1. DbInv' /\ events \subseteq events' /\ ConfidenceKept
  BY UnchangedInv DEF CoreInv, ReadOverride, dbVars, RowsConfident, ConfidenceKept
<1>2. JetStreamTypeOK' /\ BoundsTypeOK'
  BY StreamKept DEF CoreInv, ReadOverride, BoundsTypeOK
<1>3. PICK m \in {"ack", "each"} : Goto(p, m)
  BY DEF ReadOverride
<1>4. ProcessorTypeOK'
  BY <1>3 DEF CoreInv, ProcessorTypeOK, ReadOverride, Goto, MessageIds
<1>5. Engaged' /\ StoreLogged'
  BY <1>1, <1>3, AdvanceKeeps DEF ReadOverride, streamVars
<1> QED BY <1>1, <1>2, <1>4, <1>5 DEF CoreInv

LEMMA PromptUnreadableCore ==
  ASSUME CoreInv, NEW p \in Processors, NEW t \in Classifiers, PromptUnreadable(p, t)
  PROVE  CoreInv' /\ ConfidenceKept
<1>1. InsertEvent(DomainOf(p), "error", t) /\ DomainOf(p) \in Domains /\ t \in Types
  BY DomainInHand, ClassifierIsType DEF PromptUnreadable
<1>2. DbInv' /\ events \subseteq events' /\ ConfidenceKept
  BY <1>1, InsertEventInv DEF CoreInv, InsertEvent, RowsConfident, ConfidenceKept, ClassificationAction
<1>3. JetStreamTypeOK'
  BY StreamKept DEF CoreInv, PromptUnreadable
<1>4. BoundsTypeOK'
  BY SpendType, KindsAssumption DEF CoreInv, PromptUnreadable
<1>5. ProcessorTypeOK' /\ \E m : Goto(p, m) /\ m \in {"ack", pc[p]}
  BY FinishType DEF CoreInv, PromptUnreadable
<1>6. Engaged' /\ StoreLogged'
  BY <1>2, <1>5, AdvanceKeeps DEF PromptUnreadable, streamVars
<1> QED BY <1>2, <1>3, <1>4, <1>5, <1>6 DEF CoreInv

LEMMA StartClassifierCore ==
  ASSUME CoreInv, NEW p \in Processors, NEW t \in Classifiers, StartClassifier(p, t)
  PROVE  CoreInv' /\ ConfidenceKept
<1>1. /\ InsertEvent(DomainOf(p), "classifying", t)
      /\ DomainOf(p) \in Domains /\ t \in Types
  BY DomainInHand, ClassifierIsType DEF StartClassifier
<1>2. DbInv' /\ events \subseteq events' /\ ConfidenceKept
  BY <1>1, InsertEventInv DEF CoreInv, InsertEvent, RowsConfident, ConfidenceKept, ClassificationAction
<1>3. JetStreamTypeOK' /\ BoundsTypeOK'
  BY StreamKept DEF CoreInv, StartClassifier, BoundsTypeOK
<1>4. [ctype |-> t, verdict |-> NoVerdict] \in Job
  BY <1>1, NoJobType DEF Job
<1>5. /\ ProcessorTypeOK'
      /\ \A q \in Processors \ {p} : job'[q] = job[q]
  BY <1>4 DEF CoreInv, ProcessorTypeOK, StartClassifier, Goto, MessageIds
<1>6. Engaged' /\ StoreLogged'
  BY <1>2, <1>5, AdvanceKeeps DEF StartClassifier, streamVars
<1> QED BY <1>2, <1>3, <1>5, <1>6 DEF CoreInv

(* The step that makes StoreLogged true, with the event just committed. *)
LEMMA ClassifierSucceedsCore ==
  ASSUME CoreInv, NEW p \in Processors, NEW m \in BOOLEAN, NEW c \in Confidence,
         ClassifierSucceeds(p, m, c)
  PROVE  CoreInv' /\ ConfidenceKept
<1> DEFINE v == [match |-> m, conf |-> c, src |-> "llm_prompt"]
<1>1. v \in LlmVerdict /\ v \in Verdict /\ v.conf = c
  BY DEF LlmVerdict, Verdict, SourceType
<1>2. /\ InsertClassifiedEvent(DomainOf(p), job[p].ctype, v)
      /\ DomainOf(p) \in Domains /\ job[p].ctype \in Types
      /\ UNCHANGED <<streamVars, current, matched, compiled>>
      /\ pc[p] = "running"
  BY DomainInHand DEF ClassifierSucceeds, CoreInv, ProcessorTypeOK, Job
<1>3. ASSUME c = "low" PROVE ProcessorTypeOK' /\ Engaged' /\ StoreLogged'
  <2>1. FinishJob(p)
    BY <1>3 DEF ClassifierSucceeds
  <2>2. ProcessorTypeOK' /\ \A q \in Processors \ {p} : job'[q] = job[q]
    BY <1>2, <2>1, FinishJobType DEF CoreInv
  <2>3. PICK l \in {"ack", "each"} : Goto(p, l)
    BY <1>2, <2>1, FinishJobType DEF CoreInv
  <2>4. events \subseteq events'
    BY <1>2 DEF InsertClassifiedEvent, InsertEvents
  <2>5. Engaged' /\ StoreLogged'
    BY <1>2, <2>2, <2>3, <2>4, AdvanceKeeps DEF streamVars
  <2> QED BY <2>2, <2>5
<1>4. ASSUME c # "low" PROVE ProcessorTypeOK' /\ Engaged' /\ StoreLogged'
  <2>1. /\ job' = [job EXCEPT ![p].verdict = v]
        /\ pc' = [pc EXCEPT ![p] = "store"]
        /\ UNCHANGED todo
    BY <1>4 DEF ClassifierSucceeds, Goto
  <2> HIDE DEF v
  <2>2. ProcessorTypeOK'
    BY <1>1, <1>2, <2>1 DEF CoreInv, ProcessorTypeOK, Job, MessageIds
  <2>3. Engaged'
    BY <1>2, <2>1 DEF CoreInv, ProcessorTypeOK, Engaged, DomainOf, MessageIds, streamVars
  <2>4. StoreLogged'
    <3> SUFFICES ASSUME NEW q \in Processors, pc'[q] = "store"
                 PROVE  /\ job'[q].verdict.conf # "low"
                        /\ \E e \in events' :
                             Explains(e, payload'[current'[q]], job'[q].ctype, job'[q].verdict)
      BY DEF StoreLogged, DomainOf, Explains
    <3>1. CASE q = p
      <4>1. job'[p].verdict = v /\ job'[p].ctype = job[p].ctype
        BY <2>1 DEF CoreInv, ProcessorTypeOK, Job
      <4>2. \E e \in events' : Explains(e, DomainOf(p), job[p].ctype, v)
        BY <1>1, <1>2, InsertClassifiedEventInv DEF CoreInv
      <4>3. payload'[current'[p]] = DomainOf(p)
        BY <1>2 DEF DomainOf, streamVars
      <4> QED BY <3>1, <4>1, <4>2, <4>3, <1>1, <1>4
    <3>2. CASE q # p
      <4>1. pc[q] = "store" /\ job'[q] = job[q] /\ payload'[current'[q]] = DomainOf(q)
        BY <3>2, <1>2, <2>1 DEF CoreInv, ProcessorTypeOK, DomainOf, streamVars
      <4>2. events \subseteq events'
        BY <1>2 DEF InsertClassifiedEvent, InsertEvents
      <4> QED BY <4>1, <4>2 DEF CoreInv, StoreLogged
    <3> QED BY <3>1, <3>2
  <2> QED BY <2>2, <2>3, <2>4
<1>5. DbInv' /\ ConfidenceKept
  BY <1>1, <1>2, InsertClassifiedEventInv
     DEF CoreInv, InsertClassifiedEvent, RowsConfident, ConfidenceKept
<1>6. JetStreamTypeOK'
  BY <1>2, StreamKept DEF CoreInv
<1>7. BoundsTypeOK'
  <2>1. Spend("outofrange") \/ UNCHANGED used
    BY DEF ClassifierSucceeds
  <2> QED BY <2>1, SpendType, KindsAssumption DEF CoreInv, BoundsTypeOK
<1> QED BY <1>3, <1>4, <1>5, <1>6, <1>7 DEF CoreInv

LEMMA ClassifierFailsCore ==
  ASSUME CoreInv, NEW p \in Processors, ClassifierFails(p)
  PROVE  CoreInv' /\ ConfidenceKept
<1>1. /\ InsertEvent(DomainOf(p), "error", job[p].ctype)
      /\ DomainOf(p) \in Domains /\ job[p].ctype \in Types
  BY DomainInHand DEF ClassifierFails, CoreInv, ProcessorTypeOK, Job
<1>2. DbInv' /\ events \subseteq events' /\ ConfidenceKept
  BY <1>1, InsertEventInv DEF CoreInv, InsertEvent, RowsConfident, ConfidenceKept, ClassificationAction
<1>3. JetStreamTypeOK' /\ BoundsTypeOK'
  BY StreamKept DEF CoreInv, ClassifierFails, BoundsTypeOK
<1>4. /\ ProcessorTypeOK'
      /\ \E l : Goto(p, l) /\ l \in {"ack", "each"}
      /\ \A q \in Processors \ {p} : job'[q] = job[q]
  BY FinishJobType DEF CoreInv, ClassifierFails
<1>5. Engaged' /\ StoreLogged'
  BY <1>2, <1>4, AdvanceKeeps DEF ClassifierFails, streamVars
<1> QED BY <1>2, <1>3, <1>4, <1>5 DEF CoreInv

(* The step that relies on StoreLogged. *)
LEMMA StoreVerdictCore ==
  ASSUME CoreInv, NEW p \in Processors, StoreVerdict(p)
  PROVE  CoreInv' /\ ConfidenceKept
<1>1. /\ ClassificationStore(DomainOf(p), job[p].ctype, job[p].verdict)
      /\ DomainOf(p) \in Domains /\ job[p].ctype \in Types /\ job[p].verdict \in Verdict
      /\ \E e \in events : Explains(e, DomainOf(p), job[p].ctype, job[p].verdict)
      /\ job[p].verdict.conf = "enough"
  BY DomainInHand, LlmVerdictType
     DEF StoreVerdict, ClassificationStore, CoreInv, ProcessorTypeOK, Job,
         StoreLogged, LlmVerdict, Confidence
<1>2. DbInv' /\ events \subseteq events'
  BY <1>1, ClassificationStoreInv DEF CoreInv
<1>3. ConfidenceKept
  <2>1. rows' = rows \union {NewRow(DomainOf(p), job[p].ctype, job[p].verdict, TtlDays)}
    BY <1>1 DEF ClassificationStore
  <2>2. NewRow(DomainOf(p), job[p].ctype, job[p].verdict, TtlDays).verdict = job[p].verdict
    BY DEF NewRow
  <2> QED BY <1>1, <2>1, <2>2 DEF CoreInv, RowsConfident, ConfidenceKept
<1>4. JetStreamTypeOK' /\ BoundsTypeOK'
  BY StreamKept DEF CoreInv, StoreVerdict, BoundsTypeOK
<1>5. /\ ProcessorTypeOK'
      /\ \E l : Goto(p, l) /\ l \in {"ack", "each"}
      /\ \A q \in Processors \ {p} : job'[q] = job[q]
  BY FinishJobType DEF CoreInv, StoreVerdict
<1>6. Engaged' /\ StoreLogged'
  BY <1>2, <1>5, AdvanceKeeps DEF StoreVerdict, streamVars
<1> QED BY <1>2, <1>3, <1>4, <1>5, <1>6 DEF CoreInv

LEMMA AbortKeeps ==
  ASSUME CoreInv, NEW p \in Processors, pc[p] \notin {"down", "idle", "ack"},
         Abort(p), BoundsTypeOK'
  PROVE  CoreInv' /\ ConfidenceKept
<1>1. DbInv' /\ events \subseteq events' /\ ConfidenceKept
  BY UnchangedInv DEF CoreInv, Abort, dbVars, RowsConfident, ConfidenceKept
<1>2. JetStreamTypeOK'
  BY StreamKept DEF CoreInv, Abort
<1>3. /\ ProcessorTypeOK'
      /\ \A q \in Processors \ {p} : job'[q] = job[q]
  BY NoJobType DEF CoreInv, ProcessorTypeOK, Abort, Goto, MessageIds
<1>4. Engaged' /\ StoreLogged'
  BY <1>1, <1>3, AdvanceKeeps DEF Abort, streamVars
<1> QED BY <1>1, <1>2, <1>3, <1>4 DEF CoreInv

LEMMA StoreRefusedCore ==
  ASSUME CoreInv, NEW p \in Processors, StoreRefused(p)
  PROVE  CoreInv' /\ ConfidenceKept
  BY AbortKeeps DEF StoreRefused, CoreInv, BoundsTypeOK

LEMMA DatabaseFailsCore ==
  ASSUME CoreInv, NEW p \in Processors, DatabaseFails(p)
  PROVE  CoreInv' /\ ConfidenceKept
<1>1. BoundsTypeOK'
  BY SpendType, KindsAssumption DEF DatabaseFails, CoreInv
<1> QED BY <1>1, AbortKeeps DEF DatabaseFails
-----------------------------------------------------------------------------
(* The environment *)

LEMMA AckWaitCore ==
  ASSUME CoreInv, NEW i \in MessageIds, AckWaitExpires(i),
         UNCHANGED <<dbVars, procVars>>, BoundsTypeOK'
  PROVE  CoreInv' /\ ConfidenceKept
<1>1. DbInv' /\ events \subseteq events' /\ ConfidenceKept
  BY UnchangedInv DEF CoreInv, dbVars, RowsConfident, ConfidenceKept
<1>2. JetStreamTypeOK' /\ payload' = payload
  BY DEF CoreInv, AckWaitExpires, JetStreamTypeOK, MessageIds
<1>3. ProcessorTypeOK' /\ Engaged' /\ StoreLogged'
  BY <1>1, <1>2, ProcessorsStay
<1> QED BY <1>1, <1>2, <1>3 DEF CoreInv

LEMMA RedeliverCore ==
  ASSUME CoreInv, NEW i \in MessageIds, RedeliverLost(i) \/ RedeliverHeld(i)
  PROVE  CoreInv' /\ ConfidenceKept
<1>1. BoundsTypeOK'
  BY SpendType, KindsAssumption DEF CoreInv, RedeliverLost, RedeliverHeld, BoundsTypeOK
<1> QED BY <1>1, AckWaitCore DEF RedeliverLost, RedeliverHeld

LEMMA DomainSeenCore ==
  ASSUME CoreInv, DomainSeen
  PROVE  CoreInv' /\ ConfidenceKept
<1>1. DbInv' /\ events \subseteq events' /\ ConfidenceKept
  BY UnchangedInv DEF CoreInv, DomainSeen, dbVars, RowsConfident, ConfidenceKept
<1>2. JetStreamTypeOK' /\ payload' = payload
  BY DEF CoreInv, DomainSeen, Publish, Send, JetStreamTypeOK, MessageIds
<1>3. BoundsTypeOK'
  BY SpendType, KindsAssumption DEF CoreInv, DomainSeen
<1>4. ProcessorTypeOK' /\ Engaged' /\ StoreLogged'
  BY <1>1, <1>2, ProcessorsStay DEF DomainSeen
<1> QED BY <1>1, <1>2, <1>3, <1>4 DEF CoreInv

LEMMA DayPassesCore ==
  ASSUME CoreInv, DayPasses
  PROVE  CoreInv' /\ ConfidenceKept
<1>1. DbInv' /\ events \subseteq events' /\ ConfidenceKept
  BY NewDayInv DEF CoreInv, DayPasses, NewDay, RowsConfident, ConfidenceKept
<1>2. JetStreamTypeOK' /\ payload' = payload
  BY StreamKept DEF CoreInv, DayPasses, streamVars
<1>3. BoundsTypeOK'
  BY SpendType, KindsAssumption DEF CoreInv, DayPasses
<1>4. ProcessorTypeOK' /\ Engaged' /\ StoreLogged'
  BY <1>1, <1>2, ProcessorsStay DEF DayPasses
<1> QED BY <1>1, <1>2, <1>3, <1>4 DEF CoreInv

LEMMA StutterCore ==
  ASSUME CoreInv, UNCHANGED qpVars
  PROVE  CoreInv' /\ ConfidenceKept
<1>1. UNCHANGED dbVars /\ UNCHANGED streamVars /\ UNCHANGED procVars /\ used' = used
  BY DEF qpVars, dbVars, streamVars, procVars
<1>2. DbInv' /\ events \subseteq events' /\ ConfidenceKept
  BY <1>1, UnchangedInv DEF CoreInv, dbVars, RowsConfident, ConfidenceKept
<1>3. JetStreamTypeOK' /\ BoundsTypeOK' /\ payload' = payload
  BY <1>1, StreamKept DEF CoreInv, BoundsTypeOK, streamVars
<1>4. ProcessorTypeOK' /\ Engaged' /\ StoreLogged'
  BY <1>1, <1>2, <1>3, ProcessorsStay
<1> QED BY <1>2, <1>3, <1>4 DEF CoreInv
-----------------------------------------------------------------------------
LEMMA NextCore == CoreInv /\ [Next]_qpVars => CoreInv' /\ ConfidenceKept
<1> SUFFICES ASSUME CoreInv, [Next]_qpVars PROVE CoreInv' /\ ConfidenceKept
  OBVIOUS
<1>1. ASSUME NEW p \in Processors, ProcessorStep(p) PROVE CoreInv' /\ ConfidenceKept
  <2>1. CASE Start(p) BY <2>1, StartCore
  <2>2. CASE Fetch(p) BY <2>2, FetchCore
  <2>3. CASE Processing(p)
    BY <2>3, ReceiveCore, ReadStatesCore, ApplyPatternCore, ApplyExcludeCore,
       ReadOverrideCore, AckCore DEF Processing
  <2>4. CASE Classifying(p)
    BY <2>4, StartClassifierCore, PromptUnreadableCore, ClassifierSucceedsCore,
       ClassifierFailsCore, StoreVerdictCore, StoreRefusedCore DEF Classifying
  <2> QED BY <1>1, <2>1, <2>2, <2>3, <2>4 DEF ProcessorStep
<1>2. CASE Fault
  BY <1>2, CrashCore, DatabaseFailsCore, AckFailsCore, RedeliverCore, DayPassesCore
     DEF Fault
<1>3. CASE \E i \in MessageIds : RedeliverLost(i)
  BY <1>3, RedeliverCore
<1>4. CASE DomainSeen BY <1>4, DomainSeenCore
<1>5. CASE UNCHANGED qpVars BY <1>5, StutterCore
<1> QED BY <1>1, <1>2, <1>3, <1>4, <1>5 DEF Next

LEMMA NextIInv == IInv /\ [Next]_qpVars => IInv'
  BY NextCore DEF IInv, ConfidenceKept

(* The inductive invariant holds of every behaviour. *)
THEOREM Invariance == Spec => []IInv
  BY InitIInv, NextIInv, PTL DEF Spec

LEMMA CoreInvariance == Spec => []CoreInv
<1>1. IInv => CoreInv
  BY DEF IInv
<1> QED BY <1>1, Invariance, PTL

(* Every variable keeps its type, through every fault. *)
THEOREM TypeCorrect == Spec => []TypeOK
<1>1. IInv => TypeOK
  BY DEF IInv, CoreInv, DbInv, TypeOK
<1> QED BY <1>1, Invariance, PTL

(* No event and no row of a domain that the domains table does not have.   *)
THEOREM DomainsAlwaysKnown == Spec => []DomainsKnown
<1>1. IInv => DomainsKnown
  BY DEF IInv, CoreInv, DbInv
<1> QED BY <1>1, Invariance, PTL

(* The projection never runs ahead of the event log. *)
THEOREM RowsAlwaysExplained == Spec => []RowsExplained
<1>1. IInv => RowsExplained
  BY DEF IInv, CoreInv, DbInv
<1> QED BY <1>1, Invariance, PTL

(* Nothing is blocked without a confident positive verdict on record. *)
THEOREM BlockedOnlyOnEvidence == Spec => []BlockedOnEvidence
<1>1. IInv => BlockedOnEvidence
  BY EvidenceFromRows DEF IInv, CoreInv
<1> QED BY <1>1, Invariance, PTL
=============================================================================
