--------------------------- MODULE QueueProcessor ---------------------------
(***************************************************************************)
(* queue-processor/src/main.rs: the loop that takes a domain from the      *)
(* JetStream consumer, runs the classifiers it needs and records what they *)
(* say.  process_domain is one action per database call or subprocess, so  *)
(* crashes, failing calls, redeliveries and other processes' transactions  *)
(* can fall between any two of them.                                       *)
(***************************************************************************)
EXTENDS Database, JetStream, Bounds

CONSTANT ExcludedDomains   \* domains with a suffix in config.exclude_suffixes

ASSUME KindsAssumption ==
  {"seen", "crash", "dbfail", "late", "day", "badprompt", "outofrange"} \subseteq Kinds

(* A payload that serde cannot deserialize. *)
Malformed == "malformed"
ASSUME PayloadsAssumption == Payloads \subseteq Domains \union {Malformed}

VARIABLES
  pc,          \* pc[p]: where p is in its loop
  current,     \* current[p]: the message p is processing
  todo,        \* todo[p]: the types that were not Current when p read the states
  matched,     \* matched[p]: the pattern rule p applies, as a set of at most one
  job,         \* job[p]: the type whose classifier is running, with its verdict
  compiled     \* compiled[p]: the pattern rules p loaded when it started

procVars == <<pc, current, todo, matched, job, compiled>>
qpVars == <<today, txid, domains, events, rows, rules, payload, mstate, inbox,
            pc, current, todo, matched, job, compiled, used>>

LlmVerdict == [match : BOOLEAN, conf : Confidence, src : {"llm_prompt"}]
Job == [ctype : Types, verdict : LlmVerdict]
NoJob == [ctype |-> ALL_CLASSIFICATION_TYPE, verdict |-> NoVerdict]

ProcessorTypeOK ==
  /\ pc \in [Processors -> {"down", "idle", "received", "pattern", "exclude",
                            "override", "each", "running", "store", "ack"}]
  /\ current \in [Processors -> MessageIds \union {0}]
  /\ todo \in [Processors -> SUBSET Classifiers]
  /\ matched \in [Processors -> SUBSET Rule]
  /\ job \in [Processors -> Job]
  /\ compiled \in [Processors -> SUBSET Rule]

TypeOK == DatabaseTypeOK /\ JetStreamTypeOK /\ BoundsTypeOK /\ ProcessorTypeOK

ProcessorInit ==
  /\ pc = [p \in Processors |-> "down"]
  /\ current = [p \in Processors |-> 0]
  /\ todo = [p \in Processors |-> {}]
  /\ matched = [p \in Processors |-> {}]
  /\ job = [p \in Processors |-> NoJob]
  /\ compiled = [p \in Processors |-> {}]

Init == DatabaseInit /\ JetStreamInit /\ BoundsInit /\ ProcessorInit

Goto(p, l) == pc' = [pc EXCEPT ![p] = l]

DomainOf(p) == payload[current[p]]

Matching(p) == {r \in compiled[p] : DomainOf(p) \in r.covers}

(* p is done with type t: on to the remaining ones, or to the ack. *)
Finish(p, t) ==
  /\ todo' = [todo EXCEPT ![p] = @ \ {t}]
  /\ Goto(p, IF todo[p] = {t} THEN "ack" ELSE pc[p])

(* Bug: the first outcome ends the domain. *)
FinishJobAndReturn(p) ==
  /\ todo' = [todo EXCEPT ![p] = @ \ {job[p].ctype}]
  /\ Goto(p, "ack")
  /\ job' = [job EXCEPT ![p] = NoJob]

FinishJob(p) ==
  /\ todo' = [todo EXCEPT ![p] = @ \ {job[p].ctype}]
  /\ Goto(p, IF todo[p] = {job[p].ctype} THEN "ack" ELSE "each")
  /\ job' = [job EXCEPT ![p] = NoJob]

-----------------------------------------------------------------------------
(* main *)

(* Pattern rules are read and compiled once, before the loop. *)
Start(p) ==
  /\ pc[p] = "down"
  /\ Goto(p, "idle")
  /\ compiled' = [compiled EXCEPT ![p] = rules]
  /\ UNCHANGED <<dbVars, streamVars, current, todo, matched, job, used>>

Fetch(p) ==
  /\ pc[p] # "down"
  /\ Deliver(p)
  /\ UNCHANGED <<dbVars, procVars, used>>

(* Bug: a malformed payload is skipped before its ack. *)
ReceiveSkippingMalformed(p) ==
  /\ pc[p] = "idle"
  /\ \E i \in MessageIds :
       /\ IsLowest(i, inbox[p])
       /\ inbox' = [inbox EXCEPT ![p] = @ \ {i}]
       /\ \/ payload[i] = Malformed /\ UNCHANGED <<pc, current>>
          \/ /\ payload[i] # Malformed
             /\ current' = [current EXCEPT ![p] = i]
             /\ Goto(p, "received")
  /\ UNCHANGED <<dbVars, payload, mstate, todo, matched, job, compiled, used>>

(* Bug: acknowledged on receipt. *)
ReceiveAndAck(p) ==
  /\ pc[p] = "idle"
  /\ \E i \in MessageIds :
       /\ IsLowest(i, inbox[p])
       /\ inbox' = [inbox EXCEPT ![p] = @ \ {i}]
       /\ current' = [current EXCEPT ![p] = i]
       /\ Goto(p, IF payload[i] = Malformed THEN "ack" ELSE "received")
       /\ Acknowledge(i)
  /\ UNCHANGED <<dbVars, payload, todo, matched, job, compiled, used>>

(* Malformed payloads go straight to the ack. *)
Receive(p) ==
  /\ pc[p] = "idle"
  /\ \E i \in MessageIds :
       /\ IsLowest(i, inbox[p])
       /\ inbox' = [inbox EXCEPT ![p] = @ \ {i}]
       /\ current' = [current EXCEPT ![p] = i]
       /\ Goto(p, IF payload[i] = Malformed THEN "ack" ELSE "received")
  /\ UNCHANGED <<dbVars, payload, mstate, todo, matched, job, compiled, used>>

(* The locals of process_domain go out of scope. *)
Forget(p) ==
  /\ current' = [current EXCEPT ![p] = 0]
  /\ todo' = [todo EXCEPT ![p] = {}]
  /\ matched' = [matched EXCEPT ![p] = {}]
  /\ job' = [job EXCEPT ![p] = NoJob]

Release(p) == Goto(p, "idle") /\ Forget(p)

(* Acked whether or not processing succeeded. *)
Ack(p) ==
  /\ pc[p] = "ack"
  /\ Acknowledge(current[p])
  /\ Release(p)
  /\ UNCHANGED <<dbVars, payload, inbox, compiled, used>>

(* A failed ack is logged and forgotten. *)
AckFails(p) ==
  /\ pc[p] = "ack"
  /\ Spend("late")
  /\ Release(p)
  /\ UNCHANGED <<dbVars, streamVars, compiled>>
-----------------------------------------------------------------------------
(* process_domain *)

(* One query gives every state, and a type that is Current is skipped on   *)
(* every path.  A rule that matches comes before an excluded suffix, which *)
(* comes before the classifiers; the rules come in no particular order,    *)
(* and the first that matches is used for every type.                      *)
ReadStates(p) ==
  /\ pc[p] = "received"
  /\ LET due == {t \in Classifiers : DomainState(DomainOf(p), t) # "Current"} IN
       /\ todo' = [todo EXCEPT ![p] = due]
       /\ \/ due = {} /\ Goto(p, "ack") /\ UNCHANGED matched
          \/ /\ due # {}
             /\ \E rule \in Matching(p) : matched' = [matched EXCEPT ![p] = {rule}]
             /\ Goto(p, "pattern")
          \/ /\ due # {} /\ Matching(p) = {}
             /\ Goto(p, IF DomainOf(p) \in ExcludedDomains THEN "exclude" ELSE "override")
             /\ UNCHANGED matched
  /\ UNCHANGED <<dbVars, streamVars, current, job, compiled, used>>

ApplyPattern(p, t) ==
  /\ pc[p] = "pattern"
  /\ t \in todo[p]
  /\ \E rule \in matched[p] : ApplyPatternClassification(DomainOf(p), t, rule)
  /\ Finish(p, t)
  /\ UNCHANGED <<streamVars, current, matched, job, compiled, used>>

ApplyExclude(p, t) ==
  /\ pc[p] = "exclude"
  /\ t \in todo[p]
  /\ ExcludeRuleClassify(DomainOf(p), t)
  /\ Finish(p, t)
  /\ UNCHANGED <<streamVars, current, matched, job, compiled, used>>

(* Under an active "all" row every type that is due is skipped. *)
ReadOverride(p) ==
  /\ pc[p] = "override"
  /\ Goto(p, IF HasAllOverride(DomainOf(p)) THEN "ack" ELSE "each")
  /\ UNCHANGED <<dbVars, streamVars, current, todo, matched, job, compiled, used>>

PromptUnreadable(p, t) ==
  /\ pc[p] = "each"
  /\ t \in todo[p]
  /\ Spend("badprompt")
  /\ InsertEvent(DomainOf(p), "error", t)
  /\ Finish(p, t)
  /\ UNCHANGED <<streamVars, current, matched, job, compiled>>

(* Bug: the action is not one of the log's. *)
StartClassifierMisnamed(p, t) ==
  /\ pc[p] = "each"
  /\ t \in todo[p]
  /\ InsertEvent(DomainOf(p), "processing", t)
  /\ job' = [job EXCEPT ![p] = [ctype |-> t, verdict |-> NoVerdict]]
  /\ Goto(p, "running")
  /\ UNCHANGED <<streamVars, current, todo, matched, compiled, used>>

StartClassifier(p, t) ==
  /\ pc[p] = "each"
  /\ t \in todo[p]
  /\ InsertEvent(DomainOf(p), "classifying", t)
  /\ job' = [job EXCEPT ![p] = [ctype |-> t, verdict |-> NoVerdict]]
  /\ Goto(p, "running")
  /\ UNCHANGED <<streamVars, current, todo, matched, compiled, used>>

(* Bug: the row of a confident verdict is written before its event. *)
ClassifierSucceedsRowFirst(p, m, c) ==
  LET v == [match |-> m, conf |-> c, src |-> "llm_prompt"] IN
  /\ pc[p] = "running"
  /\ IF c = "out" THEN Spend("outofrange") ELSE UNCHANGED used
  /\ IF c = "low"
       THEN InsertClassifiedEvent(DomainOf(p), job[p].ctype, v) /\ FinishJob(p)
       ELSE /\ job' = [job EXCEPT ![p].verdict = v]
            /\ Goto(p, "store")
            /\ UNCHANGED <<dbVars, todo>>
  /\ UNCHANGED <<streamVars, current, matched, compiled>>

(* Bug: min_confidence is not looked at. *)
ClassifierSucceedsAnyConfidence(p, m, c) ==
  LET v == [match |-> m, conf |-> c, src |-> "llm_prompt"] IN
  /\ pc[p] = "running"
  /\ IF c = "out" THEN Spend("outofrange") ELSE UNCHANGED used
  /\ InsertClassifiedEvent(DomainOf(p), job[p].ctype, v)
  /\ job' = [job EXCEPT ![p].verdict = v]
  /\ Goto(p, "store")
  /\ UNCHANGED <<streamVars, current, todo, matched, compiled>>

(* The subprocess reports a verdict; the event is committed first, and     *)
(* only a confident verdict goes on to the projection.                     *)
ClassifierSucceeds(p, m, c) ==
  LET v == [match |-> m, conf |-> c, src |-> "llm_prompt"] IN
  /\ pc[p] = "running"
  /\ IF c = "out" THEN Spend("outofrange") ELSE UNCHANGED used
  /\ InsertClassifiedEvent(DomainOf(p), job[p].ctype, v)
  /\ IF c = "low"
       THEN FinishJob(p)
       ELSE /\ job' = [job EXCEPT ![p].verdict = v]
            /\ Goto(p, "store")
            /\ UNCHANGED todo
  /\ UNCHANGED <<streamVars, current, matched, compiled>>

(* The subprocess reports an error, prints nothing or cannot be started.   *)
ClassifierFails(p) ==
  /\ pc[p] = "running"
  /\ InsertEvent(DomainOf(p), "error", job[p].ctype)
  /\ FinishJob(p)
  /\ UNCHANGED <<streamVars, current, matched, compiled, used>>

StoreVerdict(p) ==
  /\ pc[p] = "store"
  /\ ClassificationStore(DomainOf(p), job[p].ctype, job[p].verdict)
  /\ FinishJob(p)
  /\ UNCHANGED <<streamVars, current, matched, compiled, used>>

(* process_domain returns an error: the types left in todo are dropped. *)
Abort(p) ==
  /\ Goto(p, "ack")
  /\ job' = [job EXCEPT ![p] = NoJob]
  /\ UNCHANGED <<dbVars, streamVars, current, todo, matched, compiled>>

(* The CHECK on confidence refuses the row. *)
StoreRefused(p) ==
  /\ pc[p] = "store"
  /\ job[p].verdict.conf = "out"
  /\ Abort(p)
  /\ UNCHANGED used

(* Any database call of process_domain may fail. *)
DatabaseFails(p) ==
  /\ pc[p] \in {"received", "pattern", "exclude", "override", "each", "running", "store"}
  /\ Spend("dbfail")
  /\ Abort(p)
-----------------------------------------------------------------------------
(* The environment *)

(* The process dies and loses everything it holds; systemd restarts it. *)
Crash(p) ==
  /\ pc[p] # "down"
  /\ Spend("crash")
  /\ Goto(p, "down")
  /\ Forget(p)
  /\ inbox' = [inbox EXCEPT ![p] = {}]
  /\ UNCHANGED <<dbVars, payload, mstate, compiled>>

Held(i) == \E p \in Processors : i \in inbox[p] \/ i = current[p]

(* The AckWait of a message nobody holds any more. *)
RedeliverLost(i) ==
  /\ ~ Held(i)
  /\ AckWaitExpires(i)
  /\ UNCHANGED <<dbVars, procVars, used>>

(* The AckWait of a message that is still being worked on or waited for:   *)
(* nothing extends it while a classifier runs.                             *)
RedeliverHeld(i) ==
  /\ Held(i)
  /\ Spend("late")
  /\ AckWaitExpires(i)
  /\ UNCHANGED <<dbVars, procVars>>

(* The log processor publishes a domain it saw in the DNS log. *)
DomainSeen ==
  /\ Spend("seen")
  /\ Publish
  /\ UNCHANGED <<dbVars, procVars>>

DayPasses ==
  /\ Spend("day")
  /\ NewDay
  /\ UNCHANGED <<streamVars, procVars>>

Classifying(p) ==
  \/ \E t \in Classifiers : StartClassifier(p, t) \/ PromptUnreadable(p, t)
  \/ \E m \in BOOLEAN, c \in Confidence : ClassifierSucceeds(p, m, c)
  \/ ClassifierFails(p)
  \/ StoreVerdict(p)
  \/ StoreRefused(p)

Processing(p) ==
  \/ Receive(p)
  \/ ReadStates(p)
  \/ \E t \in Classifiers : ApplyPattern(p, t) \/ ApplyExclude(p, t)
  \/ ReadOverride(p)
  \/ Ack(p)

ProcessorStep(p) == Start(p) \/ Fetch(p) \/ Processing(p) \/ Classifying(p)

Fault ==
  \/ \E p \in Processors : Crash(p) \/ DatabaseFails(p) \/ AckFails(p)
  \/ \E i \in MessageIds : RedeliverHeld(i)
  \/ DayPasses

Next ==
  \/ \E p \in Processors : ProcessorStep(p)
  \/ \E i \in MessageIds : RedeliverLost(i)
  \/ DomainSeen
  \/ Fault

Spec == Init /\ [][Next]_qpVars

(* Only the answer of a classifier is not assumed: run_classifier puts no  *)
(* time limit on the subprocess or on the LLM behind it.                   *)
Fairness ==
  /\ \A p \in Processors :
       /\ WF_qpVars(Start(p))
       /\ WF_qpVars(Fetch(p))
       /\ WF_qpVars(Processing(p))
       /\ WF_qpVars(\E t \in Classifiers : StartClassifier(p, t))
       /\ WF_qpVars(StoreVerdict(p) \/ StoreRefused(p))
  /\ \A i \in MessageIds : WF_qpVars(RedeliverLost(i))

FairSpec == Spec /\ Fairness
-----------------------------------------------------------------------------
(* Properties *)

WQ == INSTANCE WorkQueue WITH
        Items <- MessageIds, Workers <- Processors,
        NoItem <- 0, Limit <- MaxAckPending,
        waiting <- InState("ready"), out <- InState("delivered"),
        settled <- InState("acked"), working <- current

(* The stream and the processors are the work queue that WorkQueue         *)
(* describes, whatever crashes, fails or is late: no published domain is   *)
(* lost or settled by anyone but a processor that went through it, and no  *)
(* more than max_ack_pending are out.                                      *)
IsWorkQueue == WQ!WQSpec

Busy == {p \in Processors : pc[p] \notin {"down", "idle"}}

(* With max_ack_pending 1 and every ack in time, one domain is in          *)
(* process_domain at a time, however many processors share the consumer    *)
(* and however often they crash.                                           *)
SerialProcessing ==
  MaxAckPending = 1 /\ used["late"] = 0 => Cardinality(Busy) <= 1

(* Two valid LLM rows of one (domain, type) could contradict each other,   *)
(* and the blocklist takes the positive one.  It must not happen while     *)
(* domains are processed one at a time: a redelivered message finds the    *)
(* first row Current.                                                      *)
OneValidLlmVerdict ==
  \A r, s \in rows :
    /\ r.domain = s.domain /\ r.ctype = s.ctype
    /\ r.verdict.src = "llm_prompt" /\ s.verdict.src = "llm_prompt"
    /\ IsActive(r) /\ IsActive(s)
    => r = s

IsSettled(d, t) ==
  /\ TypedEvents(d, t) # {}
  /\ Latest(TypedEvents(d, t)).action \in {"classified", "error"}

(* When a message is acknowledged, every classifier has an outcome on      *)
(* record for its domain: a verdict or an error that /errors lists and a   *)
(* later query retries.  One classifier's failure does not stop the        *)
(* others, and nothing stays at "classifying".                             *)
AckedIsSettled ==
  [][\A p \in Processors :
       Ack(p) /\ DomainOf(p) # Malformed
         => \A t \in Classifiers : IsSettled(DomainOf(p), t)]_qpVars

(* Every published message is acknowledged in the end, through crashes,    *)
(* failing calls and redeliveries, unless some classifier never answers.   *)
MessagesSettle ==
  \/ \A i \in MessageIds : mstate[i] = "ready" ~> mstate[i] = "acked"
  \/ <>[](\E p \in Processors : pc[p] = "running")
=============================================================================
