---------------------------- MODULE AdminServer ----------------------------
(***************************************************************************)
(* The admin handlers of blocklist-server/src/server.rs that change state, *)
(* with the operations of common/src/db/operations.rs they call.  A        *)
(* request runs in a handler, one step per transaction, autocommitted      *)
(* statement or publication; a handler stops between two steps when its    *)
(* client hangs up, a call fails or the server dies.                       *)
(*                                                                         *)
(* A regex is the set of domains it covers; one that does not compile      *)
(* covers none.                                                            *)
(***************************************************************************)
EXTENDS Database, JetStream, Bounds

CONSTANTS
  Handlers,          \* requests in progress at the same time
  AdminVerdicts,     \* what /classify is asked: [domain, ctype, match, ttl]
  AdminPatterns,     \* what /classify is asked: [covers, ctype, match]
  ProvisionedFiles   \* what /reconcile is sent: [exact, patterns]

PatternEntry == [covers : SUBSET Domains, ctype : Types, match : BOOLEAN]
ExactEntry == [domain : Domains, ctype : Types, match : BOOLEAN]

ASSUME AdminKindsAssumption ==
  {"classify", "pattern", "expire", "reconcile", "requeue", "rebuild", "abort"} \subseteq Kinds

ASSUME RequestsAssumption ==
  /\ AdminVerdicts \subseteq [domain : Domains, ctype : Types, match : BOOLEAN, ttl : Nat]
  /\ AdminPatterns \subseteq PatternEntry
  /\ ProvisionedFiles \subseteq [exact : SUBSET ExactEntry, patterns : SUBSET PatternEntry]
  /\ \A file \in ProvisionedFiles : \A e, f \in file.exact : SameKey(e, f) => e = f

VARIABLES
  hpc,         \* hpc[h]: where handler h is
  desired,     \* desired[h]: the pattern entries of the request body
  plan,        \* plan[h]: those of them still to reconcile
  known,       \* known[h]: the provisioned rules h read (active_map)
  applying,    \* applying[h]: the rule being applied, as a set of at most one
  targets,     \* targets[h]: the domains still to apply it to, or to requeue
  rebuilt      \* rebuilt[h]: the rows computed from the events h read

handlerVars == <<hpc, desired, plan, known, applying, targets, rebuilt>>

HandlerTypeOK ==
  /\ hpc \in [Handlers -> {"idle", "rules", "entries", "insert", "domains",
                           "apply", "requeue", "publish", "rebuild"}]
  /\ desired \in [Handlers -> SUBSET PatternEntry]
  /\ plan \in [Handlers -> SUBSET PatternEntry]
  /\ known \in [Handlers -> SUBSET Rule]
  /\ applying \in [Handlers -> SUBSET Rule]
  /\ targets \in [Handlers -> SUBSET Domains]
  /\ rebuilt \in [Handlers -> SUBSET Row]

HandlerInit ==
  /\ hpc = [h \in Handlers |-> "idle"]
  /\ desired = [h \in Handlers |-> {}]
  /\ plan = [h \in Handlers |-> {}]
  /\ known = [h \in Handlers |-> {}]
  /\ applying = [h \in Handlers |-> {}]
  /\ targets = [h \in Handlers |-> {}]
  /\ rebuilt = [h \in Handlers |-> {}]

HandlerGoto(h, l) == hpc' = [hpc EXCEPT ![h] = l]

HandlerDone(h) ==
  /\ HandlerGoto(h, "idle")
  /\ desired' = [desired EXCEPT ![h] = {}]
  /\ plan' = [plan EXCEPT ![h] = {}]
  /\ known' = [known EXCEPT ![h] = {}]
  /\ applying' = [applying EXCEPT ![h] = {}]
  /\ targets' = [targets EXCEPT ![h] = {}]
  /\ rebuilt' = [rebuilt EXCEPT ![h] = {}]

(* The rule made from entry e; its id is given when it is inserted. *)
Make(h, e, src) ==
  applying' = [applying EXCEPT ![h] =
    {[id |-> 0, covers |-> e.covers, ctype |-> e.ctype, match |-> e.match, src |-> src]}]

-----------------------------------------------------------------------------
(* POST /classify and POST /expire *)

AdminClassify ==
  /\ Spend("classify")
  /\ \E a \in AdminVerdicts : ApplyAdminClassification(a.domain, a.ctype, a.match, a.ttl)
  /\ UNCHANGED <<streamVars, handlerVars>>

AdminExpire ==
  /\ Spend("expire")
  /\ \E d \in Domains : DomainExpire(d)
  /\ UNCHANGED <<streamVars, handlerVars>>

AdminPattern(h) ==
  /\ hpc[h] = "idle"
  /\ Spend("pattern")
  /\ \E e \in AdminPatterns : Make(h, e, "admin")
  /\ HandlerGoto(h, "insert")
  /\ UNCHANGED <<dbVars, streamVars, desired, plan, known, targets, rebuilt>>

-----------------------------------------------------------------------------
(* POST /reconcile: one transaction for the exact domains, then the        *)
(* patterns, whose steps are transactions of their own.                    *)

SameRule(r, e) == r.covers = e.covers /\ r.ctype = e.ctype

ReconcileFile(h, file) ==
  /\ hpc[h] = "idle"
  /\ Spend("reconcile")
  /\ ReconcileProvisionedClassifications(file.exact)
  /\ desired' = [desired EXCEPT ![h] = file.patterns]
  /\ plan' = [plan EXCEPT ![h] = file.patterns]
  /\ HandlerGoto(h, "rules")
  /\ UNCHANGED <<streamVars, known, applying, targets, rebuilt>>

Reconcile(h) == \E file \in ProvisionedFiles : ReconcileFile(h, file)

(* Rules an admin made are not read; of two for one pattern and type, the  *)
(* map keeps one.                                                          *)
ReadRules(h) ==
  /\ hpc[h] = "rules"
  /\ LET provisioned == {r \in rules : r.src = "provisioned_pattern"} IN
     \E map \in SUBSET provisioned :
       /\ \A r \in provisioned : \E s \in map : SameRule(r, s)
       /\ \A r, s \in map : SameRule(r, s) => r = s
       /\ known' = [known EXCEPT ![h] = map]
  /\ HandlerGoto(h, "entries")
  /\ UNCHANGED <<dbVars, streamVars, desired, plan, applying, targets, rebuilt, used>>

(* An entry whose rule has the declared value already is skipped. *)
SkipEntry(h, e) ==
  /\ hpc[h] = "entries"
  /\ e \in plan[h]
  /\ \E r \in known[h] : SameRule(r, e) /\ r.match = e.match
  /\ plan' = [plan EXCEPT ![h] = @ \ {e}]
  /\ UNCHANGED <<dbVars, streamVars, hpc, desired, known, applying, targets, rebuilt, used>>

(* A rule whose value changed is expired, in a statement of its own. *)
ExpireChangedRule(h, e) ==
  /\ hpc[h] = "entries"
  /\ e \in plan[h]
  /\ \E r \in known[h] : SameRule(r, e) /\ r.match # e.match /\ ExpireRule(r)
  /\ plan' = [plan EXCEPT ![h] = @ \ {e}]
  /\ Make(h, e, "provisioned_pattern")
  /\ HandlerGoto(h, "insert")
  /\ UNCHANGED <<streamVars, desired, known, targets, rebuilt, used>>

NewEntry(h, e) ==
  /\ hpc[h] = "entries"
  /\ e \in plan[h]
  /\ ~ \E r \in known[h] : SameRule(r, e)
  /\ plan' = [plan EXCEPT ![h] = @ \ {e}]
  /\ Make(h, e, "provisioned_pattern")
  /\ HandlerGoto(h, "insert")
  /\ UNCHANGED <<dbVars, streamVars, desired, known, targets, rebuilt, used>>

(* The rule is committed before its regex is compiled: one that does not   *)
(* compile ends the request here.                                          *)
CommitRule(h) ==
  /\ hpc[h] = "insert"
  /\ \E r \in applying[h] :
       /\ InsertRule(r)
       /\ \/ r.covers = {} /\ HandlerDone(h)
          \/ /\ r.covers # {}
             /\ HandlerGoto(h, "domains")
             /\ UNCHANGED <<desired, plan, known, applying, targets, rebuilt>>
  /\ UNCHANGED <<streamVars, used>>

(* Bug: domains with a valid row of the type are left out. *)
ReadDomainsUnclassified(h) ==
  /\ hpc[h] = "domains"
  /\ targets' = [targets EXCEPT ![h] =
       {d \in domains : \E r \in applying[h] :
          d \in r.covers /\ ~ \E s \in RowsOf(d, r.ctype) : IsActive(s)}]
  /\ HandlerGoto(h, "apply")
  /\ UNCHANGED <<dbVars, streamVars, desired, plan, known, applying, rebuilt, used>>

(* SELECT domain FROM domains, kept for the whole loop. *)
ReadDomains(h) ==
  /\ hpc[h] = "domains"
  /\ targets' = [targets EXCEPT ![h] =
       {d \in domains : \E r \in applying[h] : d \in r.covers}]
  /\ HandlerGoto(h, "apply")
  /\ UNCHANGED <<dbVars, streamVars, desired, plan, known, applying, rebuilt, used>>

(* One transaction per domain, for the rule's own type. *)
ApplyRule(h, d) ==
  /\ hpc[h] = "apply"
  /\ d \in targets[h]
  /\ \E r \in applying[h] : ApplyPatternClassification(d, r.ctype, r)
  /\ targets' = [targets EXCEPT ![h] = @ \ {d}]
  /\ UNCHANGED <<streamVars, hpc, desired, plan, known, applying, rebuilt, used>>

(* The rule is applied: on to the next entry, or the admin has an answer. *)
RuleDone(h) ==
  /\ hpc[h] = "apply"
  /\ targets[h] = {}
  /\ IF \E r \in applying[h] : r.src = "admin"
       THEN HandlerDone(h)
       ELSE /\ applying' = [applying EXCEPT ![h] = {}]
            /\ HandlerGoto(h, "entries")
            /\ UNCHANGED <<desired, plan, known, targets, rebuilt>>
  /\ UNCHANGED <<dbVars, streamVars, used>>

(* Bug: compared with what is left to do, not with what is declared. *)
UndeclaredInPlan(h) == {r \in known[h] : ~ \E e \in plan[h] : SameRule(r, e)}

Undeclared(h) == {r \in known[h] : ~ \E e \in desired[h] : SameRule(r, e)}

(* Last, the rules that are not declared any more: only the rule goes, the *)
(* rows it wrote stay.                                                     *)
ExpireUndeclaredRule(h, r) ==
  /\ hpc[h] = "entries"
  /\ plan[h] = {}
  /\ r \in Undeclared(h)
  /\ ExpireRule(r)
  /\ known' = [known EXCEPT ![h] = @ \ {r}]
  /\ UNCHANGED <<streamVars, hpc, desired, plan, applying, targets, rebuilt, used>>

ReconcileDone(h) ==
  /\ hpc[h] = "entries"
  /\ plan[h] = {} /\ Undeclared(h) = {}
  /\ HandlerDone(h)
  /\ UNCHANGED <<dbVars, streamVars, used>>

-----------------------------------------------------------------------------
(* POST /requeue, /requeue/type and /requeue/all: one domain that is       *)
(* listed in /errors, those of a type, or all of them.                     *)

ErroredDomains(T) == {k[1] : k \in {x \in ErroredClassifications : x[2] \in T}}

RequeueFind(h) ==
  /\ hpc[h] = "idle"
  /\ Spend("requeue")
  /\ \E S \in {{d} : d \in ErroredDomains(Types)}
               \union {ErroredDomains({t}) : t \in Types} \union {ErroredDomains(Types)} :
       /\ S # {}
       /\ targets' = [targets EXCEPT ![h] = S]
  /\ HandlerGoto(h, "requeue")
  /\ UNCHANGED <<dbVars, streamVars, desired, plan, known, applying, rebuilt>>

(* The queued events are committed before anything is published. *)
RequeueLog(h) ==
  /\ hpc[h] = "requeue"
  /\ DomainRequeue(targets[h])
  /\ HandlerGoto(h, "publish")
  /\ UNCHANGED <<streamVars, desired, plan, known, applying, targets, rebuilt, used>>

RequeuePublish(h, d) ==
  /\ hpc[h] = "publish"
  /\ d \in targets[h]
  /\ \E i \in MessageIds : payload[i] = d /\ Send(i)
  /\ targets' = [targets EXCEPT ![h] = @ \ {d}]
  /\ UNCHANGED <<dbVars, hpc, desired, plan, known, applying, rebuilt, used>>

(* The publication is lost or refused; the next domain is tried. *)
RequeueUnpublished(h, d) ==
  /\ hpc[h] = "publish"
  /\ d \in targets[h]
  /\ Spend("abort")
  /\ targets' = [targets EXCEPT ![h] = @ \ {d}]
  /\ UNCHANGED <<dbVars, streamVars, hpc, desired, plan, known, applying, rebuilt>>

RequeueDone(h) ==
  /\ hpc[h] = "publish"
  /\ targets[h] = {}
  /\ HandlerDone(h)
  /\ UNCHANGED <<dbVars, streamVars, used>>

-----------------------------------------------------------------------------
(* POST /reprojection *)

LatestClassified(d, t) ==
  Latest({e \in TypedEvents(d, t) : e.action = "classified"})

(* Bug: the source of the event is lost. *)
RowFromEventUnsourced(e, ttl) ==
  [id |-> e.id, domain |-> e.domain, ctype |-> e.ctype,
   verdict |-> [e.verdict EXCEPT !.src = "llm_prompt"],
   validOn |-> e.day, validUntil |-> e.day + ttl]

RowFromEvent(e, ttl) ==
  [id |-> e.id, domain |-> e.domain, ctype |-> e.ctype, verdict |-> e.verdict,
   validOn |-> e.day, validUntil |-> e.day + ttl]

ClassifiedEvents == {e \in events : e.action = "classified"}

(* The newest classified event of each (domain, type), whatever came after *)
(* it.                                                                     *)
LatestClassifiedEvents == {e \in ClassifiedEvents : e = LatestClassified(e.domain, e.ctype)}

(* Read outside the transaction that writes. *)
RebuildRead(h) ==
  /\ hpc[h] = "idle"
  /\ Spend("rebuild")
  /\ rebuilt' = [rebuilt EXCEPT ![h] =
       {RowFromEvent(e, TtlDays) : e \in LatestClassifiedEvents}]
  /\ HandlerGoto(h, "rebuild")
  /\ UNCHANGED <<dbVars, streamVars, desired, plan, known, applying, targets>>

(* Bug: the table is not emptied first. *)
RebuildWriteOnTop(h) ==
  /\ hpc[h] = "rebuild"
  /\ IF \E r \in rebuilt[h] : r.verdict.conf = "out"
       THEN UNCHANGED <<rows, txid, domains>>
       ELSE /\ rows' = rows \union rebuilt[h]
            /\ domains' = domains \union {r.domain : r \in rebuilt[h]}
            /\ txid' = txid + 1
  /\ HandlerDone(h)
  /\ UNCHANGED <<today, events, rules, streamVars, used>>

(* The table is emptied and refilled; the CHECK undoes both if one of the  *)
(* rows has a confidence it refuses.                                       *)
RebuildWrite(h) ==
  /\ hpc[h] = "rebuild"
  /\ IF \E r \in rebuilt[h] : r.verdict.conf = "out"
       THEN UNCHANGED <<rows, txid, domains>>
       ELSE /\ rows' = rebuilt[h]
            /\ domains' = domains \union {r.domain : r \in rebuilt[h]}
            /\ txid' = txid + 1
  /\ HandlerDone(h)
  /\ UNCHANGED <<today, events, rules, streamVars, used>>

-----------------------------------------------------------------------------
HandlerAborts(h) ==
  /\ hpc[h] # "idle"
  /\ Spend("abort")
  /\ HandlerDone(h)
  /\ UNCHANGED <<dbVars, streamVars>>

ReconcileStep(h) ==
  \/ Reconcile(h)
  \/ ReadRules(h)
  \/ \E e \in plan[h] : SkipEntry(h, e) \/ ExpireChangedRule(h, e) \/ NewEntry(h, e)
  \/ CommitRule(h)
  \/ ReadDomains(h)
  \/ \E d \in targets[h] : ApplyRule(h, d)
  \/ RuleDone(h)
  \/ \E r \in known[h] : ExpireUndeclaredRule(h, r)
  \/ ReconcileDone(h)

RequeueStep(h) ==
  \/ RequeueFind(h)
  \/ RequeueLog(h)
  \/ \E d \in targets[h] : RequeuePublish(h, d) \/ RequeueUnpublished(h, d)
  \/ RequeueDone(h)

RebuildStep(h) == RebuildRead(h) \/ RebuildWrite(h)

AdminStep ==
  \/ AdminClassify
  \/ AdminExpire
  \/ \E h \in Handlers : AdminPattern(h) \/ ReconcileStep(h) \/ RequeueStep(h)
                         \/ RebuildStep(h) \/ HandlerAborts(h)
=============================================================================
