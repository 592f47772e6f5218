---------------------------- MODULE SystemProofs ----------------------------
(***************************************************************************)
(* Safety of System: any number of processors and of admin requests at the *)
(* same time, over any domains, classifiers, files and patterns, with any  *)
(* budget of faults.                                                       *)
(***************************************************************************)
EXTENDS System, QueueProcessorProofs

(* What a rebuild is about to write is in the log: events are never        *)
(* deleted, so a stale read of them explains its rows all the same.        *)
RebuiltLogged == \A h \in Handlers : \A r \in rebuilt[h] : ExplainedIn(r, events)

(* A reconcile run reads, and therefore expires, provisioned rules only.   *)
KnownProvisioned ==
  \A h \in Handlers : \A r \in known[h] : r.src = "provisioned_pattern"

HandlerInv == HandlerTypeOK /\ RebuiltLogged /\ KnownProvisioned

(* CoreInv is what QueueProcessorProofs shows of the processors; rows that *)
(* a rebuild wrote may have any confidence the table takes.                *)
SysInv == CoreInv /\ HandlerInv

-----------------------------------------------------------------------------
LEMMA InitSysInv == SystemInit => SysInv
<1> SUFFICES ASSUME SystemInit PROVE SysInv
  OBVIOUS
<1>1. CoreInv
  BY InitIInv DEF SystemInit, IInv
<1>2. HandlerInv
  BY DEF SystemInit, HandlerInit, HandlerInv, HandlerTypeOK, RebuiltLogged, KnownProvisioned
<1> QED BY <1>1, <1>2 DEF SysInv

(* The admin API leaves every processor where it is. *)
LEMMA CoreStays ==
  ASSUME CoreInv, UNCHANGED procVars, payload' = payload, DbInv', events \subseteq events',
         JetStreamTypeOK', BoundsTypeOK'
  PROVE  CoreInv'
  BY ProcessorsStay DEF CoreInv

(* Requests that only read, or end, or are refused. *)
LEMMA CoreReads ==
  ASSUME CoreInv, UNCHANGED <<dbVars, streamVars, procVars>>, BoundsTypeOK'
  PROVE  CoreInv' /\ events' = events
<1>1. DbInv' /\ events \subseteq events' /\ events' = events
  BY UnchangedInv DEF CoreInv, dbVars
<1>2. JetStreamTypeOK' /\ payload' = payload
  BY StreamKept DEF CoreInv, streamVars
<1> QED BY <1>1, <1>2, CoreStays

(* Transactions of the admin API, with what they spend. *)
LEMMA CoreWrites ==
  ASSUME CoreInv, UNCHANGED <<streamVars, procVars>>, DbInv', events \subseteq events',
         BoundsTypeOK'
  PROVE  CoreInv'
<1>1. JetStreamTypeOK' /\ payload' = payload
  BY StreamKept DEF CoreInv, streamVars
<1> QED BY <1>1, CoreStays

LEMMA AdminSpends ==
  ASSUME CoreInv, \/ used' = used
                  \/ \E k \in {"classify", "pattern", "expire", "reconcile", "requeue",
                               "rebuild", "abort"} : Spend(k)
  PROVE  BoundsTypeOK'
<1>1. CASE used' = used
  BY <1>1 DEF CoreInv, BoundsTypeOK
<1>2. ASSUME NEW k \in {"classify", "pattern", "expire", "reconcile", "requeue",
                        "rebuild", "abort"}, Spend(k)
      PROVE  BoundsTypeOK'
  <2>1. k \in Kinds
    BY AdminKindsAssumption
  <2> QED BY <1>2, <2>1, SpendType DEF CoreInv
<1> QED BY <1>1, <1>2

(* What a handler has read stays read, or is dropped. *)
LEMMA LocalsKept ==
  ASSUME HandlerInv, HandlerTypeOK', events \subseteq events',
         \A h \in Handlers : rebuilt'[h] \subseteq rebuilt[h] /\ known'[h] \subseteq known[h]
  PROVE  HandlerInv'
<1>1. RebuiltLogged'
  <2> SUFFICES ASSUME NEW h \in Handlers, NEW r \in rebuilt'[h]
               PROVE  \E e \in events' : Explains(e, r.domain, r.ctype, r.verdict) /\ e.id <= r.id
    BY DEF RebuiltLogged, ExplainedIn, Explains
  <2>1. r \in rebuilt[h]
    OBVIOUS
  <2>2. ExplainedIn(r, events)
    BY <2>1 DEF HandlerInv, RebuiltLogged
  <2> QED BY <2>2 DEF ExplainedIn
<1>2. KnownProvisioned'
  BY DEF HandlerInv, KnownProvisioned
<1> QED BY <1>1, <1>2 DEF HandlerInv

LEMMA HandlersStay ==
  ASSUME HandlerInv, UNCHANGED handlerVars, events \subseteq events'
  PROVE  HandlerInv'
<1>1. HandlerTypeOK'
  BY DEF HandlerInv, HandlerTypeOK, handlerVars
<1> QED BY <1>1, LocalsKept DEF handlerVars

LEMMA DoneKeeps ==
  ASSUME HandlerInv, NEW h \in Handlers, HandlerDone(h), events \subseteq events'
  PROVE  HandlerInv'
<1>1. HandlerTypeOK'
  BY DEF HandlerInv, HandlerTypeOK, HandlerDone, HandlerGoto
<1>2. \A g \in Handlers : rebuilt'[g] \subseteq rebuilt[g] /\ known'[g] \subseteq known[g]
  BY DEF HandlerInv, HandlerTypeOK, HandlerDone
<1> QED BY <1>1, <1>2, LocalsKept

LEMMA MakeType ==
  ASSUME HandlerTypeOK, NEW h \in Handlers, NEW e \in PatternEntry,
         NEW src \in {"provisioned_pattern", "admin"}, Make(h, e, src)
  PROVE  applying' \in [Handlers -> SUBSET Rule]
<1>1. [id |-> 0, covers |-> e.covers, ctype |-> e.ctype, match |-> e.match, src |-> src] \in Rule
  BY DEF PatternEntry, Rule
<1> QED BY <1>1 DEF HandlerTypeOK, Make
-----------------------------------------------------------------------------
(* POST /classify and POST /expire *)

LEMMA AdminClassifySys ==
  ASSUME SysInv, AdminClassify, UNCHANGED procVars
  PROVE  SysInv'
<1>1. PICK a \in AdminVerdicts : ApplyAdminClassification(a.domain, a.ctype, a.match, a.ttl)
  BY DEF AdminClassify
<1>2. a.domain \in Domains /\ a.ctype \in Types /\ a.match \in BOOLEAN /\ a.ttl \in Nat
  BY RequestsAssumption
<1>3. DbInv' /\ events \subseteq events'
  BY <1>1, <1>2, ApplyAdminClassificationInv DEF SysInv, CoreInv
<1>4. BoundsTypeOK'
  BY AdminSpends DEF AdminClassify, SysInv
<1> QED BY <1>3, <1>4, CoreWrites, HandlersStay DEF AdminClassify, SysInv

LEMMA AdminExpireSys ==
  ASSUME SysInv, AdminExpire, UNCHANGED procVars
  PROVE  SysInv'
<1>1. PICK d \in Domains : DomainExpire(d)
  BY DEF AdminExpire
<1>2. DbInv' /\ events \subseteq events'
  BY <1>1, DomainExpireInv DEF SysInv, CoreInv
<1>3. BoundsTypeOK'
  BY AdminSpends DEF AdminExpire, SysInv
<1> QED BY <1>2, <1>3, CoreWrites, HandlersStay DEF AdminExpire, SysInv

LEMMA AdminPatternSys ==
  ASSUME SysInv, NEW h \in Handlers, AdminPattern(h), UNCHANGED procVars
  PROVE  SysInv'
<1>1. PICK e \in PatternEntry : Make(h, e, "admin")
  BY RequestsAssumption DEF AdminPattern
<1>2. HandlerTypeOK'
  BY <1>1, MakeType DEF SysInv, HandlerInv, HandlerTypeOK, AdminPattern, HandlerGoto
<1>3. BoundsTypeOK'
  BY AdminSpends DEF AdminPattern, SysInv
<1>4. CoreInv' /\ events' = events
  BY <1>3, CoreReads DEF AdminPattern, SysInv
<1> QED BY <1>2, <1>4, LocalsKept DEF AdminPattern, SysInv
-----------------------------------------------------------------------------
(* POST /reconcile *)

LEMMA FileType ==
  ASSUME NEW file \in ProvisionedFiles
  PROVE  /\ file.exact \subseteq [domain : Domains, ctype : Types, match : BOOLEAN]
         /\ file.patterns \in SUBSET PatternEntry
         /\ \A e, f \in file.exact : SameKey(e, f) => e = f
  BY RequestsAssumption DEF ExactEntry

LEMMA ReconcileSys ==
  ASSUME SysInv, NEW h \in Handlers, Reconcile(h), UNCHANGED procVars
  PROVE  SysInv'
<1>1. PICK file \in ProvisionedFiles :
        /\ ReconcileProvisionedClassifications(file.exact)
        /\ desired' = [desired EXCEPT ![h] = file.patterns]
        /\ plan' = [plan EXCEPT ![h] = file.patterns]
  BY DEF Reconcile, ReconcileFile
<1>2. DbInv' /\ events \subseteq events'
  BY <1>1, FileType, ReconcileInv DEF SysInv, CoreInv
<1>3. HandlerTypeOK'
  BY <1>1, FileType DEF SysInv, HandlerInv, HandlerTypeOK, Reconcile, ReconcileFile, HandlerGoto
<1>4. BoundsTypeOK'
  BY AdminSpends DEF Reconcile, ReconcileFile, SysInv
<1> QED BY <1>2, <1>3, <1>4, CoreWrites, LocalsKept DEF Reconcile, ReconcileFile, SysInv

LEMMA ReadRulesSys ==
  ASSUME SysInv, NEW h \in Handlers, ReadRules(h), UNCHANGED procVars
  PROVE  SysInv'
<1>1. PICK map \in SUBSET {r \in rules : r.src = "provisioned_pattern"} :
        known' = [known EXCEPT ![h] = map]
  BY DEF ReadRules
<1>2. map \subseteq Rule
  BY <1>1 DEF SysInv, CoreInv, DbInv, DatabaseTypeOK
<1>3. HandlerTypeOK'
  BY <1>1, <1>2 DEF SysInv, HandlerInv, HandlerTypeOK, ReadRules, HandlerGoto
<1>4. CoreInv' /\ events' = events
  BY AdminSpends, CoreReads DEF ReadRules, SysInv
<1>5. KnownProvisioned'
  BY <1>1 DEF SysInv, HandlerInv, HandlerTypeOK, KnownProvisioned
<1>6. RebuiltLogged'
  BY <1>4 DEF SysInv, HandlerInv, RebuiltLogged, ReadRules, ExplainedIn, Explains
<1> QED BY <1>3, <1>4, <1>5, <1>6 DEF SysInv, HandlerInv

LEMMA SkipEntrySys ==
  ASSUME SysInv, NEW h \in Handlers, NEW e, SkipEntry(h, e), UNCHANGED procVars
  PROVE  SysInv'
<1>1. HandlerTypeOK'
  BY DEF SysInv, HandlerInv, HandlerTypeOK, SkipEntry
<1>2. CoreInv' /\ events' = events
  BY AdminSpends, CoreReads DEF SkipEntry, SysInv
<1> QED BY <1>1, <1>2, LocalsKept DEF SkipEntry, SysInv

LEMMA PlannedType ==
  ASSUME SysInv, NEW h \in Handlers, NEW e \in plan[h]
  PROVE  e \in PatternEntry
  BY DEF SysInv, HandlerInv, HandlerTypeOK

LEMMA ExpireChangedRuleSys ==
  ASSUME SysInv, NEW h \in Handlers, NEW e \in plan[h], ExpireChangedRule(h, e),
         UNCHANGED procVars
  PROVE  SysInv'
<1>1. DbInv' /\ events \subseteq events'
  BY ExpireRuleInv DEF ExpireChangedRule, SysInv, CoreInv
<1>2. applying' \in [Handlers -> SUBSET Rule]
  BY PlannedType, MakeType DEF ExpireChangedRule, SysInv, HandlerInv
<1>3. HandlerTypeOK'
  BY <1>2 DEF SysInv, HandlerInv, HandlerTypeOK, ExpireChangedRule, HandlerGoto
<1>4. BoundsTypeOK'
  BY AdminSpends DEF ExpireChangedRule, SysInv
<1> QED BY <1>1, <1>3, <1>4, CoreWrites, LocalsKept DEF ExpireChangedRule, SysInv

LEMMA NewEntrySys ==
  ASSUME SysInv, NEW h \in Handlers, NEW e \in plan[h], NewEntry(h, e), UNCHANGED procVars
  PROVE  SysInv'
<1>1. applying' \in [Handlers -> SUBSET Rule]
  BY PlannedType, MakeType DEF NewEntry, SysInv, HandlerInv
<1>2. HandlerTypeOK'
  BY <1>1 DEF SysInv, HandlerInv, HandlerTypeOK, NewEntry, HandlerGoto
<1>3. CoreInv' /\ events' = events
  BY AdminSpends, CoreReads DEF NewEntry, SysInv
<1> QED BY <1>2, <1>3, LocalsKept DEF NewEntry, SysInv

LEMMA ApplyingType ==
  ASSUME SysInv, NEW h \in Handlers, NEW r \in applying[h]
  PROVE  r \in Rule
  BY DEF SysInv, HandlerInv, HandlerTypeOK

LEMMA CommitRuleSys ==
  ASSUME SysInv, NEW h \in Handlers, CommitRule(h), UNCHANGED procVars
  PROVE  SysInv'
<1>1. PICK r \in applying[h] :
        /\ InsertRule(r)
        /\ \/ HandlerDone(h)
           \/ /\ HandlerGoto(h, "domains")
              /\ UNCHANGED <<desired, plan, known, applying, targets, rebuilt>>
  BY DEF CommitRule
<1>2. DbInv' /\ events \subseteq events'
  BY <1>1, ApplyingType, InsertRuleInv DEF SysInv, CoreInv
<1>3. HandlerInv'
  <2>1. CASE HandlerDone(h)
    BY <2>1, <1>2, DoneKeeps DEF SysInv
  <2>2. CASE HandlerGoto(h, "domains") /\ UNCHANGED <<desired, plan, known, applying, targets, rebuilt>>
    <3>1. HandlerTypeOK'
      BY <2>2 DEF SysInv, HandlerInv, HandlerTypeOK, HandlerGoto
    <3> QED BY <2>2, <3>1, <1>2, LocalsKept DEF SysInv
  <2> QED BY <1>1, <2>1, <2>2
<1>4. BoundsTypeOK'
  BY AdminSpends DEF CommitRule, SysInv
<1> QED BY <1>2, <1>3, <1>4, CoreWrites DEF CommitRule, SysInv

LEMMA ReadDomainsSys ==
  ASSUME SysInv, NEW h \in Handlers, ReadDomains(h), UNCHANGED procVars
  PROVE  SysInv'
<1>1. domains \subseteq Domains
  BY DEF SysInv, CoreInv, DbInv, DatabaseTypeOK
<1>2. HandlerTypeOK'
  BY <1>1 DEF SysInv, HandlerInv, HandlerTypeOK, ReadDomains, HandlerGoto
<1>3. CoreInv' /\ events' = events
  BY AdminSpends, CoreReads DEF ReadDomains, SysInv
<1> QED BY <1>2, <1>3, LocalsKept DEF ReadDomains, SysInv

LEMMA ApplyRuleSys ==
  ASSUME SysInv, NEW h \in Handlers, NEW d \in targets[h], ApplyRule(h, d),
         UNCHANGED procVars
  PROVE  SysInv'
<1>1. PICK r \in applying[h] : ApplyPatternClassification(d, r.ctype, r)
  BY DEF ApplyRule
<1>2. r \in Rule /\ r.ctype \in Types /\ d \in Domains
  BY ApplyingType DEF SysInv, HandlerInv, HandlerTypeOK, Rule
<1>3. DbInv' /\ events \subseteq events'
  BY <1>1, <1>2, ApplyPatternClassificationInv DEF SysInv, CoreInv
<1>4. HandlerTypeOK'
  BY DEF SysInv, HandlerInv, HandlerTypeOK, ApplyRule
<1>5. BoundsTypeOK'
  BY AdminSpends DEF ApplyRule, SysInv
<1> QED BY <1>3, <1>4, <1>5, CoreWrites, LocalsKept DEF ApplyRule, SysInv

LEMMA RuleDoneSys ==
  ASSUME SysInv, NEW h \in Handlers, RuleDone(h), UNCHANGED procVars
  PROVE  SysInv'
<1>1. CoreInv' /\ events' = events
  BY AdminSpends, CoreReads DEF RuleDone, SysInv
<1>2. CASE HandlerDone(h)
  BY <1>1, <1>2, DoneKeeps DEF SysInv
<1>3. CASE /\ applying' = [applying EXCEPT ![h] = {}]
           /\ HandlerGoto(h, "entries")
           /\ UNCHANGED <<desired, plan, known, targets, rebuilt>>
  <2>1. HandlerTypeOK'
    BY <1>3 DEF SysInv, HandlerInv, HandlerTypeOK, HandlerGoto
  <2> QED BY <1>1, <1>3, <2>1, LocalsKept DEF SysInv
<1> QED BY <1>2, <1>3 DEF RuleDone

LEMMA ExpireUndeclaredRuleSys ==
  ASSUME SysInv, NEW h \in Handlers, NEW r, ExpireUndeclaredRule(h, r), UNCHANGED procVars
  PROVE  SysInv'
<1>1. DbInv' /\ events \subseteq events'
  BY ExpireRuleInv DEF ExpireUndeclaredRule, SysInv, CoreInv
<1>2. HandlerTypeOK' /\ \A g \in Handlers : known'[g] \subseteq known[g]
  BY DEF SysInv, HandlerInv, HandlerTypeOK, ExpireUndeclaredRule
<1>3. BoundsTypeOK'
  BY AdminSpends DEF ExpireUndeclaredRule, SysInv
<1> QED BY <1>1, <1>2, <1>3, CoreWrites, LocalsKept DEF ExpireUndeclaredRule, SysInv

LEMMA ReconcileDoneSys ==
  ASSUME SysInv, NEW h \in Handlers, ReconcileDone(h), UNCHANGED procVars
  PROVE  SysInv'
<1>1. CoreInv' /\ events' = events
  BY AdminSpends, CoreReads DEF ReconcileDone, SysInv
<1> QED BY <1>1, DoneKeeps DEF ReconcileDone, SysInv
-----------------------------------------------------------------------------
(* POST /requeue *)

LEMMA ErroredAreDomains ==
  ASSUME NEW T
  PROVE  ErroredDomains(T) \subseteq Domains
<1>1. \A k \in ErroredClassifications : k[1] \in Domains
  BY DEF ErroredClassifications
<1> QED BY <1>1 DEF ErroredDomains

LEMMA RequeueFindSys ==
  ASSUME SysInv, NEW h \in Handlers, RequeueFind(h), UNCHANGED procVars
  PROVE  SysInv'
<1>1. PICK S : targets' = [targets EXCEPT ![h] = S] /\ S \subseteq Domains
  <2>1. PICK S \in {{d} : d \in ErroredDomains(Types)}
                 \union {ErroredDomains({t}) : t \in Types} \union {ErroredDomains(Types)} :
          targets' = [targets EXCEPT ![h] = S]
    BY DEF RequeueFind
  <2> QED BY <2>1, ErroredAreDomains
<1>2. HandlerTypeOK'
  BY <1>1 DEF SysInv, HandlerInv, HandlerTypeOK, RequeueFind, HandlerGoto
<1>3. CoreInv' /\ events' = events
  BY AdminSpends, CoreReads DEF RequeueFind, SysInv
<1> QED BY <1>2, <1>3, LocalsKept DEF RequeueFind, SysInv

LEMMA RequeueLogSys ==
  ASSUME SysInv, NEW h \in Handlers, RequeueLog(h), UNCHANGED procVars
  PROVE  SysInv'
<1>1. targets[h] \in SUBSET Domains
  BY DEF SysInv, HandlerInv, HandlerTypeOK
<1>2. DbInv' /\ events \subseteq events'
  BY <1>1, DomainRequeueInv DEF RequeueLog, SysInv, CoreInv
<1>3. HandlerTypeOK'
  BY DEF SysInv, HandlerInv, HandlerTypeOK, RequeueLog, HandlerGoto
<1>4. BoundsTypeOK'
  BY AdminSpends DEF RequeueLog, SysInv
<1> QED BY <1>2, <1>3, <1>4, CoreWrites, LocalsKept DEF RequeueLog, SysInv

LEMMA RequeuePublishSys ==
  ASSUME SysInv, NEW h \in Handlers, NEW d, RequeuePublish(h, d), UNCHANGED procVars
  PROVE  SysInv'
<1>1. DbInv' /\ events' = events
  BY UnchangedInv DEF RequeuePublish, SysInv, CoreInv, dbVars
<1>2. JetStreamTypeOK' /\ payload' = payload
  BY DEF RequeuePublish, Send, SysInv, CoreInv, JetStreamTypeOK, MessageIds
<1>3. HandlerTypeOK'
  BY DEF SysInv, HandlerInv, HandlerTypeOK, RequeuePublish
<1>4. BoundsTypeOK'
  BY AdminSpends DEF RequeuePublish, SysInv
<1> QED BY <1>1, <1>2, <1>3, <1>4, CoreStays, LocalsKept DEF RequeuePublish, SysInv

LEMMA RequeueUnpublishedSys ==
  ASSUME SysInv, NEW h \in Handlers, NEW d, RequeueUnpublished(h, d), UNCHANGED procVars
  PROVE  SysInv'
<1>1. HandlerTypeOK'
  BY DEF SysInv, HandlerInv, HandlerTypeOK, RequeueUnpublished
<1>2. BoundsTypeOK'
  BY AdminSpends DEF RequeueUnpublished, SysInv
<1>3. CoreInv' /\ events' = events
  BY <1>2, CoreReads DEF RequeueUnpublished, SysInv
<1> QED BY <1>1, <1>3, LocalsKept DEF RequeueUnpublished, SysInv

LEMMA RequeueDoneSys ==
  ASSUME SysInv, NEW h \in Handlers, RequeueDone(h), UNCHANGED procVars
  PROVE  SysInv'
<1>1. CoreInv' /\ events' = events
  BY AdminSpends, CoreReads DEF RequeueDone, SysInv
<1> QED BY <1>1, DoneKeeps DEF RequeueDone, SysInv
-----------------------------------------------------------------------------
(* POST /reprojection *)

LEMMA RowFromEventType ==
  ASSUME NEW e \in Event, e.action = "classified", e.ctype # NoType
  PROVE  /\ RowFromEvent(e, TtlDays) \in Row
         /\ Explains(e, RowFromEvent(e, TtlDays).domain, RowFromEvent(e, TtlDays).ctype,
                     RowFromEvent(e, TtlDays).verdict)
         /\ RowFromEvent(e, TtlDays).id = e.id
  BY TtlAssumption DEF RowFromEvent, Event, Row, Explains

LEMMA RebuildReadSys ==
  ASSUME SysInv, NEW h \in Handlers, RebuildRead(h), UNCHANGED procVars
  PROVE  SysInv'
<1> DEFINE R == {RowFromEvent(e, TtlDays) : e \in LatestClassifiedEvents}
<1>1. \A e \in LatestClassifiedEvents :
        e \in events /\ e \in Event /\ e.action = "classified" /\ e.ctype # NoType /\ e.id \in Nat
  BY DEF LatestClassifiedEvents, ClassifiedEvents, SysInv, CoreInv, DbInv, DatabaseTypeOK, Event
<1>2. R \subseteq Row /\ \A r \in R : ExplainedIn(r, events)
  <2> SUFFICES ASSUME NEW e \in LatestClassifiedEvents
               PROVE  /\ RowFromEvent(e, TtlDays) \in Row
                      /\ ExplainedIn(RowFromEvent(e, TtlDays), events)
    OBVIOUS
  <2>1. e.id <= e.id
    BY <1>1
  <2> QED BY <1>1, <2>1, RowFromEventType DEF ExplainedIn
<1>3. rebuilt' = [rebuilt EXCEPT ![h] = R]
  BY DEF RebuildRead
<1> HIDE DEF R
<1>4. HandlerTypeOK'
  BY <1>2, <1>3 DEF SysInv, HandlerInv, HandlerTypeOK, RebuildRead, HandlerGoto
<1>5. BoundsTypeOK'
  BY AdminSpends DEF RebuildRead, SysInv
<1>6. CoreInv' /\ events' = events
  BY <1>5, CoreReads DEF RebuildRead, SysInv
<1>7. RebuiltLogged'
  BY <1>2, <1>3, <1>6 DEF SysInv, HandlerInv, HandlerTypeOK, RebuiltLogged, ExplainedIn, Explains
<1>8. KnownProvisioned'
  BY DEF SysInv, HandlerInv, KnownProvisioned, RebuildRead
<1> QED BY <1>4, <1>6, <1>7, <1>8 DEF SysInv, HandlerInv

(* The rows were computed from a log that has only grown since. *)
LEMMA RebuildWriteSys ==
  ASSUME SysInv, NEW h \in Handlers, RebuildWrite(h), UNCHANGED procVars
  PROVE  SysInv'
<1>1. UNCHANGED <<today, events, rules, streamVars, used>> /\ HandlerDone(h)
  BY DEF RebuildWrite
<1>2. DbInv' /\ events \subseteq events'
  <2>1. CASE UNCHANGED <<rows, txid, domains>>
    BY <1>1, <2>1, UnchangedInv DEF dbVars, SysInv, CoreInv
  <2>2. CASE /\ rows' = rebuilt[h]
             /\ domains' = domains \union {r.domain : r \in rebuilt[h]}
             /\ txid' = txid + 1
    <3>1. rebuilt[h] \in SUBSET Row /\ \A r \in rebuilt[h] : ExplainedIn(r, events)
      BY DEF SysInv, HandlerInv, HandlerTypeOK, RebuiltLogged
    <3>2. DbInv
      BY DEF SysInv, CoreInv
    <3> QED BY <1>1, <2>2, <3>1, <3>2, ReplaceRowsInv
  <2> QED BY <2>1, <2>2 DEF RebuildWrite
<1>3. BoundsTypeOK'
  BY <1>1, AdminSpends DEF SysInv
<1> QED BY <1>1, <1>2, <1>3, CoreWrites, DoneKeeps DEF SysInv

LEMMA HandlerAbortsSys ==
  ASSUME SysInv, NEW h \in Handlers, HandlerAborts(h), UNCHANGED procVars
  PROVE  SysInv'
<1>1. BoundsTypeOK'
  BY AdminSpends DEF HandlerAborts, SysInv
<1>2. CoreInv' /\ events' = events
  BY <1>1, CoreReads DEF HandlerAborts, SysInv
<1> QED BY <1>2, DoneKeeps DEF HandlerAborts, SysInv
-----------------------------------------------------------------------------
(* All steps *)

LEMMA ReconcileStepSys ==
  ASSUME SysInv, NEW h \in Handlers, ReconcileStep(h), UNCHANGED procVars
  PROVE  SysInv'
<1>1. CASE Reconcile(h) BY <1>1, ReconcileSys
<1>2. CASE ReadRules(h) BY <1>2, ReadRulesSys
<1>3. CASE \E e \in plan[h] : SkipEntry(h, e) \/ ExpireChangedRule(h, e) \/ NewEntry(h, e)
  BY <1>3, SkipEntrySys, ExpireChangedRuleSys, NewEntrySys
<1>4. CASE CommitRule(h) BY <1>4, CommitRuleSys
<1>5. CASE ReadDomains(h) BY <1>5, ReadDomainsSys
<1>6. CASE \E d \in targets[h] : ApplyRule(h, d) BY <1>6, ApplyRuleSys
<1>7. CASE RuleDone(h) BY <1>7, RuleDoneSys
<1>8. CASE \E r \in known[h] : ExpireUndeclaredRule(h, r) BY <1>8, ExpireUndeclaredRuleSys
<1>9. CASE ReconcileDone(h) BY <1>9, ReconcileDoneSys
<1> QED BY <1>1, <1>2, <1>3, <1>4, <1>5, <1>6, <1>7, <1>8, <1>9 DEF ReconcileStep

LEMMA AdminStepSys ==
  ASSUME SysInv, AdminStep, UNCHANGED procVars
  PROVE  SysInv'
<1>1. CASE AdminClassify BY <1>1, AdminClassifySys
<1>2. CASE AdminExpire BY <1>2, AdminExpireSys
<1>3. ASSUME NEW h \in Handlers, AdminPattern(h) PROVE SysInv'
  BY <1>3, AdminPatternSys
<1>4. ASSUME NEW h \in Handlers, ReconcileStep(h) PROVE SysInv'
  BY <1>4, ReconcileStepSys
<1>5. ASSUME NEW h \in Handlers, RequeueStep(h) PROVE SysInv'
  BY <1>5, RequeueFindSys, RequeueLogSys, RequeuePublishSys, RequeueUnpublishedSys,
     RequeueDoneSys DEF RequeueStep
<1>6. ASSUME NEW h \in Handlers, RebuildStep(h) \/ HandlerAborts(h) PROVE SysInv'
  BY <1>6, RebuildReadSys, RebuildWriteSys, HandlerAbortsSys DEF RebuildStep
<1> QED BY <1>1, <1>2, <1>3, <1>4, <1>5, <1>6 DEF AdminStep
-----------------------------------------------------------------------------
(* What a step writes.  Every step of the system appends to the log, and   *)
(* but for the transactions of an expiry, a reconcile and a rebuild it     *)
(* either leaves the projection alone, or decides: it ends rows that are   *)
(* of the classifiers and adds rows that are not provisioned, with their   *)
(* events unless an LLM said so.                                           *)

Appends ==
  /\ events \subseteq events' /\ domains \subseteq domains'
  /\ txid' \in {txid, txid + 1}
  /\ \A e \in events' \ events : e.id = txid + 1

Unexpired == {r \in rows : today < r.validUntil}

Revises(S, N) ==
  /\ S \subseteq Unexpired
  /\ rows' = Expire(S) \union N
  /\ \A n \in N : n.validOn = today
  /\ today' = today

OfClassifiers(S) == \A r \in S : r.verdict.src \in {"llm_prompt", "config_exclude_rule"}

LoggedNow(r) ==
  \E e \in events' : Explains(e, r.domain, r.ctype, r.verdict) /\ e.id = txid + 1

Passes == rows' = rows /\ today' \in {today, today + 1}

Decides ==
  \E S, N :
    /\ Revises(S, N)
    /\ OfClassifiers(S)
    /\ \A n \in N : n.verdict.src # "provisioned"
    /\ \A n \in N : n.verdict.src = "llm_prompt" \/ LoggedNow(n)

NothingExpired == \A e \in events' \ events : e.action # "expired"

OrdinaryWrite == Appends /\ NothingExpired /\ (Passes \/ Decides)

LEMMA AppendsByInsert ==
  ASSUME NEW E, InsertEvents(E), \A e \in E : e.id = txid + 1
  PROVE  Appends
  BY DEF Appends, InsertEvents

LEMMA InsertEventWrites ==
  ASSUME NEW d, NEW a, a # "expired", NEW t, InsertEvent(d, a, t)
  PROVE  OrdinaryWrite /\ rules' = rules
<1> DEFINE e0 == NewEvent(d, a, t, NoVerdict)
<1>1. e0.id = txid + 1 /\ e0.action = a
  BY DEF NewEvent
<1>2. InsertEvents({e0}) /\ UNCHANGED <<today, rows, rules>>
  BY DEF InsertEvent
<1> HIDE DEF e0
<1>3. Appends
  BY <1>1, <1>2, AppendsByInsert
<1>4. NothingExpired
  BY <1>1, <1>2 DEF NothingExpired, InsertEvents
<1> QED BY <1>2, <1>3, <1>4 DEF OrdinaryWrite, Passes

LEMMA InsertClassifiedEventWrites ==
  ASSUME NEW d, NEW t, NEW v, InsertClassifiedEvent(d, t, v)
  PROVE  OrdinaryWrite /\ rules' = rules
<1> DEFINE e0 == NewEvent(d, "classified", t, v)
<1>1. e0.id = txid + 1 /\ e0.action # "expired"
  BY DEF NewEvent
<1>2. InsertEvents({e0}) /\ UNCHANGED <<today, rows, rules>>
  BY DEF InsertClassifiedEvent
<1> HIDE DEF e0
<1>3. Appends
  BY <1>1, <1>2, AppendsByInsert
<1>4. NothingExpired
  BY <1>1, <1>2 DEF NothingExpired, InsertEvents
<1> QED BY <1>2, <1>3, <1>4 DEF OrdinaryWrite, Passes

LEMMA ClassificationStoreWrites ==
  ASSUME NEW d, NEW t, NEW v, v.src = "llm_prompt", ClassificationStore(d, t, v)
  PROVE  OrdinaryWrite /\ rules' = rules
<1> DEFINE N == {NewRow(d, t, v, TtlDays)}
<1>1. rows' = Expire({}) \union N
  BY DEF ClassificationStore, Expire
<1>2. \A n \in N : n.validOn = today /\ n.verdict.src = "llm_prompt"
  BY DEF NewRow
<1>3. events' = events /\ today' = today /\ rules' = rules /\ txid' = txid + 1
      /\ domains \subseteq domains'
  BY DEF ClassificationStore
<1> HIDE DEF N
<1>4. Revises({}, N) /\ OfClassifiers({})
  BY <1>1, <1>2, <1>3 DEF Revises, OfClassifiers
<1>5. Decides
  BY <1>2, <1>4 DEF Decides
<1>6. Appends /\ NothingExpired
  BY <1>3 DEF Appends, NothingExpired
<1> QED BY <1>3, <1>5, <1>6 DEF OrdinaryWrite

LEMMA ClassifyWrites ==
  ASSUME NEW d, NEW t, NEW v, v.src # "provisioned", NEW ttl,
         NEW S, S \subseteq Unexpired, OfClassifiers(S),
         Classify(d, t, v, ttl, S)
  PROVE  OrdinaryWrite /\ rules' = rules
<1> DEFINE r0 == NewRow(d, t, v, ttl)
           e0 == NewEvent(d, "classified", t, v)
<1>1. /\ rows' = Expire(S) \union {r0} /\ InsertEvents({e0})
      /\ UNCHANGED <<today, rules>>
  BY DEF Classify
<1>2. /\ r0.validOn = today /\ r0.domain = d /\ r0.ctype = t /\ r0.verdict = v
      /\ e0.id = txid + 1 /\ e0.action # "expired" /\ Explains(e0, d, t, v)
  BY DEF NewRow, NewEvent, Explains
<1> HIDE DEF r0, e0
<1>3. Revises(S, {r0})
  BY <1>1, <1>2 DEF Revises
<1>4. LoggedNow(r0)
  BY <1>1, <1>2 DEF LoggedNow, InsertEvents
<1>5. Decides
  BY <1>2, <1>3, <1>4 DEF Decides
<1>6. Appends
  BY <1>1, <1>2, AppendsByInsert
<1>7. NothingExpired
  BY <1>1, <1>2 DEF NothingExpired, InsertEvents
<1> QED BY <1>1, <1>5, <1>6, <1>7 DEF OrdinaryWrite

LEMMA DisplacedWritten ==
  ASSUME NEW d, NEW t
  PROVE  Displaced(d, t) \subseteq Unexpired /\ OfClassifiers(Displaced(d, t))
  BY DEF Displaced, RowsOf, Unexpired, OfClassifiers

LEMMA ApplyPatternWrites ==
  ASSUME NEW d, NEW t, NEW rule \in Rule, ApplyPatternClassification(d, t, rule)
  PROVE  OrdinaryWrite /\ rules' = rules
<1> DEFINE v == [match |-> rule.match, conf |-> "enough", src |-> rule.src]
<1>1. v.src # "provisioned"
  BY DEF Rule
<1>2. Classify(d, t, v, Forever, Displaced(d, t))
  BY DEF ApplyPatternClassification
<1> HIDE DEF v
<1> QED BY <1>1, <1>2, DisplacedWritten, ClassifyWrites

LEMMA NoneDisplaced == {} \subseteq Unexpired /\ OfClassifiers({})
  BY DEF OfClassifiers

LEMMA ExcludeRuleWrites ==
  ASSUME NEW d, NEW t, ExcludeRuleClassify(d, t)
  PROVE  OrdinaryWrite /\ rules' = rules
<1> DEFINE v == [match |-> FALSE, conf |-> "enough", src |-> "config_exclude_rule"]
<1>1. v.src # "provisioned" /\ Classify(d, t, v, TtlDays, {})
  BY DEF ExcludeRuleClassify
<1> HIDE DEF v
<1> QED BY <1>1, NoneDisplaced, ClassifyWrites

LEMMA AdminClassificationWrites ==
  ASSUME NEW d, NEW t, NEW m, NEW ttl, ApplyAdminClassification(d, t, m, ttl)
  PROVE  OrdinaryWrite /\ rules' = rules
<1> DEFINE v == [match |-> m, conf |-> "enough", src |-> "admin"]
<1>1. v.src # "provisioned" /\ Classify(d, t, v, ttl, {})
  BY DEF ApplyAdminClassification
<1> HIDE DEF v
<1> QED BY <1>1, NoneDisplaced, ClassifyWrites

LEMMA UnchangedWrites ==
  ASSUME UNCHANGED dbVars
  PROVE  OrdinaryWrite /\ rules' = rules
  BY DEF dbVars, OrdinaryWrite, Appends, NothingExpired, Passes

(* The processors write nothing else, and no rules. *)
LEMMA ProcessorWrites ==
  ASSUME CoreInv, [Next]_qpVars
  PROVE  OrdinaryWrite /\ rules' = rules
<1>1. ASSUME NEW p \in Processors, ProcessorStep(p) PROVE OrdinaryWrite /\ rules' = rules
  <2>1. CASE Start(p) \/ Fetch(p) \/ Receive(p) \/ ReadStates(p) \/ ReadOverride(p) \/ Ack(p)
             \/ StoreRefused(p)
    BY <2>1, UnchangedWrites
       DEF Start, Fetch, Receive, ReadStates, ReadOverride, Ack, StoreRefused, Abort
  <2>2. ASSUME NEW t \in Classifiers, ApplyPattern(p, t) PROVE OrdinaryWrite /\ rules' = rules
    BY <2>2, ApplyPatternWrites DEF ApplyPattern, CoreInv, ProcessorTypeOK
  <2>3. ASSUME NEW t \in Classifiers, ApplyExclude(p, t) PROVE OrdinaryWrite /\ rules' = rules
    BY <2>3, ExcludeRuleWrites DEF ApplyExclude
  <2>4. ASSUME NEW t \in Classifiers, StartClassifier(p, t) \/ PromptUnreadable(p, t)
        PROVE  OrdinaryWrite /\ rules' = rules
    BY <2>4, InsertEventWrites DEF StartClassifier, PromptUnreadable
  <2>5. ASSUME NEW m \in BOOLEAN, NEW c \in Confidence, ClassifierSucceeds(p, m, c)
        PROVE  OrdinaryWrite /\ rules' = rules
    BY <2>5, InsertClassifiedEventWrites DEF ClassifierSucceeds
  <2>6. CASE ClassifierFails(p)
    BY <2>6, InsertEventWrites DEF ClassifierFails
  <2>7. CASE StoreVerdict(p)
    <3>1. job[p].verdict.src = "llm_prompt"
      BY DEF CoreInv, ProcessorTypeOK, Job, LlmVerdict
    <3> QED BY <2>7, <3>1, ClassificationStoreWrites DEF StoreVerdict
  <2> QED BY <1>1, <2>1, <2>2, <2>3, <2>4, <2>5, <2>6, <2>7
          DEF ProcessorStep, Processing, Classifying
<1>2. CASE Fault
  <2>1. CASE DayPasses
    BY <2>1 DEF DayPasses, NewDay, OrdinaryWrite, Appends, NothingExpired, Passes
  <2>2. CASE UNCHANGED dbVars
    BY <2>2, UnchangedWrites
  <2> QED BY <1>2, <2>1, <2>2 DEF Fault, Crash, DatabaseFails, AckFails, RedeliverHeld, Abort
<1>3. CASE (\E i \in MessageIds : RedeliverLost(i)) \/ DomainSeen
  BY <1>3, UnchangedWrites DEF RedeliverLost, DomainSeen
<1>4. CASE UNCHANGED qpVars
  BY <1>4, UnchangedWrites DEF qpVars, dbVars
<1> QED BY <1>1, <1>2, <1>3, <1>4 DEF Next
-----------------------------------------------------------------------------
LEMMA NextSysInv == SysInv /\ [SystemNext]_systemVars => SysInv'
<1> SUFFICES ASSUME SysInv, [SystemNext]_systemVars PROVE SysInv'
  OBVIOUS
<1>1. ASSUME [Next]_qpVars, UNCHANGED handlerVars PROVE SysInv'
  <2>1. CoreInv'
    BY <1>1, NextCore DEF SysInv
  <2>2. events \subseteq events'
    BY <1>1, ProcessorWrites DEF SysInv, OrdinaryWrite, Appends
  <2> QED BY <1>1, <2>1, <2>2, HandlersStay DEF SysInv
<1>2. CASE AdminStep /\ UNCHANGED procVars
  BY <1>2, AdminStepSys
<1> QED BY <1>1, <1>2 DEF SystemNext, systemVars

(* The inductive invariant of processors and admin requests together holds *)
(* of every behaviour.                                                     *)
THEOREM SystemInvariance == SystemSpec => []SysInv
<1> QED BY InitSysInv, NextSysInv, PTL DEF SystemSpec

(* Whatever processors and admin requests do to each other, every table,   *)
(* message and local variable keeps its type: in particular no row begins  *)
(* before the epoch, and no action of the log is misspelled.               *)
THEOREM SystemTypes == SystemSpec => []SystemTypeOK
<1>1. SysInv => SystemTypeOK
  BY DEF SysInv, CoreInv, DbInv, HandlerInv, SystemTypeOK, TypeOK
<1> QED BY <1>1, SystemInvariance, PTL

(* The log explains the projection with any number of admins and           *)
(* processors at work, rebuilds from a stale read of the log included.     *)
THEOREM SystemRowsExplained == SystemSpec => []RowsExplained
<1>1. SysInv => RowsExplained
  BY DEF SysInv, CoreInv, DbInv
<1> QED BY <1>1, SystemInvariance, PTL

(* No event and no row speaks of a domain that the domains table lacks,    *)
(* whichever of the services wrote it.                                     *)
THEOREM SystemDomainsKnown == SystemSpec => []DomainsKnown
<1>1. SysInv => DomainsKnown
  BY DEF SysInv, CoreInv, DbInv
<1> QED BY <1>1, SystemInvariance, PTL
-----------------------------------------------------------------------------
(* The other three transactions, and all of them together. *)

ExpireWrites == Spend("expire") /\ \E d \in Domains : DomainExpire(d)

ReconcileWrites ==
  \E file \in ProvisionedFiles : ReconcileProvisionedClassifications(file.exact)

RebuildWrites == \E h \in Handlers : RebuildWrite(h)

LEMMA InsertRuleWrites ==
  ASSUME NEW r, InsertRule(r) \/ ExpireRule(r)
  PROVE  OrdinaryWrite
  BY DEF InsertRule, ExpireRule, OrdinaryWrite, Appends, NothingExpired, Passes

LEMMA RequeueWrites ==
  ASSUME NEW S, DomainRequeue(S)
  PROVE  OrdinaryWrite
<1> DEFINE E == {NewEvent(d, "queued", NoType, NoVerdict) : d \in S}
<1>1. InsertEvents(E) /\ UNCHANGED <<today, rows, rules>>
  BY DEF DomainRequeue
<1>2. \A e \in E : e.id = txid + 1 /\ e.action # "expired"
  BY DEF NewEvent
<1> HIDE DEF E
<1>3. NothingExpired
  BY <1>1, <1>2 DEF NothingExpired, InsertEvents
<1> QED BY <1>1, <1>2, <1>3, AppendsByInsert DEF OrdinaryWrite, Passes

LEMMA ReconcileStepWrites ==
  ASSUME SysInv, NEW h \in Handlers, ReconcileStep(h)
  PROVE  OrdinaryWrite \/ ReconcileWrites
<1>1. CASE Reconcile(h)
  BY <1>1 DEF Reconcile, ReconcileFile, ReconcileWrites
<1>2. CASE UNCHANGED dbVars
  BY <1>2, UnchangedWrites
<1>3. ASSUME NEW e, ExpireChangedRule(h, e) PROVE OrdinaryWrite
  BY <1>3, InsertRuleWrites DEF ExpireChangedRule
<1>4. ASSUME NEW r, ExpireUndeclaredRule(h, r) PROVE OrdinaryWrite
  BY <1>4, InsertRuleWrites DEF ExpireUndeclaredRule
<1>5. CASE CommitRule(h)
  BY <1>5, InsertRuleWrites DEF CommitRule
<1>6. ASSUME NEW d, ApplyRule(h, d) PROVE OrdinaryWrite
  BY <1>6, ApplyPatternWrites DEF ApplyRule, SysInv, HandlerInv, HandlerTypeOK
<1> QED BY <1>1, <1>2, <1>3, <1>4, <1>5, <1>6
        DEF ReconcileStep, ReadRules, SkipEntry, NewEntry, ReadDomains, RuleDone, ReconcileDone

LEMMA SystemWrites ==
  ASSUME SysInv, [SystemNext]_systemVars
  PROVE  OrdinaryWrite \/ ExpireWrites \/ ReconcileWrites \/ RebuildWrites
<1>1. CASE [Next]_qpVars
  BY <1>1, ProcessorWrites DEF SysInv
<1>2. CASE AdminClassify
  BY <1>2, AdminClassificationWrites DEF AdminClassify
<1>3. CASE AdminExpire
  BY <1>3 DEF AdminExpire, ExpireWrites
<1>4. ASSUME NEW h \in Handlers, ReconcileStep(h) PROVE OrdinaryWrite \/ ReconcileWrites
  BY <1>4, ReconcileStepWrites
<1>5. ASSUME NEW h \in Handlers, AdminPattern(h) \/ RequeueStep(h) \/ RebuildRead(h)
                                 \/ HandlerAborts(h)
      PROVE  OrdinaryWrite
  <2>1. CASE UNCHANGED dbVars
    BY <2>1, UnchangedWrites
  <2>2. CASE RequeueLog(h)
    BY <2>2, RequeueWrites DEF RequeueLog
  <2> QED BY <1>5, <2>1, <2>2 DEF AdminPattern, RequeueStep, RequeueFind, RequeuePublish,
              RequeueUnpublished, RequeueDone, RebuildRead, HandlerAborts
<1>6. ASSUME NEW h \in Handlers, RebuildWrite(h) PROVE RebuildWrites
  BY <1>6 DEF RebuildWrites
<1> QED BY <1>1, <1>2, <1>3, <1>4, <1>5, <1>6
        DEF SystemNext, AdminStep, RebuildStep, systemVars
-----------------------------------------------------------------------------
(* Every transaction but a rebuild revises the projection: what it ends,   *)
(* ends today, and what it adds begins today.                              *)

LEMMA DomainExpireWrites ==
  ASSUME NEW d, DomainExpire(d)
  PROVE  /\ Appends
         /\ Revises({r \in rows : r.domain = d /\ IsActive(r)}, {})
<1> DEFINE S == {r \in rows : r.domain = d /\ IsActive(r)}
           e0 == NewEvent(d, "expired", NoType, NoVerdict)
<1>1. rows' = Expire(S) /\ InsertEvents({e0}) /\ today' = today
  BY DEF DomainExpire
<1>2. S \subseteq Unexpired
  BY DEF Unexpired, IsActive, ActiveOn
<1>3. e0.id = txid + 1
  BY DEF NewEvent
<1> HIDE DEF S, e0
<1>4. Appends
  BY <1>1, <1>3, AppendsByInsert
<1>5. Revises(S, {})
  BY <1>1, <1>2 DEF Revises
<1> QED BY <1>4, <1>5 DEF S

(* What a reconcile of entries F ends and adds. *)
ReconcileEnds(F) ==
  Removed(F) \union Replaced(F) \union UNION {Displaced(e.domain, e.ctype) : e \in Changed(F)}

ReconcileAdds(F) ==
  {NewRow(e.domain, e.ctype, ProvisionedVerdict(e), Forever) : e \in Changed(F)}

ReconcileLogs(F) ==
  {NewEvent(e.domain, "classified", e.ctype, ProvisionedVerdict(e)) : e \in Changed(F)}
    \union {NewEvent(r.domain, "expired", r.ctype, NoVerdict) : r \in Removed(F)}

LEMMA ReconcileShape ==
  ASSUME NEW F, ReconcileProvisionedClassifications(F)
  PROVE  /\ rows' = Expire(ReconcileEnds(F)) \union ReconcileAdds(F)
         /\ InsertEvents(ReconcileLogs(F))
         /\ today' = today /\ rules' = rules
  BY DEF ReconcileProvisionedClassifications, ReconcileEnds, ReconcileAdds, ReconcileLogs

LEMMA ReconcileEndsValid ==
  ASSUME NEW F
  PROVE  /\ ReconcileEnds(F) \subseteq Unexpired
         /\ \A r \in ReconcileEnds(F) :
              r.verdict.src \in {"llm_prompt", "config_exclude_rule", "provisioned"}
  BY DEF ReconcileEnds, Removed, Replaced, Provisioned, Displaced, RowsOf, Unexpired

LEMMA ReconcileWritten ==
  ASSUME NEW F, ReconcileProvisionedClassifications(F)
  PROVE  Appends /\ Revises(ReconcileEnds(F), ReconcileAdds(F))
<1>1. \A e \in ReconcileLogs(F) : e.id = txid + 1
  BY DEF ReconcileLogs, NewEvent
<1>2. Appends
  BY <1>1, ReconcileShape, AppendsByInsert
<1>3. \A n \in ReconcileAdds(F) : n.validOn = today
  BY DEF ReconcileAdds, NewRow
<1> QED BY <1>2, <1>3, ReconcileShape, ReconcileEndsValid DEF Revises

LEMMA SystemRevises ==
  ASSUME SysInv, [SystemNext]_systemVars
  PROVE  /\ Appends
         /\ Passes \/ RebuildWrites \/ \E S, N : Revises(S, N)
<1>1. CASE OrdinaryWrite
  BY <1>1 DEF OrdinaryWrite, Decides
<1>2. CASE ExpireWrites
  BY <1>2, DomainExpireWrites DEF ExpireWrites
<1>3. CASE ReconcileWrites
  BY <1>3, ReconcileWritten DEF ReconcileWrites
<1>4. CASE RebuildWrites
  BY <1>4 DEF RebuildWrites, RebuildWrite, Appends
<1> QED BY <1>1, <1>2, <1>3, <1>4, SystemWrites
-----------------------------------------------------------------------------
(* The past *)

(* On that day the rows R say nothing that the rows Q do not say. *)
SaidBy(R, Q, day) ==
  \A r \in R : ActiveOn(r, day) =>
    \E s \in Q : /\ ActiveOn(s, day)
                 /\ s.domain = r.domain /\ s.ctype = r.ctype /\ s.verdict = r.verdict

LEMMA BlockedAsSaid ==
  ASSUME NEW d, NEW t, NEW day, SaidBy(rows, rows', day), SaidBy(rows', rows, day)
  PROVE  IsBlockedOn(d, t, day)' <=> IsBlockedOn(d, t, day)
<1> USE DEF SaidBy, IsBlockedOn, RowsOf
<1>1. ASSUME NEW u
      PROVE  (\E r \in {r \in RowsOf(d, u) : ActiveOn(r, day)} : r.verdict.match)
             <=> (\E r \in {r \in RowsOf(d, u)' : ActiveOn(r, day)} : r.verdict.match)
  OBVIOUS
<1>2. {r \in RowsOf(d, t) : ActiveOn(r, day)} = {}
      <=> {r \in RowsOf(d, t)' : ActiveOn(r, day)} = {}
  OBVIOUS
<1> QED BY <1>1, <1>2

LEMMA RevisedPast ==
  ASSUME rows \subseteq Row, today \in Nat, NEW S, NEW N, Revises(S, N),
         NEW day \in 0..today-1
  PROVE  SaidBy(rows, rows', day) /\ SaidBy(rows', rows, day)
<1>1. SaidBy(rows, rows', day)
  <2> SUFFICES ASSUME NEW r \in rows, ActiveOn(r, day)
               PROVE  \E s \in rows' : /\ ActiveOn(s, day)
                        /\ s.domain = r.domain /\ s.ctype = r.ctype /\ s.verdict = r.verdict
    BY DEF SaidBy
  <2>1. CASE r \in S
    <3> DEFINE s == [r EXCEPT !.validUntil = today]
    <3>1. s \in rows'
      BY <2>1 DEF Revises, Expire
    <3>2. /\ ActiveOn(s, day)
          /\ s.domain = r.domain /\ s.ctype = r.ctype /\ s.verdict = r.verdict
      BY DEF ActiveOn, Row
    <3> QED BY <3>1, <3>2
  <2>2. CASE r \notin S
    BY <2>2 DEF Revises, Expire
  <2> QED BY <2>1, <2>2
<1>2. SaidBy(rows', rows, day)
  <2> SUFFICES ASSUME NEW r \in rows', ActiveOn(r, day)
               PROVE  \E s \in rows : /\ ActiveOn(s, day)
                        /\ s.domain = r.domain /\ s.ctype = r.ctype /\ s.verdict = r.verdict
    BY DEF SaidBy
  <2>1. r \notin N
    BY DEF Revises, ActiveOn
  <2>2. ASSUME NEW s \in S, r = [s EXCEPT !.validUntil = today]
        PROVE  /\ s \in rows /\ ActiveOn(s, day)
               /\ s.domain = r.domain /\ s.ctype = r.ctype /\ s.verdict = r.verdict
    <3>1. s \in rows /\ s \in Row /\ today < s.validUntil
      BY DEF Revises, Unexpired
    <3> QED BY <2>2, <3>1 DEF ActiveOn, Row
  <2> QED BY <2>1, <2>2 DEF Revises, Expire
<1> QED BY <1>1, <1>2

LEMMA PastStays ==
  ASSUME SysInv, [SystemNext]_systemVars, NEW t \in Types, NEW day \in 0..today-1,
         NEW d \in Domains
  PROVE  \/ IsBlockedOn(d, t, day)' = IsBlockedOn(d, t, day)
         \/ \E h \in Handlers : RebuildWrite(h)
<1>1. rows \subseteq Row /\ today \in Nat
  BY DEF SysInv, CoreInv, DbInv, DatabaseTypeOK
<1>2. CASE RebuildWrites
  BY <1>2 DEF RebuildWrites
<1>3. ASSUME Passes \/ \E S, N : Revises(S, N)
      PROVE  IsBlockedOn(d, t, day)' = IsBlockedOn(d, t, day)
  <2>1. SaidBy(rows, rows', day) /\ SaidBy(rows', rows, day)
    BY <1>1, <1>3, RevisedPast DEF Passes, SaidBy
  <2>2. IsBlockedOn(d, t, day)' <=> IsBlockedOn(d, t, day)
    BY <2>1, BlockedAsSaid
  <2>3. IsBlockedOn(d, t, day)' \in BOOLEAN /\ IsBlockedOn(d, t, day) \in BOOLEAN
    BY DEF IsBlockedOn
  <2> QED BY <2>2, <2>3
<1> QED BY <1>2, <1>3, SystemRevises

(* The blocklist of a past day is what it was: no classification, expiry,  *)
(* override or reconcile run changes it, whoever else is at work; a        *)
(* rebuild may.                                                            *)
THEOREM PastStaysFixed == SystemSpec => PastIsFixed
<1>1. SysInv /\ [SystemNext]_systemVars
      => [\A t \in Types : \A day \in 0..today-1 : \A d \in Domains :
            IsBlockedOn(d, t, day)' = IsBlockedOn(d, t, day)
            \/ \E h \in Handlers : RebuildWrite(h)]_systemVars
  BY PastStays
<1> QED BY <1>1, SystemInvariance, PTL DEF SystemSpec, PastIsFixed
-----------------------------------------------------------------------------
(* What an admin decided *)

LEMMA ReconcileKeepsAdminRows ==
  ASSUME SysInv, NEW h \in Handlers, ReconcileStep(h)
  PROVE  {r \in rows : r.verdict.src = "admin"} \subseteq rows'
<1>1. ASSUME NEW S, NEW N, rows' = Expire(S) \union N, \A r \in S : r.verdict.src # "admin"
      PROVE  {r \in rows : r.verdict.src = "admin"} \subseteq rows'
  BY <1>1 DEF Expire
<1>2. CASE OrdinaryWrite
  BY <1>1, <1>2 DEF OrdinaryWrite, Passes, Decides, Revises, OfClassifiers
<1>3. ASSUME NEW F, ReconcileProvisionedClassifications(F)
      PROVE  {r \in rows : r.verdict.src = "admin"} \subseteq rows'
  BY <1>1, <1>3, ReconcileShape, ReconcileEndsValid
<1> QED BY <1>2, <1>3, ReconcileStepWrites DEF ReconcileWrites

LEMMA ReconcileKeepsAdminRules ==
  ASSUME SysInv, NEW h \in Handlers, ReconcileStep(h)
  PROVE  {r \in rules : r.src = "admin"} \subseteq rules'
<1>1. CASE rules' = rules
  BY <1>1
<1>2. ASSUME NEW r \in known[h], ExpireRule(r)
      PROVE  {x \in rules : x.src = "admin"} \subseteq rules'
  <2>1. r.src = "provisioned_pattern"
    BY DEF SysInv, HandlerInv, KnownProvisioned
  <2> QED BY <1>2, <2>1 DEF ExpireRule
<1>3. ASSUME NEW r, InsertRule(r) PROVE rules \subseteq rules'
  BY <1>3 DEF InsertRule
<1>4. CASE Reconcile(h)
  BY <1>1, <1>4, ReconcileShape DEF Reconcile, ReconcileFile
<1>5. ASSUME NEW e, ExpireChangedRule(h, e)
      PROVE  {x \in rules : x.src = "admin"} \subseteq rules'
  BY <1>2, <1>5 DEF ExpireChangedRule
<1>6. ASSUME NEW r \in known[h], ExpireUndeclaredRule(h, r)
      PROVE  {x \in rules : x.src = "admin"} \subseteq rules'
  BY <1>2, <1>6 DEF ExpireUndeclaredRule
<1>7. CASE CommitRule(h)
  BY <1>3, <1>7 DEF CommitRule
<1>8. ASSUME NEW d, ApplyRule(h, d) PROVE rules' = rules
  BY <1>8, ApplyPatternWrites DEF ApplyRule, SysInv, HandlerInv, HandlerTypeOK
<1> QED BY <1>1, <1>4, <1>5, <1>6, <1>7, <1>8
        DEF ReconcileStep, ReadRules, SkipEntry, NewEntry, ReadDomains, RuleDone, ReconcileDone,
            dbVars

(* No step of a reconcile run or of the application of a pattern ends,     *)
(* changes or removes a row or a rule that an admin made, whatever the     *)
(* files say and whoever else is at work.                                  *)
THEOREM AdminIsPreserved == SystemSpec => AdminPreserved
<1>1. SysInv /\ [SystemNext]_systemVars
      => [\A h \in Handlers : ReconcileStep(h) =>
            /\ {r \in rows : r.verdict.src = "admin"} \subseteq rows'
            /\ {r \in rules : r.src = "admin"} \subseteq rules']_systemVars
  BY ReconcileKeepsAdminRows, ReconcileKeepsAdminRules
<1> QED BY <1>1, SystemInvariance, PTL DEF SystemSpec, AdminPreserved
-----------------------------------------------------------------------------
(* One provisioned decision at a time *)

(* Inductive only together: a rebuild replaces the projection by rows that *)
(* were computed from the log before.                                      *)
ProvisionedOnce ==
  \A r, s \in Unexpired :
    SameKey(r, s) /\ r.verdict.src = "provisioned" /\ s.verdict.src = "provisioned" => r = s

RebuiltOnce == \A h \in Handlers : \A r, s \in rebuilt[h] : SameKey(r, s) => r = s

OnceInv == ProvisionedOnce /\ RebuiltOnce

(* Of the rows a revision leaves, those still unexpired were not touched,  *)
(* or are new.                                                             *)
LEMMA RevisedUnexpired ==
  ASSUME rows \subseteq Row, today \in Nat, NEW S, NEW N, Revises(S, N)
  PROVE  Unexpired' \subseteq (Unexpired \ S) \union N
<1> SUFFICES ASSUME NEW r \in rows', today < r.validUntil, r \notin N
             PROVE  r \in Unexpired \ S
  BY DEF Unexpired, Revises
<1>1. ASSUME NEW s \in S, r = [s EXCEPT !.validUntil = today]
      PROVE  FALSE
  <2>1. s \in Row
    BY DEF Revises, Unexpired
  <2> QED BY <1>1, <2>1 DEF Row
<1> QED BY <1>1 DEF Revises, Expire, Unexpired

LEMMA PassedUnexpired ==
  ASSUME rows \subseteq Row, today \in Nat, Passes
  PROVE  Unexpired' \subseteq Unexpired
  BY DEF Passes, Unexpired, Row

LEMMA ReconcileOnce ==
  ASSUME SysInv, ProvisionedOnce, NEW file \in ProvisionedFiles,
         ReconcileProvisionedClassifications(file.exact)
  PROVE  ProvisionedOnce'
<1> DEFINE F == file.exact
<1>1. \A e, f \in F : SameKey(e, f) => e = f
  BY RequestsAssumption
<1>2. Unexpired' \subseteq (Unexpired \ ReconcileEnds(F)) \union ReconcileAdds(F)
  BY ReconcileWritten, RevisedUnexpired DEF SysInv, CoreInv, DbInv, DatabaseTypeOK
<1>3. \A r \in Unexpired \ ReconcileEnds(F), e \in Changed(F) :
        ~ (SameKey(r, e) /\ r.verdict.src = "provisioned")
  BY DEF ReconcileEnds, Replaced, Provisioned, Unexpired
<1>4. \A s \in ReconcileAdds(F) : \E e \in Changed(F) :
        s = NewRow(e.domain, e.ctype, ProvisionedVerdict(e), Forever) /\ SameKey(s, e)
  BY DEF ReconcileAdds, NewRow, SameKey
<1>5. Changed(F) \subseteq F
  BY DEF Changed
<1> HIDE DEF F
<1> SUFFICES ASSUME NEW r \in Unexpired', NEW s \in Unexpired', SameKey(r, s),
                    r.verdict.src = "provisioned", s.verdict.src = "provisioned"
             PROVE  r = s
  BY DEF ProvisionedOnce, SameKey
<1>6. CASE r \in ReconcileAdds(F) /\ s \in ReconcileAdds(F)
  BY <1>1, <1>4, <1>5, <1>6 DEF SameKey
<1>7. CASE r \notin ReconcileAdds(F) /\ s \in ReconcileAdds(F)
  BY <1>2, <1>3, <1>4, <1>7 DEF SameKey
<1>8. CASE r \in ReconcileAdds(F) /\ s \notin ReconcileAdds(F)
  BY <1>2, <1>3, <1>4, <1>8 DEF SameKey
<1>9. CASE r \notin ReconcileAdds(F) /\ s \notin ReconcileAdds(F)
  BY <1>2, <1>9 DEF ProvisionedOnce
<1> QED BY <1>6, <1>7, <1>8, <1>9

(* Only a rebuild that reads the log computes rows. *)
LEMMA RebuiltFrom ==
  ASSUME SysInv, [SystemNext]_systemVars, NEW g \in Handlers
  PROVE  rebuilt'[g] \subseteq rebuilt[g] \/ RebuildRead(g)
<1>1. CASE rebuilt' = rebuilt
  BY <1>1
<1>2. ASSUME NEW h \in Handlers, HandlerDone(h) PROVE rebuilt'[g] \subseteq rebuilt[g]
  BY <1>2 DEF HandlerDone, SysInv, HandlerInv, HandlerTypeOK
<1>3. ASSUME NEW h \in Handlers, RebuildRead(h)
      PROVE  rebuilt'[g] \subseteq rebuilt[g] \/ RebuildRead(g)
  BY <1>3 DEF RebuildRead, SysInv, HandlerInv, HandlerTypeOK
<1>4. ASSUME NEW h \in Handlers, ReconcileStep(h)
      PROVE  rebuilt' = rebuilt \/ HandlerDone(h)
  BY <1>4 DEF ReconcileStep, Reconcile, ReconcileFile, ReadRules, SkipEntry, ExpireChangedRule, NewEntry,
              CommitRule, ReadDomains, ApplyRule, RuleDone, ExpireUndeclaredRule, ReconcileDone
<1>5. ASSUME NEW h \in Handlers, AdminPattern(h) \/ RequeueStep(h) \/ RebuildStep(h)
                                 \/ HandlerAborts(h)
      PROVE  rebuilt' = rebuilt \/ HandlerDone(h) \/ RebuildRead(h)
  BY <1>5 DEF AdminPattern, RequeueStep, RequeueFind, RequeueLog, RequeuePublish,
              RequeueUnpublished, RequeueDone, RebuildStep, RebuildWrite, HandlerAborts
<1>6. CASE UNCHANGED handlerVars
  BY <1>6 DEF handlerVars
<1> QED BY <1>1, <1>2, <1>3, <1>4, <1>5, <1>6
        DEF SystemNext, AdminStep, AdminClassify, AdminExpire, handlerVars, systemVars

LEMMA NextOnceInv == SysInv /\ SysInv' /\ OnceInv /\ [SystemNext]_systemVars => OnceInv'
<1> SUFFICES ASSUME SysInv, SysInv', OnceInv, [SystemNext]_systemVars PROVE OnceInv'
  OBVIOUS
<1>1. rows \subseteq Row /\ today \in Nat
  BY DEF SysInv, CoreInv, DbInv, DatabaseTypeOK
<1>2. RebuiltOnce'
  <2> SUFFICES ASSUME NEW h \in Handlers PROVE \A r, s \in rebuilt'[h] : SameKey(r, s) => r = s
    BY DEF RebuiltOnce, SameKey
  <2>1. CASE rebuilt'[h] \subseteq rebuilt[h]
    BY <2>1 DEF OnceInv, RebuiltOnce
  <2>2. CASE RebuildRead(h)
    <3>1. rebuilt'[h] = {RowFromEvent(e, TtlDays) : e \in LatestClassifiedEvents}
      BY <2>2 DEF RebuildRead, SysInv, HandlerInv, HandlerTypeOK
    <3>2. \A e, f \in LatestClassifiedEvents : SameKey(e, f) => e = f
      BY DEF LatestClassifiedEvents, SameKey
    <3> QED BY <3>1, <3>2 DEF RowFromEvent, SameKey
  <2> QED BY <2>1, <2>2, RebuiltFrom
<1>3. ProvisionedOnce'
  <2>1. ASSUME \A r \in Unexpired' : r.verdict.src = "provisioned" => r \in Unexpired
        PROVE  ProvisionedOnce'
    BY <2>1 DEF OnceInv, ProvisionedOnce, SameKey
  <2>2. CASE OrdinaryWrite
    BY <1>1, <2>1, <2>2, RevisedUnexpired, PassedUnexpired DEF OrdinaryWrite, Decides
  <2>3. CASE ExpireWrites
    <3>1. PICK d \in Domains : DomainExpire(d)
      BY <2>3 DEF ExpireWrites
    <3>2. Revises({r \in rows : r.domain = d /\ IsActive(r)}, {})
      BY <3>1, DomainExpireWrites
    <3>3. Unexpired' \subseteq Unexpired \ {r \in rows : r.domain = d /\ IsActive(r)}
      BY <1>1, <3>2, RevisedUnexpired
    <3> QED BY <2>1, <3>3
  <2>4. CASE ReconcileWrites
    BY <2>4, ReconcileOnce DEF ReconcileWrites, OnceInv
  <2>5. ASSUME NEW h \in Handlers, RebuildWrite(h) PROVE ProvisionedOnce'
    BY <1>1, <2>1, <2>5
       DEF OnceInv, RebuiltOnce, ProvisionedOnce, RebuildWrite, Unexpired, SameKey
  <2> QED BY <2>2, <2>3, <2>4, <2>5, SystemWrites DEF RebuildWrites
<1> QED BY <1>2, <1>3 DEF OnceInv

(* There is one valid provisioned row of a (domain, type) at most, for all *)
(* files that name a (domain, type) once.  Each transaction is a step      *)
(* here: reconciles, overrides, expiries, clock ticks and rebuilds may     *)
(* come in any order, others between a rebuild's read of the log and its   *)
(* transaction, but no two transactions overlap.  What those that do may   *)
(* leave is ReadCommittedProofs!DuplicatesOnlyOverlapping.                 *)
THEOREM ProvisionedIsUnique == SystemSpec => []ProvisionedUnique
<1>1. SystemInit => OnceInv
  BY DEF SystemInit, Init, DatabaseInit, HandlerInit, OnceInv, ProvisionedOnce, RebuiltOnce,
         Unexpired
<1>2. SysInv /\ OnceInv => ProvisionedUnique
  BY DEF OnceInv, ProvisionedOnce, ProvisionedUnique, Unexpired, SameKey, IsActive, ActiveOn
<1> QED BY <1>1, <1>2, NextOnceInv, SystemInvariance, PTL DEF SystemSpec

(* What a reconcile has provisioned when it is done: what was there and it *)
(* did not end, and what it adds.                                          *)
LEMMA ReconcileProvisions ==
  ASSUME SysInv, NEW file \in ProvisionedFiles,
         ReconcileProvisionedClassifications(file.exact)
  PROVE  Provisioned' = (Provisioned \ ReconcileEnds(file.exact)) \union ReconcileAdds(file.exact)
<1> DEFINE F == file.exact
<1>1. /\ rows' = Expire(ReconcileEnds(F)) \union ReconcileAdds(F)
      /\ today' = today
  BY ReconcileShape
<1>2. rows \subseteq Row /\ today \in Nat
  BY DEF SysInv, CoreInv, DbInv, DatabaseTypeOK
<1>3. Unexpired' \subseteq (Unexpired \ ReconcileEnds(F)) \union ReconcileAdds(F)
  BY <1>2, ReconcileWritten, RevisedUnexpired
<1>4. \A r \in ReconcileAdds(F) : r.verdict.src = "provisioned" /\ today < r.validUntil
  BY <1>2, TtlAssumption DEF ReconcileAdds, NewRow, ProvisionedVerdict
<1>5. rows \ ReconcileEnds(F) \subseteq rows'
  BY <1>1 DEF Expire
<1>6. ReconcileAdds(F) \subseteq rows'
  BY <1>1
<1> HIDE DEF F
<1>7. Provisioned = {r \in Unexpired : r.verdict.src = "provisioned"}
  BY DEF Provisioned, Unexpired
<1>8. Provisioned' = {r \in Unexpired' : r.verdict.src = "provisioned"}
  BY DEF Provisioned, Unexpired
<1>9. Provisioned' \subseteq (Provisioned \ ReconcileEnds(F)) \union ReconcileAdds(F)
  BY <1>3, <1>7, <1>8
<1>10. (Provisioned \ ReconcileEnds(F)) \union ReconcileAdds(F) \subseteq Provisioned'
  BY <1>1, <1>4, <1>5, <1>6 DEF Provisioned
<1> QED BY <1>9, <1>10 DEF F

LEMMA ReconcileLeavesDeclared ==
  ASSUME SysInv, ProvisionedOnce, NEW file \in ProvisionedFiles,
         ReconcileProvisionedClassifications(file.exact)
  PROVE  Decisions(Provisioned') = file.exact
<1> DEFINE F == file.exact
           Says(r, e) == SameKey(r, e) /\ r.verdict.match = e.match
<1>1. /\ F \subseteq ExactEntry
      /\ \A e, f \in F : SameKey(e, f) => e = f
  BY RequestsAssumption
<1>2. Provisioned' = (Provisioned \ ReconcileEnds(F)) \union ReconcileAdds(F)
  BY ReconcileProvisions
<1> HIDE DEF F
<1>3. \A e : Says(NewRow(e.domain, e.ctype, ProvisionedVerdict(e), Forever), e)
  BY DEF NewRow, SameKey, ProvisionedVerdict
<1>4. \A r \in ReconcileAdds(F) : \E e \in Changed(F) : Says(r, e)
  BY <1>3 DEF ReconcileAdds
<1>5. \A e \in Changed(F) : \E r \in ReconcileAdds(F) : Says(r, e)
  BY <1>3 DEF ReconcileAdds
<1>6. ASSUME NEW r \in Provisioned \ ReconcileEnds(F)
      PROVE  \E e \in F : Says(r, e)
  <2>1. PICK e \in F : SameKey(r, e)
    BY <1>6 DEF ReconcileEnds, Removed
  <2>2. e \notin Changed(F)
    BY <1>6, <2>1 DEF ReconcileEnds, Replaced
  <2>3. PICK s \in Provisioned : SameKey(s, e) /\ s.verdict.match = e.match
    BY <2>2 DEF Changed
  <2>4. r = s
    BY <1>6, <2>1, <2>3 DEF ProvisionedOnce, Provisioned, Unexpired, SameKey
  <2> QED BY <2>3, <2>4
<1>7. ASSUME NEW e \in F \ Changed(F)
      PROVE  \E r \in Provisioned \ ReconcileEnds(F) : Says(r, e)
  <2>1. PICK r \in Provisioned : SameKey(r, e) /\ r.verdict.match = e.match
    BY <1>7 DEF Changed
  <2>2. r \notin Removed(F)
    BY <1>7, <2>1 DEF Removed
  <2>3. r \notin Replaced(F)
    BY <1>1, <1>7, <2>1 DEF Replaced, Changed, SameKey
  <2>4. \A f \in Changed(F) : r \notin Displaced(f.domain, f.ctype)
    BY <2>1 DEF Displaced, Provisioned
  <2> QED BY <2>1, <2>2, <2>3, <2>4 DEF ReconcileEnds
<1>8. \A r \in Provisioned' : \E e \in F : Says(r, e)
  BY <1>2, <1>4, <1>6 DEF Changed
<1>9. \A e \in F : \E r \in Provisioned' : Says(r, e)
  BY <1>2, <1>5, <1>7
<1>10. \A e \in F : \A r : Says(r, e) =>
        [domain |-> r.domain, ctype |-> r.ctype, match |-> r.verdict.match] = e
  BY <1>1 DEF ExactEntry, SameKey
<1> HIDE DEF Says
<1> QED BY <1>8, <1>9, <1>10 DEF Decisions, F

(* Whatever reconciles, expiries and rebuilds left in the table, a         *)
(* reconcile leaves in force exactly what its file declares: for any files *)
(* that name a (domain, type) once, as long as transactions do not         *)
(* overlap.                                                                *)
THEOREM DeclaredInForce == SystemSpec => DeclaredEntries
<1>1. SystemInit => OnceInv
  BY DEF SystemInit, Init, DatabaseInit, HandlerInit, OnceInv, ProvisionedOnce, RebuiltOnce,
         Unexpired
<1>2. SysInv /\ OnceInv /\ [SystemNext]_systemVars
      => [\A h \in Handlers : \A file \in ProvisionedFiles :
            ReconcileFile(h, file) => Decisions(Provisioned') = file.exact]_systemVars
  BY ReconcileLeavesDeclared DEF ReconcileFile, OnceInv
<1> QED BY <1>1, <1>2, NextOnceInv, SystemInvariance, PTL DEF SystemSpec, DeclaredEntries
-----------------------------------------------------------------------------
(* What the bounds count *)

LEMMA SystemSpends ==
  ASSUME SysInv, [SystemNext]_systemVars
  PROVE  used' = used \/ \E k \in Kinds : Spend(k)
<1>1. ASSUME NEW p \in Processors, ProcessorStep(p)
      PROVE  used' = used \/ \E k \in Kinds : Spend(k)
  BY <1>1, KindsAssumption
     DEF ProcessorStep, Start, Fetch, Processing, Receive, ReadStates, ApplyPattern, ApplyExclude,
         ReadOverride, Ack, Classifying, StartClassifier, PromptUnreadable, ClassifierSucceeds,
         ClassifierFails, StoreVerdict, StoreRefused
<1>2. CASE Fault \/ (\E i \in MessageIds : RedeliverLost(i)) \/ DomainSeen
  BY <1>2, KindsAssumption
     DEF Fault, Crash, DatabaseFails, AckFails, RedeliverHeld, DayPasses, RedeliverLost, DomainSeen
<1>3. ASSUME NEW h \in Handlers, ReconcileStep(h)
      PROVE  used' = used \/ \E k \in Kinds : Spend(k)
  BY <1>3, AdminKindsAssumption
     DEF ReconcileStep, Reconcile, ReconcileFile, ReadRules, SkipEntry, ExpireChangedRule, NewEntry,
         CommitRule, ReadDomains, ApplyRule, RuleDone, ExpireUndeclaredRule, ReconcileDone
<1>4. ASSUME NEW h \in Handlers, AdminPattern(h) \/ RequeueStep(h) \/ RebuildStep(h)
                                 \/ HandlerAborts(h)
      PROVE  used' = used \/ \E k \in Kinds : Spend(k)
  BY <1>4, AdminKindsAssumption
     DEF AdminPattern, RequeueStep, RequeueFind, RequeueLog, RequeuePublish,
         RequeueUnpublished, RequeueDone, RebuildStep, RebuildRead, RebuildWrite, HandlerAborts
<1>5. CASE AdminClassify \/ AdminExpire
  BY <1>5, AdminKindsAssumption DEF AdminClassify, AdminExpire
<1>6. CASE UNCHANGED systemVars
  BY <1>6 DEF systemVars, qpVars
<1> QED BY <1>1, <1>2, <1>3, <1>4, <1>5, <1>6 DEF SystemNext, AdminStep, Next

(* A kind of step that never happened did not happen before, and does not  *)
(* happen now.                                                             *)
LEMMA NeverUsed ==
  ASSUME SysInv, [SystemNext]_systemVars, NEW k \in Kinds, used'[k] = 0
  PROVE  used[k] = 0 /\ ~ Spend(k)
<1>1. used \in [Kinds -> Nat]
  BY DEF SysInv, CoreInv, BoundsTypeOK
<1>2. ASSUME Spend(k) PROVE FALSE
  BY <1>1, <1>2 DEF Spend
<1>3. ASSUME NEW j \in Kinds, Spend(j) PROVE used[k] = 0
  BY <1>1, <1>3 DEF Spend
<1> QED BY <1>2, <1>3, SystemSpends

(* The locals of h change by a step of h only. *)
LocalsOf(h) == <<hpc[h], desired[h], plan[h], known[h], applying[h], targets[h], rebuilt[h]>>

StepOf(h) ==
  AdminPattern(h) \/ ReconcileStep(h) \/ RequeueStep(h) \/ RebuildStep(h) \/ HandlerAborts(h)

LEMMA OtherHandlersStay ==
  ASSUME SysInv, [SystemNext]_systemVars, NEW g \in Handlers
  PROVE  LocalsOf(g)' = LocalsOf(g) \/ (StepOf(g) /\ UNCHANGED procVars)
<1> USE DEF LocalsOf
<1>1. ASSUME NEW h \in Handlers, h # g, HandlerDone(h) PROVE LocalsOf(g)' = LocalsOf(g)
  BY <1>1 DEF HandlerDone, HandlerGoto, SysInv, HandlerInv, HandlerTypeOK
<1>2. ASSUME NEW h \in Handlers, h # g, ReconcileStep(h) PROVE LocalsOf(g)' = LocalsOf(g)
  <2> USE DEF HandlerGoto, SysInv, HandlerInv, HandlerTypeOK
  <2>1. CASE Reconcile(h)
    BY <1>2, <2>1 DEF Reconcile, ReconcileFile
  <2>2. CASE ReadRules(h) \/ CommitRule(h) \/ ReadDomains(h) \/ RuleDone(h) \/ ReconcileDone(h)
    BY <1>1, <1>2, <2>2 DEF ReadRules, CommitRule, ReadDomains, RuleDone, ReconcileDone
  <2>3. ASSUME NEW e, SkipEntry(h, e) \/ ExpireChangedRule(h, e) \/ NewEntry(h, e)
        PROVE  LocalsOf(g)' = LocalsOf(g)
    BY <1>2, <2>3 DEF SkipEntry, ExpireChangedRule, NewEntry, Make
  <2>4. ASSUME NEW x, ApplyRule(h, x) \/ ExpireUndeclaredRule(h, x)
        PROVE  LocalsOf(g)' = LocalsOf(g)
    BY <1>2, <2>4 DEF ApplyRule, ExpireUndeclaredRule
  <2> QED BY <1>2, <2>1, <2>2, <2>3, <2>4 DEF ReconcileStep
<1>3. ASSUME NEW h \in Handlers, h # g,
             AdminPattern(h) \/ RequeueStep(h) \/ RebuildStep(h) \/ HandlerAborts(h)
      PROVE  LocalsOf(g)' = LocalsOf(g)
  BY <1>1, <1>3
     DEF AdminPattern, Make, RequeueStep, RequeueFind, RequeueLog, RequeuePublish,
         RequeueUnpublished, RequeueDone, RebuildStep, RebuildRead, RebuildWrite, HandlerAborts,
         HandlerGoto, SysInv, HandlerInv, HandlerTypeOK
<1>4. CASE UNCHANGED handlerVars
  BY <1>4 DEF handlerVars
<1> QED BY <1>2, <1>3, <1>4
        DEF SystemNext, AdminStep, AdminClassify, AdminExpire, StepOf, handlerVars, systemVars
-----------------------------------------------------------------------------
(* What an expiry ends stays ended *)

(* The log of events E has not withdrawn the classification r. *)
Stands(r, E) ==
  \E e \in E :
    /\ Explains(e, r.domain, r.ctype, r.verdict)
    /\ ~ \E x \in E : /\ x.action = "expired" /\ x.ctype = NoType
                      /\ x.domain = r.domain /\ x.id > e.id

(* An expiry ends the rows that have begun, which is all of them unless a  *)
(* rebuild is at work.                                                     *)
RowsBegun == \A r \in rows : r.validOn <= today

UnexpiredStand == \A r \in Unexpired : r.verdict.src # "llm_prompt" => Stands(r, events)

ExpiryInv ==
  used["rebuild"] = 0 =>
    /\ \A h \in Handlers : hpc[h] # "rebuild"
    /\ RowsBegun
    /\ UnexpiredStand

LEMMA StandsOn ==
  ASSUME Appends, NEW r, Stands(r, events),
         \A e \in events' \ events :
           e.action = "expired" /\ e.ctype = NoType => e.domain # r.domain
  PROVE  Stands(r, events')
  BY DEF Stands, Appends

LEMMA LoggedStands ==
  ASSUME SysInv, Appends, NEW r, LoggedNow(r)
  PROVE  Stands(r, events')
<1>1. PICK e \in events' : Explains(e, r.domain, r.ctype, r.verdict) /\ e.id = txid + 1
  BY DEF LoggedNow
<1>2. \A x \in events' : ~ (x.id > e.id)
  <2>1. \A x \in events : x.id <= txid /\ x.id \in Nat /\ txid \in Nat
    BY DEF SysInv, CoreInv, DbInv, DatabaseTypeOK, EventsNumbered, Event
  <2>2. txid + 1 \in Nat
    BY DEF SysInv, CoreInv, DbInv, DatabaseTypeOK
  <2> QED BY <1>1, <2>1, <2>2 DEF Appends
<1> QED BY <1>1, <1>2 DEF Stands

LEMMA RevisedBegun ==
  ASSUME rows \subseteq Row, today \in Nat, NEW S, NEW N, Revises(S, N), RowsBegun
  PROVE  RowsBegun'
<1> SUFFICES ASSUME NEW r \in rows' PROVE r.validOn <= today'
  BY DEF RowsBegun
<1>1. CASE r \in N
  BY <1>1 DEF Revises
<1>2. ASSUME NEW s \in S, r = [s EXCEPT !.validUntil = today]
      PROVE  r.validOn <= today
  BY <1>2 DEF Revises, Unexpired, RowsBegun, Row
<1> QED BY <1>1, <1>2 DEF Revises, Expire, RowsBegun

LEMMA NoRebuild ==
  ASSUME SysInv, [SystemNext]_systemVars, used'["rebuild"] = 0,
         \A h \in Handlers : hpc[h] # "rebuild"
  PROVE  ~ RebuildWrites /\ \A h \in Handlers : hpc'[h] # "rebuild"
<1>1. ~ RebuildWrites
  BY DEF RebuildWrites, RebuildWrite
<1>2. ASSUME NEW h \in Handlers PROVE hpc'[h] # "rebuild"
  <2>1. ~ RebuildRead(h)
    BY NeverUsed, AdminKindsAssumption DEF RebuildRead
  <2> USE DEF HandlerGoto, HandlerDone, SysInv, HandlerInv, HandlerTypeOK
  <2>2. CASE ReconcileStep(h)
    BY <2>2 DEF ReconcileStep, Reconcile, ReconcileFile, ReadRules, SkipEntry, ExpireChangedRule, NewEntry,
         CommitRule, ReadDomains, ApplyRule, RuleDone, ExpireUndeclaredRule, ReconcileDone
  <2>3. CASE AdminPattern(h) \/ RequeueStep(h) \/ HandlerAborts(h)
    BY <2>3 DEF AdminPattern, RequeueStep, RequeueFind, RequeueLog, RequeuePublish,
         RequeueUnpublished, RequeueDone, HandlerAborts
  <2>4. ~ RebuildWrite(h)
    BY DEF RebuildWrite
  <2>5. CASE LocalsOf(h)' = LocalsOf(h)
    BY <2>5 DEF LocalsOf
  <2> QED BY <2>1, <2>2, <2>3, <2>4, <2>5, OtherHandlersStay DEF StepOf, RebuildStep
<1> QED BY <1>1, <1>2

LEMMA ExpireStands ==
  ASSUME SysInv, RowsBegun, UnexpiredStand, NEW d, DomainExpire(d)
  PROVE  RowsBegun' /\ UnexpiredStand'
<1> DEFINE S == {r \in rows : r.domain = d /\ IsActive(r)}
<1>1. rows \subseteq Row /\ today \in Nat
  BY DEF SysInv, CoreInv, DbInv, DatabaseTypeOK
<1>2. Appends /\ Revises(S, {})
  BY DomainExpireWrites
<1>3. RowsBegun'
  BY <1>1, <1>2, RevisedBegun
<1>4. Unexpired' \subseteq Unexpired \ S
  BY <1>1, <1>2, RevisedUnexpired
<1>5. \A r \in Unexpired \ S : r.domain # d
  BY DEF Unexpired, IsActive, ActiveOn, RowsBegun
<1>6. \A e \in events' \ events : e.domain = d
  BY DEF DomainExpire, InsertEvents, NewEvent
<1>7. UnexpiredStand'
  <2> SUFFICES ASSUME NEW r \in Unexpired', r.verdict.src # "llm_prompt"
               PROVE  Stands(r, events')
    BY DEF UnexpiredStand, Stands, Explains
  <2>1. Stands(r, events) /\ r.domain # d
    BY <1>4, <1>5 DEF UnexpiredStand
  <2> QED BY <1>2, <1>6, <2>1, StandsOn
<1> QED BY <1>3, <1>7

LEMMA DecidedStands ==
  ASSUME SysInv, RowsBegun, UnexpiredStand, Appends, NEW S, NEW N, Revises(S, N),
         \A n \in N : n.verdict.src = "llm_prompt" \/ LoggedNow(n),
         \A e \in events' \ events : ~ (e.action = "expired" /\ e.ctype = NoType)
  PROVE  RowsBegun' /\ UnexpiredStand'
<1>1. rows \subseteq Row /\ today \in Nat
  BY DEF SysInv, CoreInv, DbInv, DatabaseTypeOK
<1>2. RowsBegun'
  BY <1>1, RevisedBegun
<1>3. UnexpiredStand'
  <2> SUFFICES ASSUME NEW r \in Unexpired', r.verdict.src # "llm_prompt"
               PROVE  Stands(r, events')
    BY DEF UnexpiredStand, Stands, Explains
  <2>1. CASE r \in N
    BY <2>1, LoggedStands
  <2>2. CASE r \in Unexpired
    BY <2>2, StandsOn DEF UnexpiredStand
  <2> QED BY <1>1, <2>1, <2>2, RevisedUnexpired
<1> QED BY <1>2, <1>3

LEMMA ReconcileLogged ==
  ASSUME NEW F, F \subseteq ExactEntry, rows \subseteq Row,
         ReconcileProvisionedClassifications(F)
  PROVE  /\ \A n \in ReconcileAdds(F) : LoggedNow(n)
         /\ \A e \in events' \ events : ~ (e.action = "expired" /\ e.ctype = NoType)
<1>1. events' = events \union ReconcileLogs(F)
  BY ReconcileShape DEF InsertEvents
<1>2. ASSUME NEW n \in ReconcileAdds(F) PROVE LoggedNow(n)
  <2>1. PICK e \in Changed(F) : n = NewRow(e.domain, e.ctype, ProvisionedVerdict(e), Forever)
    BY DEF ReconcileAdds
  <2> DEFINE x == NewEvent(e.domain, "classified", e.ctype, ProvisionedVerdict(e))
  <2>2. x \in events'
    BY <1>1 DEF ReconcileLogs
  <2>3. Explains(x, n.domain, n.ctype, n.verdict) /\ x.id = txid + 1
    BY <2>1 DEF Explains, NewEvent, NewRow
  <2> QED BY <2>2, <2>3 DEF LoggedNow
<1>3. ASSUME NEW r \in Removed(F)
      PROVE  NewEvent(r.domain, "expired", r.ctype, NoVerdict).ctype # NoType
  BY TypesNamed DEF Removed, Provisioned, Row, NewEvent
<1>4. ASSUME NEW e \in Changed(F)
      PROVE  NewEvent(e.domain, "classified", e.ctype, ProvisionedVerdict(e)).action # "expired"
  BY DEF NewEvent
<1> QED BY <1>1, <1>2, <1>3, <1>4 DEF ReconcileLogs

LEMMA NextExpiryInv == SysInv /\ ExpiryInv /\ [SystemNext]_systemVars => ExpiryInv'
<1> SUFFICES ASSUME SysInv, ExpiryInv, [SystemNext]_systemVars, used'["rebuild"] = 0
             PROVE  (\A h \in Handlers : hpc'[h] # "rebuild") /\ RowsBegun' /\ UnexpiredStand'
  BY DEF ExpiryInv
<1>1. used["rebuild"] = 0
  BY NeverUsed, AdminKindsAssumption
<1>2. (\A h \in Handlers : hpc[h] # "rebuild") /\ RowsBegun /\ UnexpiredStand
  BY <1>1 DEF ExpiryInv
<1>3. ~ RebuildWrites /\ \A h \in Handlers : hpc'[h] # "rebuild"
  BY <1>2, NoRebuild
<1>4. rows \subseteq Row /\ today \in Nat
  BY DEF SysInv, CoreInv, DbInv, DatabaseTypeOK
<1>5. RowsBegun' /\ UnexpiredStand'
  <2>1. CASE Appends /\ NothingExpired /\ Passes
    <3>1. RowsBegun'
      BY <1>2, <1>4, <2>1 DEF RowsBegun, Passes, Row
    <3>2. Unexpired' \subseteq Unexpired
      BY <1>4, <2>1, PassedUnexpired
    <3>3. \A r \in Unexpired' : r.verdict.src # "llm_prompt" => Stands(r, events')
      BY <1>2, <2>1, <3>2, StandsOn DEF UnexpiredStand, NothingExpired
    <3> QED BY <3>1, <3>3 DEF UnexpiredStand, Stands, Explains
  <2>2. CASE Appends /\ NothingExpired /\ Decides
    BY <1>2, <2>2, DecidedStands DEF Decides, NothingExpired
  <2>3. CASE ExpireWrites
    BY <1>2, <2>3, ExpireStands DEF ExpireWrites
  <2>4. CASE ReconcileWrites
    <3>1. PICK file \in ProvisionedFiles : ReconcileProvisionedClassifications(file.exact)
      BY <2>4 DEF ReconcileWrites
    <3>2. file.exact \subseteq ExactEntry
      BY RequestsAssumption
    <3> QED BY <1>2, <1>4, <3>1, <3>2, ReconcileLogged, ReconcileWritten, DecidedStands
  <2> QED BY <1>3, <2>1, <2>2, <2>3, <2>4, SystemWrites DEF OrdinaryWrite
<1> QED BY <1>3, <1>5

(* What an expiry ended stays ended: unless a rebuild was asked for, no    *)
(* classification of an admin, a file, a pattern or an exclude rule is in  *)
(* force that an expiry of its domain follows in the log.                  *)
THEOREM ExpiryIsKept == SystemSpec => []ExpiryHolds
<1>1. SystemInit => ExpiryInv
  BY DEF SystemInit, Init, DatabaseInit, HandlerInit, ExpiryInv, RowsBegun, UnexpiredStand,
         Unexpired
<1>2. ExpiryInv => ExpiryHolds
  BY DEF ExpiryInv, UnexpiredStand, Stands, ExpiryHolds, Unexpired, IsActive, ActiveOn
<1> QED BY <1>1, <1>2, NextExpiryInv, SystemInvariance, PTL DEF SystemSpec
-----------------------------------------------------------------------------
(* Retroactive application of rules *)

RulesNumbered == \A rule \in rules : rule.id <= txid

ApplyingOnce == \A h \in Handlers : \A r, s \in applying[h] : r = s

ApplyingSome ==
  \A h \in Handlers : hpc[h] \in {"insert", "domains", "apply"} => \E r \in applying[h] : TRUE

RulesInv == RulesNumbered /\ ApplyingOnce /\ ApplyingSome

(* What applying the rule to d leaves: in force while today < Forever.     *)
WrittenFor(rule, d) ==
  \E r \in RowsOf(d, rule.ctype) :
    /\ r.validOn <= today /\ Forever <= r.validUntil
    /\ r.verdict.src = rule.src /\ r.verdict.match = rule.match

DueBy(h, rule, d) ==
  /\ \E r \in applying[h] : IsFor(r, rule)
  /\ hpc[h] = "domains" \/ (hpc[h] = "apply" /\ d \in targets[h])

NotCut == used["abort"] = 0 /\ used["expire"] = 0 /\ used["rebuild"] = 0

RetroactiveInv ==
  NotCut =>
    /\ \A h \in Handlers : hpc[h] # "rebuild"
    /\ \A rule \in rules : \A d \in Reached(rule) :
         WrittenFor(rule, d) \/ \E h \in Handlers : DueBy(h, rule, d)

(* Rules come by a commit only. *)
LEMMA RulesFrom ==
  ASSUME SysInv, [SystemNext]_systemVars
  PROVE  rules' \subseteq rules \/ \E h \in Handlers : CommitRule(h)
<1>1. CASE [Next]_qpVars
  BY <1>1, ProcessorWrites DEF SysInv
<1>2. CASE AdminClassify \/ AdminExpire
  BY <1>2, AdminClassificationWrites DEF AdminClassify, AdminExpire, DomainExpire
<1>3. ASSUME NEW h \in Handlers, ReconcileStep(h)
      PROVE  rules' \subseteq rules \/ CommitRule(h)
  <2>1. ASSUME NEW d, ApplyRule(h, d) PROVE rules' = rules
    BY <2>1, ApplyPatternWrites DEF ApplyRule, SysInv, HandlerInv, HandlerTypeOK
  <2>2. CASE Reconcile(h)
    BY <2>2, ReconcileShape DEF Reconcile, ReconcileFile
  <2> QED BY <1>3, <2>1, <2>2
          DEF ReconcileStep, ReadRules, SkipEntry, ExpireChangedRule, NewEntry, ReadDomains,
              RuleDone, ExpireUndeclaredRule, ReconcileDone, ExpireRule, dbVars
<1>4. ASSUME NEW h \in Handlers, AdminPattern(h) \/ RequeueStep(h) \/ RebuildStep(h)
                                 \/ HandlerAborts(h)
      PROVE  rules' = rules
  BY <1>4 DEF AdminPattern, RequeueStep, RequeueFind, RequeueLog, DomainRequeue, RequeuePublish,
              RequeueUnpublished, RequeueDone, RebuildStep, RebuildRead, RebuildWrite,
              HandlerAborts, dbVars
<1> QED BY <1>1, <1>2, <1>3, <1>4 DEF SystemNext, AdminStep, systemVars

LEMMA ApplyingOnceKept ==
  ASSUME SysInv, ApplyingOnce, [SystemNext]_systemVars
  PROVE  ApplyingOnce'
<1> SUFFICES ASSUME NEW h \in Handlers PROVE \A r, s \in applying'[h] : r = s
  BY DEF ApplyingOnce
<1>1. CASE applying'[h] \subseteq applying[h]
  BY <1>1 DEF ApplyingOnce
<1>2. ASSUME NEW e, NEW src, Make(h, e, src) PROVE \A r, s \in applying'[h] : r = s
  BY <1>2 DEF Make, SysInv, HandlerInv, HandlerTypeOK
<1>3. CASE HandlerDone(h)
  BY <1>3 DEF HandlerDone, SysInv, HandlerInv, HandlerTypeOK
<1>4. CASE ReconcileStep(h)
  <2>1. ASSUME NEW e, ExpireChangedRule(h, e) \/ NewEntry(h, e)
        PROVE  \A r, s \in applying'[h] : r = s
    BY <1>2, <2>1 DEF ExpireChangedRule, NewEntry
  <2>2. CASE RuleDone(h)
    BY <1>1, <1>3, <2>2 DEF RuleDone, SysInv, HandlerInv, HandlerTypeOK
  <2> QED BY <1>1, <1>3, <1>4, <2>1, <2>2
          DEF ReconcileStep, Reconcile, ReconcileFile, ReadRules, SkipEntry, CommitRule, ReadDomains, ApplyRule,
              ExpireUndeclaredRule, ReconcileDone
<1>5. CASE AdminPattern(h) \/ RequeueStep(h) \/ RebuildStep(h) \/ HandlerAborts(h)
  BY <1>1, <1>2, <1>3, <1>5
     DEF AdminPattern, RequeueStep, RequeueFind, RequeueLog, RequeuePublish,
         RequeueUnpublished, RequeueDone, RebuildStep, RebuildRead, RebuildWrite, HandlerAborts
<1>6. CASE LocalsOf(h)' = LocalsOf(h)
  BY <1>1, <1>6 DEF LocalsOf
<1> QED BY <1>4, <1>5, <1>6, OtherHandlersStay DEF StepOf

LEMMA ApplyingSomeKept ==
  ASSUME SysInv, ApplyingSome, [SystemNext]_systemVars
  PROVE  ApplyingSome'
<1> SUFFICES ASSUME NEW h \in Handlers, hpc'[h] \in {"insert", "domains", "apply"}
             PROVE  \E r \in applying'[h] : TRUE
  BY DEF ApplyingSome
<1> USE DEF HandlerGoto, SysInv, HandlerInv, HandlerTypeOK
<1>1. ~ HandlerDone(h)
  BY DEF HandlerDone
<1>2. CASE hpc[h] \in {"insert", "domains", "apply"} /\ applying' = applying
  BY <1>2 DEF ApplyingSome
<1>3. ASSUME NEW e, NEW src, Make(h, e, src) PROVE \E r \in applying'[h] : TRUE
  BY <1>3 DEF Make
<1>4. CASE ReconcileStep(h)
  <2>1. ASSUME NEW e, ExpireChangedRule(h, e) \/ NewEntry(h, e) PROVE \E r \in applying'[h] : TRUE
    BY <1>3, <2>1 DEF ExpireChangedRule, NewEntry
  <2>2. ~ (Reconcile(h) \/ ReadRules(h) \/ RuleDone(h) \/ ReconcileDone(h))
    BY <1>1 DEF Reconcile, ReconcileFile, ReadRules, RuleDone, ReconcileDone
  <2>3. ASSUME NEW x PROVE ~ (SkipEntry(h, x) \/ ExpireUndeclaredRule(h, x))
    BY DEF SkipEntry, ExpireUndeclaredRule
  <2>4. CASE CommitRule(h) \/ ReadDomains(h) \/ \E d \in targets[h] : ApplyRule(h, d)
    BY <1>1, <1>2, <2>4 DEF CommitRule, ReadDomains, ApplyRule
  <2> QED BY <1>4, <2>1, <2>2, <2>3, <2>4 DEF ReconcileStep
<1>5. CASE AdminPattern(h)
  BY <1>3, <1>5 DEF AdminPattern
<1>6. ~ (RequeueStep(h) \/ RebuildStep(h) \/ HandlerAborts(h))
  BY <1>1 DEF RequeueStep, RequeueFind, RequeueLog, RequeuePublish, RequeueUnpublished,
              RequeueDone, RebuildStep, RebuildRead, RebuildWrite, HandlerAborts
<1>7. CASE LocalsOf(h)' = LocalsOf(h)
  BY <1>7 DEF LocalsOf, ApplyingSome
<1> QED BY <1>4, <1>5, <1>6, <1>7, OtherHandlersStay DEF StepOf

LEMMA NextRulesInv == SysInv /\ RulesInv /\ [SystemNext]_systemVars => RulesInv'
<1> SUFFICES ASSUME SysInv, RulesInv, [SystemNext]_systemVars PROVE RulesInv'
  OBVIOUS
<1>1. txid \in Nat /\ txid' \in {txid, txid + 1} /\ rules \subseteq Rule
  BY SystemRevises DEF Appends, SysInv, CoreInv, DbInv, DatabaseTypeOK
<1>2. RulesNumbered'
  <2>1. CASE rules' \subseteq rules
    BY <1>1, <2>1 DEF RulesInv, RulesNumbered, Rule
  <2>2. ASSUME NEW h \in Handlers, CommitRule(h) PROVE RulesNumbered'
    <3>1. PICK r \in applying[h] : InsertRule(r)
      BY <2>2 DEF CommitRule
    <3>2. r \in Rule
      BY DEF SysInv, HandlerInv, HandlerTypeOK
    <3>3. [r EXCEPT !.id = txid + 1].id = txid + 1
      BY <3>2 DEF Rule
    <3>4. rules' = rules \union {[r EXCEPT !.id = txid + 1]} /\ txid' = txid + 1
      BY <3>1 DEF InsertRule
    <3> DEFINE new == [r EXCEPT !.id = txid + 1]
    <3> HIDE DEF new
    <3>5. \A x \in rules : x.id \in Nat /\ x.id <= txid
      BY <1>1 DEF RulesInv, RulesNumbered, Rule
    <3>6. new.id = txid + 1 /\ rules' = rules \union {new} /\ txid' = txid + 1
      BY <3>3, <3>4 DEF new
    <3> QED BY <1>1, <3>5, <3>6 DEF RulesNumbered
  <2> QED BY <2>1, <2>2, RulesFrom
<1> QED BY <1>2, ApplyingOnceKept, ApplyingSomeKept DEF RulesInv

(* No transaction but an expiry or a rebuild ends what an admin or a       *)
(* pattern decided.                                                        *)
LEMMA DecidedRowsKept ==
  ASSUME SysInv, [SystemNext]_systemVars, ~ ExpireWrites, ~ RebuildWrites,
         NEW r \in rows, r.verdict.src \in {"admin", "provisioned_pattern"}
  PROVE  r \in rows'
<1>1. ASSUME NEW S, NEW N, Revises(S, N), r \notin S PROVE r \in rows'
  BY <1>1 DEF Revises, Expire
<1>2. CASE OrdinaryWrite
  BY <1>1, <1>2 DEF OrdinaryWrite, Passes, Decides, OfClassifiers
<1>3. ASSUME NEW F, ReconcileProvisionedClassifications(F) PROVE r \in rows'
  BY <1>1, <1>3, ReconcileWritten, ReconcileEndsValid
<1> QED BY <1>2, <1>3, SystemWrites DEF ReconcileWrites

LEMMA TodayMoves ==
  ASSUME SysInv, [SystemNext]_systemVars
  PROVE  today \in Nat /\ today' \in {today, today + 1}
<1>1. today \in Nat
  BY DEF SysInv, CoreInv, DbInv, DatabaseTypeOK
<1>2. CASE RebuildWrites
  BY <1>1, <1>2 DEF RebuildWrites, RebuildWrite
<1> QED BY <1>1, <1>2, SystemRevises DEF Passes, Revises

LEMMA WrittenKept ==
  ASSUME SysInv, [SystemNext]_systemVars, ~ ExpireWrites, ~ RebuildWrites,
         NEW rule \in Rule, NEW d, WrittenFor(rule, d)
  PROVE  WrittenFor(rule, d)'
<1>1. PICK r \in RowsOf(d, rule.ctype) :
        /\ r.validOn <= today /\ Forever <= r.validUntil
        /\ r.verdict.src = rule.src /\ r.verdict.match = rule.match
  BY DEF WrittenFor
<1>2. r \in rows /\ r.domain = d /\ r.ctype = rule.ctype
  BY DEF RowsOf
<1>3. r \in rows'
  BY <1>1, <1>2, DecidedRowsKept DEF Rule
<1>4. r.validOn <= today'
  <2>1. r.validOn \in Nat
    BY <1>2 DEF SysInv, CoreInv, DbInv, DatabaseTypeOK, Row
  <2> QED BY <1>1, <2>1, TodayMoves
<1> QED BY <1>1, <1>2, <1>3, <1>4 DEF WrittenFor, RowsOf

LEMMA ReachedKept ==
  ASSUME SysInv, RulesInv, [SystemNext]_systemVars, NEW rule \in rules
  PROVE  Reached(rule)' \subseteq Reached(rule)
<1>1. txid \in Nat /\ rule.id \in Nat /\ rule.id <= txid
  BY DEF SysInv, CoreInv, DbInv, DatabaseTypeOK, Rule, RulesInv, RulesNumbered
<1>2. \A e \in events' : e.id < rule.id => e \in events
  BY <1>1, SystemRevises DEF Appends
<1> QED BY <1>2 DEF Reached

LEMMA AppliedIsWritten ==
  ASSUME SysInv, NEW rule \in Rule, NEW r \in Rule, IsFor(r, rule), NEW d,
         ApplyPatternClassification(d, r.ctype, r)
  PROVE  WrittenFor(rule, d)'
<1> DEFINE v == [match |-> r.match, conf |-> "enough", src |-> r.src]
           row == NewRow(d, r.ctype, v, Forever)
<1>1. row \in rows' /\ today' = today
  BY DEF ApplyPatternClassification, Classify
<1>2. /\ row.domain = d /\ row.ctype = rule.ctype
      /\ row.validOn = today /\ row.validUntil = today + Forever
      /\ row.verdict.src = rule.src /\ row.verdict.match = rule.match
  BY DEF NewRow, IsFor, SameRule
<1>3. today \in Nat /\ Forever \in Nat
  BY TtlAssumption DEF SysInv, CoreInv, DbInv, DatabaseTypeOK
<1> HIDE DEF row
<1> QED BY <1>1, <1>2, <1>3 DEF WrittenFor, RowsOf

LEMMA DueKept ==
  ASSUME SysInv, RulesInv, [SystemNext]_systemVars, used'["abort"] = 0,
         NEW rule \in rules, NEW d \in Reached(rule), NEW h \in Handlers, DueBy(h, rule, d)
  PROVE  DueBy(h, rule, d)' \/ WrittenFor(rule, d)'
<1>1. CASE LocalsOf(h)' = LocalsOf(h)
  BY <1>1 DEF LocalsOf, DueBy
<1>2. CASE StepOf(h)
  <2>1. PICK r \in applying[h] : IsFor(r, rule)
    BY DEF DueBy
  <2>2. /\ hpc[h] \in {"domains", "apply"}
        /\ hpc[h] = "apply" => d \in targets[h]
    BY DEF DueBy
  <2>3. ~ HandlerAborts(h)
    BY NeverUsed, AdminKindsAssumption DEF HandlerAborts
  <2>4. \A s \in applying[h] : s = r
    BY DEF RulesInv, ApplyingOnce
  <2>5. r \in Rule /\ rule \in Rule
    BY DEF SysInv, HandlerInv, HandlerTypeOK, CoreInv, DbInv, DatabaseTypeOK
  <2>6. CASE ReadDomains(h)
    <3>1. d \in domains /\ d \in r.covers
      BY <2>1 DEF Reached, SysInv, CoreInv, DbInv, DomainsKnown, IsFor, SameRule
    <3>2. hpc'[h] = "apply" /\ d \in targets'[h] /\ applying' = applying
      BY <2>6, <3>1 DEF ReadDomains, HandlerGoto, SysInv, HandlerInv, HandlerTypeOK
    <3> QED BY <2>1, <3>2 DEF DueBy
  <2>7. ASSUME NEW x \in targets[h], ApplyRule(h, x)
        PROVE  DueBy(h, rule, d)' \/ WrittenFor(rule, d)'
    <3>1. CASE x = d
      <4>1. ApplyPatternClassification(d, r.ctype, r)
        BY <2>4, <2>7, <3>1 DEF ApplyRule
      <4> QED BY <2>1, <2>5, <4>1, AppliedIsWritten
    <3>2. CASE x # d
      <4>1. hpc' = hpc /\ applying' = applying /\ d \in targets'[h] /\ hpc[h] = "apply"
        BY <2>2, <2>7, <3>2 DEF ApplyRule, SysInv, HandlerInv, HandlerTypeOK
      <4> QED BY <2>1, <4>1 DEF DueBy
    <3> QED BY <3>1, <3>2
  <2>8. ~ RuleDone(h)
    BY <2>2 DEF RuleDone
  <2>9. CASE ReconcileStep(h)
    <3>1. ~ (Reconcile(h) \/ ReadRules(h) \/ CommitRule(h) \/ ReconcileDone(h))
      BY <2>2 DEF Reconcile, ReconcileFile, ReadRules, CommitRule, ReconcileDone
    <3>2. ASSUME NEW e PROVE ~ (SkipEntry(h, e) \/ ExpireChangedRule(h, e) \/ NewEntry(h, e)
                                \/ ExpireUndeclaredRule(h, e))
      BY <2>2 DEF SkipEntry, ExpireChangedRule, NewEntry, ExpireUndeclaredRule
    <3> QED BY <2>6, <2>7, <2>8, <2>9, <3>1, <3>2 DEF ReconcileStep
  <2>10. ~ (AdminPattern(h) \/ RequeueStep(h) \/ RebuildStep(h))
    BY <2>2 DEF AdminPattern, RequeueStep, RequeueFind, RequeueLog, RequeuePublish,
                RequeueUnpublished, RequeueDone, RebuildStep, RebuildRead, RebuildWrite
  <2> QED BY <1>2, <2>3, <2>9, <2>10 DEF StepOf
<1> QED BY <1>1, <1>2, OtherHandlersStay

LEMMA CommittedIsDue ==
  ASSUME SysInv, NEW h \in Handlers, CommitRule(h), NEW rule \in rules' \ rules, NEW d \in rule.covers
  PROVE  DueBy(h, rule, d)'
<1>1. PICK r \in applying[h] :
        /\ InsertRule(r)
        /\ \/ r.covers = {} /\ HandlerDone(h)
           \/ HandlerGoto(h, "domains") /\ UNCHANGED applying
  BY DEF CommitRule
<1>2. rule = [r EXCEPT !.id = txid + 1]
  BY <1>1 DEF InsertRule
<1>3. IsFor(r, rule)
  BY <1>2 DEF IsFor, SameRule, SysInv, HandlerInv, HandlerTypeOK, Rule
<1>4. hpc'[h] = "domains" /\ applying' = applying
  BY <1>1, <1>3 DEF IsFor, SameRule, HandlerGoto, SysInv, HandlerInv, HandlerTypeOK
<1> QED BY <1>3, <1>4 DEF DueBy

LEMMA NextRetroactiveInv ==
  SysInv /\ RulesInv /\ RetroactiveInv /\ [SystemNext]_systemVars => RetroactiveInv'
<1> SUFFICES ASSUME SysInv, RulesInv, RetroactiveInv, [SystemNext]_systemVars, NotCut'
             PROVE  /\ \A h \in Handlers : hpc'[h] # "rebuild"
                    /\ \A rule \in rules' : \A d \in Reached(rule)' :
                         WrittenFor(rule, d)' \/ \E h \in Handlers : DueBy(h, rule, d)'
  BY DEF RetroactiveInv
<1>1. /\ NotCut /\ ~ ExpireWrites
      /\ used'["abort"] = 0 /\ used'["expire"] = 0 /\ used'["rebuild"] = 0
  BY NeverUsed, AdminKindsAssumption DEF NotCut, ExpireWrites
<1>2. ~ RebuildWrites /\ \A h \in Handlers : hpc'[h] # "rebuild"
  BY <1>1, NoRebuild DEF RetroactiveInv
<1>3. ASSUME NEW rule \in rules, NEW d \in Reached(rule)'
      PROVE  WrittenFor(rule, d)' \/ \E h \in Handlers : DueBy(h, rule, d)'
  <2>1. d \in Reached(rule) /\ rule \in Rule
    BY <1>3, ReachedKept DEF SysInv, CoreInv, DbInv, DatabaseTypeOK
  <2>2. CASE WrittenFor(rule, d)
    BY <1>1, <1>2, <2>1, <2>2, WrittenKept
  <2>3. ASSUME NEW h \in Handlers, DueBy(h, rule, d)
        PROVE  DueBy(h, rule, d)' \/ WrittenFor(rule, d)'
    BY <1>1, <2>1, <2>3, DueKept
  <2> QED BY <1>1, <2>1, <2>2, <2>3 DEF RetroactiveInv
<1>4. ASSUME NEW rule \in rules' \ rules, NEW d \in Reached(rule)'
      PROVE  \E h \in Handlers : DueBy(h, rule, d)'
  BY <1>4, RulesFrom, CommittedIsDue DEF Reached
<1> QED BY <1>2, <1>3, <1>4

(* Each rule in force has reclassified, or is about to reclassify, every   *)
(* domain that was in the database before it: for any number of admins,    *)
(* files and processors at the same time, while no request was cut short   *)
(* and nothing was expired or rebuilt.                                     *)
THEOREM RulesAreRetroactive == SystemSpec => []RetroactiveUnlessCut
<1>1. SystemInit => RulesInv /\ RetroactiveInv
  <2> SUFFICES ASSUME SystemInit PROVE RulesInv /\ RetroactiveInv
    OBVIOUS
  <2>1. RulesInv /\ \A h \in Handlers : hpc[h] # "rebuild"
    BY InitialRulesAssumption
       DEF SystemInit, Init, DatabaseInit, HandlerInit, RulesInv, RulesNumbered, ApplyingOnce,
           ApplyingSome
  <2>2. \A rule \in rules : Reached(rule) = {}
    BY DEF SystemInit, Init, DatabaseInit, Reached
  <2> QED BY <2>1, <2>2 DEF RetroactiveInv
<1>2. SysInv /\ RetroactiveInv => RetroactiveUnlessCut
  <2> SUFFICES ASSUME SysInv, RetroactiveInv, NotCut, today < Forever,
                      NEW rule \in rules, NEW d \in Reached(rule)
               PROVE  AppliedTo(rule, d) \/ StillDue(rule, d)
    BY DEF RetroactiveUnlessCut, NotCut
  <2>1. CASE WrittenFor(rule, d)
    <3>1. rows \subseteq Row /\ today \in Nat /\ Forever \in Nat
      BY TtlAssumption DEF SysInv, CoreInv, DbInv, DatabaseTypeOK
    <3> QED BY <2>1, <3>1 DEF WrittenFor, AppliedTo, IsActive, ActiveOn, RowsOf, Row
  <2>2. CASE \E h \in Handlers : DueBy(h, rule, d)
    BY <2>2 DEF DueBy, StillDue
  <2> QED BY <2>1, <2>2 DEF RetroactiveInv
<1> QED BY <1>1, <1>2, NextRulesInv, NextRetroactiveInv, SystemInvariance, PTL DEF SystemSpec
-----------------------------------------------------------------------------
(* The declared rules *)

Provisions == {r \in rules : r.src = "provisioned_pattern"}

Reconciling(h) ==
  \/ hpc[h] \in {"rules", "entries"}
  \/ /\ hpc[h] \in {"insert", "domains", "apply"}
     /\ \E r \in applying[h] : r.src = "provisioned_pattern"

(* POST /reconcile is sent by one service that waits for the answer: two   *)
(* runs that overlap may declare different things.                         *)
OneReconcile == \A g, h \in Handlers : Reconciling(g) /\ Reconciling(h) => g = h

KeyedBy(S) == \A r, s \in S : SameRule(r, s) => r = s

(* A file declares a pattern once for a type, and so did the file before   *)
(* the first one here.                                                     *)
KeyedInputs ==
  /\ \A file \in ProvisionedFiles : KeyedBy(file.patterns)
  /\ KeyedBy({r \in InitialRules : r.src = "provisioned_pattern"})

(* An entry that is still to come: its rule is the one that was read.      *)
Untouched(h) ==
  \A e \in plan[h] : \A r \in Provisions \union known[h] :
    SameRule(r, e) => r \in Provisions /\ r \in known[h]

UndeclaredKnown(h) ==
  \A r \in Provisions : r \in known[h] \/ \E e \in desired[h] : SameRule(r, e)

Pending(h, e) == hpc[h] = "insert" /\ \E r \in applying[h] : DeclaredBy(r) = e

InForce(e) ==
  /\ \E r \in Provisions : DeclaredBy(r) = e
  /\ \A r \in Provisions : SameRule(r, e) => DeclaredBy(r) = e

(* An entry that was taken: its rule is about to be made, or is the only   *)
(* one for its pattern and type.                                           *)
Processed(h) ==
  \A e \in desired[h] \ plan[h] :
    \/ Pending(h, e) /\ \A r \in Provisions : ~ SameRule(r, e)
    \/ ~ Pending(h, e) /\ InForce(e)

MadeOfEntries(h) ==
  hpc[h] = "insert" => \A r \in applying[h] : DeclaredBy(r) \in desired[h] \ plan[h]

RunInv(h) ==
  /\ KeyedBy(known[h])
  /\ Untouched(h) /\ UndeclaredKnown(h) /\ Processed(h) /\ MadeOfEntries(h)

HandlerDeclares(h) ==
  /\ KeyedBy(desired[h]) /\ plan[h] \subseteq desired[h]
  /\ hpc[h] = "rules" => plan[h] = desired[h]
  /\ Reconciling(h) /\ hpc[h] # "rules" => RunInv(h)

DeclaredInv == KeyedBy(Provisions) /\ \A h \in Handlers : HandlerDeclares(h)

RunLocals(h) == <<hpc[h], desired[h], plan[h], known[h], applying[h]>>

LEMMA EntryDeclared ==
  ASSUME NEW e \in PatternEntry
  PROVE  /\ DeclaredBy(e) = e
         /\ \A r : DeclaredBy(r) = e => SameRule(r, e) /\ r.match = e.match
         /\ \A r : SameRule(r, e) /\ r.match = e.match => DeclaredBy(r) = e
<1>1. DeclaredBy(e) = e
  BY DEF DeclaredBy, PatternEntry
<1>2. \A r : DeclaredBy(r).covers = r.covers /\ DeclaredBy(r).ctype = r.ctype
             /\ DeclaredBy(r).match = r.match
  BY DEF DeclaredBy
<1>3. \A r : SameRule(r, e) /\ r.match = e.match => DeclaredBy(r) = DeclaredBy(e)
  BY DEF SameRule, DeclaredBy
<1> QED BY <1>1, <1>2, <1>3 DEF SameRule

LEMMA RunStays ==
  ASSUME NEW h \in Handlers, RunInv(h), RunLocals(h)' = RunLocals(h), Provisions' = Provisions
  PROVE  RunInv(h)'
  BY DEF RunInv, RunLocals, KeyedBy, Untouched, UndeclaredKnown, Processed, MadeOfEntries,
         Pending, InForce, DeclaredBy, SameRule

LEMMA AdminCommits ==
  ASSUME SysInv, NEW h \in Handlers, CommitRule(h), ~ Reconciling(h)
  PROVE  Provisions' = Provisions
<1>1. PICK r \in applying[h] : InsertRule(r)
  BY DEF CommitRule
<1>2. r.src # "provisioned_pattern" /\ r \in Rule
  BY DEF Reconciling, CommitRule, SysInv, HandlerInv, HandlerTypeOK
<1>3. [r EXCEPT !.id = txid + 1].src # "provisioned_pattern"
  BY <1>2 DEF Rule
<1> QED BY <1>1, <1>3 DEF InsertRule, Provisions

(* Only a reconcile run makes or expires provisioned rules. *)
LEMMA ProvisionsFrom ==
  ASSUME SysInv, RulesInv, [SystemNext]_systemVars
  PROVE  \/ Provisions' = Provisions
         \/ \E h \in Handlers :
              /\ Reconciling(h) /\ UNCHANGED procVars
              /\ \/ CommitRule(h)
                 \/ \E e \in plan[h] : ExpireChangedRule(h, e)
                 \/ \E r \in known[h] : ExpireUndeclaredRule(h, r)
<1>1. CASE rules' = rules
  BY <1>1 DEF Provisions
<1>2. CASE [Next]_qpVars
  BY <1>1, <1>2, ProcessorWrites DEF SysInv
<1>3. CASE AdminClassify \/ AdminExpire
  BY <1>1, <1>3, AdminClassificationWrites DEF AdminClassify, AdminExpire, DomainExpire
<1>4. ASSUME NEW h \in Handlers, CommitRule(h), ~ Reconciling(h)
      PROVE  Provisions' = Provisions
  BY <1>4, AdminCommits
<1>5. ASSUME NEW h \in Handlers, ReconcileStep(h), UNCHANGED procVars
      PROVE  \/ rules' = rules
             \/ CommitRule(h)
             \/ Reconciling(h) /\ \/ \E e \in plan[h] : ExpireChangedRule(h, e)
                                  \/ \E r \in known[h] : ExpireUndeclaredRule(h, r)
  <2>1. ASSUME NEW d, ApplyRule(h, d) PROVE rules' = rules
    BY <2>1, ApplyPatternWrites DEF ApplyRule, SysInv, HandlerInv, HandlerTypeOK
  <2>2. CASE Reconcile(h)
    BY <2>2, ReconcileShape DEF Reconcile, ReconcileFile
  <2>3. ASSUME NEW e, ExpireChangedRule(h, e) \/ ExpireUndeclaredRule(h, e)
        PROVE  Reconciling(h)
    BY <2>3 DEF ExpireChangedRule, ExpireUndeclaredRule, Reconciling
  <2> QED BY <1>5, <2>1, <2>2, <2>3
          DEF ReconcileStep, ReadRules, SkipEntry, NewEntry, ReadDomains, RuleDone,
              ReconcileDone, dbVars
<1>6. ASSUME NEW h \in Handlers, AdminPattern(h) \/ RequeueStep(h) \/ RebuildStep(h)
                                 \/ HandlerAborts(h)
      PROVE  rules' = rules
  BY <1>6 DEF AdminPattern, RequeueStep, RequeueFind, RequeueLog, DomainRequeue, RequeuePublish,
              RequeueUnpublished, RequeueDone, RebuildStep, RebuildRead, RebuildWrite,
              HandlerAborts, dbVars
<1> QED BY <1>1, <1>2, <1>3, <1>4, <1>5, <1>6 DEF SystemNext, AdminStep, systemVars

LEMMA IdleDeclares ==
  ASSUME NEW h \in Handlers, KeyedBy(desired[h])', plan'[h] \subseteq desired'[h],
         hpc'[h] # "rules", ~ Reconciling(h)'
  PROVE  HandlerDeclares(h)'
  BY DEF HandlerDeclares

LEMMA DoneDeclares ==
  ASSUME SysInv, NEW h \in Handlers, HandlerDone(h)
  PROVE  HandlerDeclares(h)'
<1>1. hpc'[h] = "idle" /\ desired'[h] = {} /\ plan'[h] = {}
  BY DEF HandlerDone, HandlerGoto, SysInv, HandlerInv, HandlerTypeOK
<1> QED BY <1>1, IdleDeclares DEF KeyedBy, Reconciling

(* The requests that are not reconcile runs. *)
LEMMA OthersDeclare ==
  ASSUME SysInv, NEW h \in Handlers, HandlerDeclares(h),
         AdminPattern(h) \/ RequeueStep(h) \/ RebuildStep(h) \/ HandlerAborts(h)
  PROVE  HandlerDeclares(h)'
<1> USE DEF HandlerGoto, SysInv, HandlerInv, HandlerTypeOK
<1>1. CASE HandlerDone(h)
  BY <1>1, DoneDeclares
<1>2. CASE AdminPattern(h)
  <2>1. hpc'[h] = "insert" /\ UNCHANGED <<desired, plan>>
    BY <1>2 DEF AdminPattern
  <2>2. \A r \in applying'[h] : r.src = "admin"
    BY <1>2 DEF AdminPattern, Make
  <2> QED BY <2>1, <2>2, IdleDeclares DEF HandlerDeclares, KeyedBy, Reconciling
<1>3. CASE /\ hpc'[h] \in {"requeue", "publish", "rebuild"} /\ UNCHANGED <<desired, plan>>
  BY <1>3, IdleDeclares DEF HandlerDeclares, KeyedBy, Reconciling
<1>4. CASE RequeueStep(h) \/ RebuildStep(h) \/ HandlerAborts(h)
  BY <1>1, <1>3, <1>4
     DEF RequeueStep, RequeueFind, RequeueLog, RequeuePublish, RequeueUnpublished, RequeueDone,
         RebuildStep, RebuildRead, RebuildWrite, HandlerAborts
<1> QED BY <1>2, <1>4

LEMMA ReconcileDeclares ==
  ASSUME KeyedInputs, SysInv, NEW h \in Handlers, Reconcile(h)
  PROVE  HandlerDeclares(h)'
<1>1. PICK file \in ProvisionedFiles : desired'[h] = file.patterns /\ plan'[h] = file.patterns
  BY DEF Reconcile, ReconcileFile, SysInv, HandlerInv, HandlerTypeOK
<1>2. hpc'[h] = "rules"
  BY DEF Reconcile, ReconcileFile, HandlerGoto, SysInv, HandlerInv, HandlerTypeOK
<1> QED BY <1>1, <1>2 DEF KeyedInputs, KeyedBy, HandlerDeclares

LEMMA ReadRulesDeclares ==
  ASSUME SysInv, NEW h \in Handlers, HandlerDeclares(h), KeyedBy(Provisions), ReadRules(h)
  PROVE  HandlerDeclares(h)'
<1>1. PICK map \in SUBSET Provisions :
        /\ \A r \in Provisions : \E s \in map : SameRule(r, s)
        /\ known'[h] = map
  BY DEF ReadRules, Provisions, SysInv, HandlerInv, HandlerTypeOK
<1>2. known'[h] = Provisions
  BY <1>1 DEF KeyedBy
<1>3. /\ hpc'[h] = "entries" /\ UNCHANGED <<rules, desired, plan, applying>>
      /\ plan[h] = desired[h]
  BY DEF ReadRules, HandlerGoto, dbVars, HandlerDeclares, SysInv, HandlerInv, HandlerTypeOK
<1>4. Provisions' = Provisions
  BY <1>3 DEF Provisions
<1>5. RunInv(h)'
  BY <1>2, <1>3, <1>4 DEF RunInv, KeyedBy, Untouched, UndeclaredKnown, Processed, MadeOfEntries
<1> QED BY <1>3, <1>5 DEF HandlerDeclares, KeyedBy

LEMMA SkipDeclares ==
  ASSUME SysInv, NEW h \in Handlers, HandlerDeclares(h), NEW e \in plan[h], SkipEntry(h, e)
  PROVE  HandlerDeclares(h)'
<1>1. /\ hpc[h] = "entries" /\ plan'[h] = plan[h] \ {e}
      /\ UNCHANGED <<rules, hpc, desired, known, applying>>
  BY DEF SkipEntry, dbVars, SysInv, HandlerInv, HandlerTypeOK
<1>2. Provisions' = Provisions
  BY <1>1 DEF Provisions
<1>3. RunInv(h) /\ plan[h] \subseteq desired[h] /\ KeyedBy(desired[h])
  BY <1>1 DEF HandlerDeclares, Reconciling
<1>4. e \in PatternEntry
  BY DEF SysInv, HandlerInv, HandlerTypeOK
<1>5. PICK r \in known[h] : SameRule(r, e) /\ r.match = e.match
  BY DEF SkipEntry
<1>6. InForce(e)
  <2>1. r \in Provisions /\ DeclaredBy(r) = e
    BY <1>3, <1>4, <1>5, EntryDeclared DEF RunInv, Untouched
  <2>2. \A s \in Provisions : SameRule(s, e) => s = r
    BY <1>3, <1>5 DEF RunInv, Untouched, KeyedBy, SameRule
  <2> QED BY <2>1, <2>2 DEF InForce
<1>7. Processed(h)'
  BY <1>1, <1>2, <1>3, <1>6 DEF RunInv, Processed, Pending, InForce, DeclaredBy, SameRule
<1>8. RunInv(h)'
  BY <1>1, <1>2, <1>3, <1>7
     DEF RunInv, KeyedBy, Untouched, UndeclaredKnown, MadeOfEntries, SameRule
<1> QED BY <1>1, <1>3, <1>8 DEF HandlerDeclares, KeyedBy

(* An entry whose rule has to be made: the old one is gone, the others are *)
(* as they were.                                                           *)
LEMMA TakenDeclares ==
  ASSUME SysInv, NEW h \in Handlers, HandlerDeclares(h), NEW e \in plan[h],
         hpc[h] = "entries", hpc'[h] = "insert", plan'[h] = plan[h] \ {e},
         desired'[h] = desired[h], known'[h] = known[h],
         Make(h, e, "provisioned_pattern"),
         Provisions' = {r \in Provisions : ~ SameRule(r, e)}
  PROVE  HandlerDeclares(h)'
<1>1. RunInv(h) /\ plan[h] \subseteq desired[h] /\ KeyedBy(desired[h])
  BY DEF HandlerDeclares, Reconciling
<1>2. e \in PatternEntry /\ desired[h] \subseteq PatternEntry
  BY DEF SysInv, HandlerInv, HandlerTypeOK
<1>3. \A r \in applying'[h] : r.src = "provisioned_pattern" /\ DeclaredBy(r) = DeclaredBy(e)
  BY DEF Make, DeclaredBy, SysInv, HandlerInv, HandlerTypeOK
<1>4. \E r \in applying'[h] : TRUE
  BY DEF Make, SysInv, HandlerInv, HandlerTypeOK
<1>5. DeclaredBy(e) = e
  BY <1>2, EntryDeclared
<1>6. MadeOfEntries(h)'
  BY <1>1, <1>3, <1>5 DEF MadeOfEntries, DeclaredBy
<1>7. \A f : Pending(h, f)' <=> f = e
  BY <1>3, <1>4, <1>5 DEF Pending, DeclaredBy
<1>8. ASSUME NEW f \in desired[h], f # e
      PROVE  \A r : DeclaredBy(r) = f => ~ SameRule(r, e)
  BY <1>1, <1>2, <1>8, EntryDeclared DEF KeyedBy, SameRule
<1>9. ASSUME NEW f \in desired[h] \ plan[h] PROVE InForce(f)'
  <2>1. InForce(f) /\ f # e
    BY <1>1, <1>9 DEF RunInv, Processed, Pending
  <2> QED BY <1>8, <2>1 DEF InForce, DeclaredBy, SameRule
<1>10. Processed(h)'
  <2> SUFFICES ASSUME NEW f \in desired[h] \ plan'[h]
               PROVE  \/ Pending(h, f)' /\ \A r \in Provisions' : ~ SameRule(r, f)
                      \/ ~ Pending(h, f)' /\ InForce(f)'
    BY DEF Processed, SameRule
  <2>1. CASE f = e
    BY <1>7, <2>1
  <2>2. CASE f # e
    BY <1>7, <1>9, <2>2
  <2> QED BY <2>1, <2>2
<1>11. Untouched(h)'
  <2> SUFFICES ASSUME NEW f \in plan'[h], NEW r \in Provisions' \union known[h], SameRule(r, f)
               PROVE  r \in Provisions' /\ r \in known[h]
    BY DEF Untouched, SameRule
  <2>1. f \in plan[h] /\ f # e /\ f \in desired[h]
    BY <1>1
  <2>2. r \in Provisions /\ r \in known[h]
    BY <1>1, <2>1 DEF RunInv, Untouched
  <2>3. ~ SameRule(r, e)
    BY <1>1, <2>1 DEF KeyedBy, SameRule
  <2> QED BY <2>2, <2>3
<1>12. UndeclaredKnown(h)'
  BY <1>1 DEF RunInv, UndeclaredKnown, SameRule
<1>13. RunInv(h)'
  BY <1>1, <1>6, <1>10, <1>11, <1>12 DEF RunInv, KeyedBy, SameRule
<1> QED BY <1>1, <1>13 DEF HandlerDeclares, KeyedBy, SameRule

LEMMA ExpireChangedDeclares ==
  ASSUME SysInv, NEW h \in Handlers, HandlerDeclares(h), NEW e \in plan[h],
         ExpireChangedRule(h, e)
  PROVE  HandlerDeclares(h)'
<1>1. /\ hpc[h] = "entries" /\ hpc'[h] = "insert" /\ plan'[h] = plan[h] \ {e}
      /\ desired' = desired /\ known' = known /\ Make(h, e, "provisioned_pattern")
  BY DEF ExpireChangedRule, HandlerGoto, SysInv, HandlerInv, HandlerTypeOK
<1>2. RunInv(h)
  BY <1>1 DEF HandlerDeclares, Reconciling
<1>3. PICK r \in known[h] : SameRule(r, e) /\ rules' = rules \ {r}
  BY DEF ExpireChangedRule, ExpireRule
<1>4. \A s \in Provisions : SameRule(s, e) => s = r
  BY <1>2, <1>3 DEF RunInv, Untouched, KeyedBy, SameRule
<1>5. Provisions' = {s \in Provisions : ~ SameRule(s, e)}
  BY <1>3, <1>4 DEF Provisions
<1> QED BY <1>1, <1>5, TakenDeclares

LEMMA NewEntryDeclares ==
  ASSUME SysInv, NEW h \in Handlers, HandlerDeclares(h), NEW e \in plan[h], NewEntry(h, e)
  PROVE  HandlerDeclares(h)'
<1>1. /\ hpc[h] = "entries" /\ hpc'[h] = "insert" /\ plan'[h] = plan[h] \ {e}
      /\ desired' = desired /\ known' = known /\ Make(h, e, "provisioned_pattern")
      /\ rules' = rules
  BY DEF NewEntry, HandlerGoto, dbVars, SysInv, HandlerInv, HandlerTypeOK
<1>2. RunInv(h)
  BY <1>1 DEF HandlerDeclares, Reconciling
<1>3. \A s \in Provisions : ~ SameRule(s, e)
  BY <1>2 DEF NewEntry, RunInv, Untouched
<1>4. Provisions' = {s \in Provisions : ~ SameRule(s, e)}
  BY <1>1, <1>3 DEF Provisions
<1> QED BY <1>1, <1>4, TakenDeclares

LEMMA CommitDeclares ==
  ASSUME SysInv, RulesInv, NEW h \in Handlers, HandlerDeclares(h), KeyedBy(Provisions),
         CommitRule(h)
  PROVE  HandlerDeclares(h)' /\ KeyedBy(Provisions)'
<1>1. PICK r \in applying[h] :
        /\ InsertRule(r)
        /\ \/ r.covers = {} /\ HandlerDone(h)
           \/ HandlerGoto(h, "domains") /\ UNCHANGED <<desired, plan, known, applying>>
  BY DEF CommitRule
<1>2. HandlerDone(h) \/ /\ hpc[h] = "insert" /\ hpc'[h] = "domains"
                        /\ UNCHANGED <<desired, plan, known, applying>>
  BY <1>1 DEF CommitRule, HandlerGoto, SysInv, HandlerInv, HandlerTypeOK
<1>3. CASE ~ Reconciling(h)
  <2>1. KeyedBy(Provisions)'
    BY <1>3, AdminCommits DEF KeyedBy
  <2>2. CASE ~ HandlerDone(h)
    BY <1>2, <1>3, <2>1, <2>2, IdleDeclares DEF HandlerDeclares, KeyedBy, Reconciling, CommitRule
  <2> QED BY <2>1, <2>2, DoneDeclares
<1>4. CASE Reconciling(h)
  <2> DEFINE new == [r EXCEPT !.id = txid + 1]
             e == DeclaredBy(r)
  <2>1. hpc[h] = "insert" /\ RunInv(h) /\ KeyedBy(desired[h]) /\ plan[h] \subseteq desired[h]
    BY <1>4 DEF CommitRule, HandlerDeclares
  <2>2. r.src = "provisioned_pattern" /\ r \in Rule /\ \A s \in applying[h] : s = r
    BY <1>4, <2>1 DEF Reconciling, RulesInv, ApplyingOnce, SysInv, HandlerInv, HandlerTypeOK
  <2>3. /\ new.src = "provisioned_pattern" /\ DeclaredBy(new) = e
        /\ \A x : SameRule(new, x) <=> SameRule(e, x)
    BY <2>2 DEF Rule, DeclaredBy, SameRule
  <2>4. Provisions' = Provisions \union {new}
    BY <1>1, <2>3 DEF InsertRule, Provisions
  <2> HIDE DEF new
  <2>5. e \in desired[h] \ plan[h] /\ Pending(h, e)
    BY <2>1, <2>2 DEF RunInv, MadeOfEntries, Pending
  <2>6. \A s \in Provisions : ~ SameRule(s, e)
    BY <2>1, <2>5 DEF RunInv, Processed
  <2>7. KeyedBy(Provisions)'
    BY <2>3, <2>4, <2>6 DEF KeyedBy, SameRule
  <2>8. CASE hpc'[h] = "domains" /\ UNCHANGED <<desired, plan, known, applying>>
    <3>1. ASSUME NEW f \in desired[h] \ plan[h], f # e PROVE InForce(f)'
      <4>1. InForce(f)
        BY <2>1, <2>2, <3>1 DEF RunInv, Processed, Pending
      <4>2. ~ SameRule(e, f)
        BY <2>1, <2>5, <3>1 DEF KeyedBy
      <4> QED BY <2>3, <2>4, <4>1, <4>2 DEF InForce, DeclaredBy, SameRule
    <3>2. InForce(e)'
      BY <2>3, <2>4, <2>6 DEF InForce, DeclaredBy, SameRule
    <3>3. Processed(h)'
      BY <2>8, <3>1, <3>2 DEF Processed, Pending, InForce, DeclaredBy, SameRule
    <3>4. Untouched(h)'
      <4> SUFFICES ASSUME NEW f \in plan[h], NEW s \in Provisions' \union known[h], SameRule(s, f)
                   PROVE  s \in Provisions' /\ s \in known[h]
        BY <2>8 DEF Untouched, SameRule
      <4>1. s # new
        BY <2>1, <2>3, <2>5 DEF KeyedBy
      <4> QED BY <2>1, <2>4, <4>1 DEF RunInv, Untouched
    <3>5. UndeclaredKnown(h)'
      BY <2>1, <2>3, <2>4, <2>5, <2>8 DEF RunInv, UndeclaredKnown, SameRule
    <3>6. RunInv(h)'
      BY <2>1, <2>8, <3>3, <3>4, <3>5 DEF RunInv, KeyedBy, MadeOfEntries, SameRule
    <3>7. HandlerDeclares(h)'
      BY <2>1, <2>8, <3>6 DEF HandlerDeclares, KeyedBy, SameRule
    <3> QED BY <2>7, <3>7
  <2> QED BY <1>2, <2>7, <2>8, DoneDeclares
<1> QED BY <1>3, <1>4

(* While a rule is applied, and when it is. *)
LEMMA ApplyingDeclares ==
  ASSUME SysInv, RulesInv, NEW h \in Handlers, HandlerDeclares(h),
         \/ ReadDomains(h) \/ RuleDone(h)
         \/ \E d \in targets[h] : ApplyRule(h, d)
  PROVE  HandlerDeclares(h)'
<1> USE DEF HandlerGoto, SysInv, HandlerInv, HandlerTypeOK
<1>1. CASE HandlerDone(h)
  BY <1>1, DoneDeclares
<1>2. CASE ~ HandlerDone(h)
  <2>1. UNCHANGED <<desired, plan, known>> /\ hpc[h] \in {"domains", "apply"}
    BY <1>2 DEF ReadDomains, RuleDone, ApplyRule
  <2>2. rules' = rules
    <3>1. ASSUME NEW d, ApplyRule(h, d) PROVE rules' = rules
      BY <3>1, ApplyPatternWrites DEF ApplyRule
    <3> QED BY <3>1 DEF ReadDomains, RuleDone, dbVars
  <2>3. \/ hpc'[h] = "apply" /\ applying' = applying
        \/ hpc'[h] = "entries" /\ \A r \in applying[h] : r.src # "admin"
    BY <1>2 DEF ReadDomains, RuleDone, ApplyRule
  <2>4. Provisions' = Provisions
    BY <2>2 DEF Provisions
  <2>5. ASSUME RunInv(h) PROVE RunInv(h)'
    BY <2>1, <2>3, <2>4, <2>5
       DEF RunInv, KeyedBy, Untouched, UndeclaredKnown, Processed, MadeOfEntries,
           Pending, InForce, DeclaredBy, SameRule
  <2>6. Reconciling(h)' => Reconciling(h) /\ hpc[h] # "rules"
    BY <2>1, <2>3 DEF Reconciling, Rule, RulesInv, ApplyingSome
  <2> QED BY <2>1, <2>3, <2>5, <2>6 DEF HandlerDeclares, KeyedBy
<1> QED BY <1>1, <1>2

LEMMA ExpireUndeclaredDeclares ==
  ASSUME SysInv, NEW h \in Handlers, HandlerDeclares(h), NEW r \in known[h],
         ExpireUndeclaredRule(h, r)
  PROVE  HandlerDeclares(h)'
<1>1. /\ hpc[h] = "entries" /\ plan[h] = {} /\ r \in Undeclared(h)
      /\ rules' = rules \ {r} /\ known'[h] = known[h] \ {r}
      /\ UNCHANGED <<hpc, desired, plan, applying>>
  BY DEF ExpireUndeclaredRule, ExpireRule, SysInv, HandlerInv, HandlerTypeOK
<1>2. RunInv(h) /\ KeyedBy(desired[h])
  BY <1>1 DEF HandlerDeclares, Reconciling
<1>3. Provisions' = Provisions \ {r}
  BY <1>1 DEF Provisions
<1>4. ASSUME NEW e \in desired[h] PROVE InForce(e)'
  <2>1. InForce(e)
    BY <1>1, <1>2 DEF RunInv, Processed, Pending
  <2>2. e \in PatternEntry
    BY DEF SysInv, HandlerInv, HandlerTypeOK
  <2>3. ~ SameRule(r, e)
    BY <1>1 DEF Undeclared
  <2>4. DeclaredBy(r) # e
    BY <2>2, <2>3, EntryDeclared
  <2> QED BY <1>3, <2>1, <2>4 DEF InForce, DeclaredBy, SameRule
<1>5. Processed(h)'
  BY <1>1, <1>4 DEF Processed, Pending, InForce, DeclaredBy, SameRule
<1>6. RunInv(h)'
  BY <1>1, <1>2, <1>3, <1>5
     DEF RunInv, KeyedBy, Untouched, UndeclaredKnown, MadeOfEntries, SameRule
<1> QED BY <1>1, <1>2, <1>6 DEF HandlerDeclares, KeyedBy

LEMMA StepDeclares ==
  ASSUME KeyedInputs, SysInv, RulesInv, KeyedBy(Provisions), NEW h \in Handlers,
         HandlerDeclares(h), StepOf(h)
  PROVE  HandlerDeclares(h)'
<1>1. CASE Reconcile(h)
  BY <1>1, ReconcileDeclares
<1>2. CASE ReadRules(h)
  BY <1>2, ReadRulesDeclares
<1>3. ASSUME NEW e \in plan[h], SkipEntry(h, e) \/ ExpireChangedRule(h, e) \/ NewEntry(h, e)
      PROVE  HandlerDeclares(h)'
  BY <1>3, SkipDeclares, ExpireChangedDeclares, NewEntryDeclares
<1>4. CASE CommitRule(h)
  BY <1>4, CommitDeclares
<1>5. CASE ReadDomains(h) \/ RuleDone(h) \/ \E d \in targets[h] : ApplyRule(h, d)
  BY <1>5, ApplyingDeclares
<1>6. ASSUME NEW r \in known[h], ExpireUndeclaredRule(h, r) PROVE HandlerDeclares(h)'
  BY <1>6, ExpireUndeclaredDeclares
<1>7. CASE ReconcileDone(h)
  BY <1>7, DoneDeclares DEF ReconcileDone
<1>8. CASE AdminPattern(h) \/ RequeueStep(h) \/ RebuildStep(h) \/ HandlerAborts(h)
  BY <1>8, OthersDeclare
<1> QED BY <1>1, <1>2, <1>3, <1>4, <1>5, <1>6, <1>7, <1>8 DEF StepOf, ReconcileStep

LEMMA NextDeclaredInv ==
  ASSUME KeyedInputs, SysInv, RulesInv, OneReconcile, DeclaredInv, [SystemNext]_systemVars
  PROVE  DeclaredInv'
<1>1. KeyedBy(Provisions)'
  <2>1. CASE Provisions' \subseteq Provisions
    BY <2>1 DEF DeclaredInv, KeyedBy, SameRule
  <2>2. ASSUME NEW h \in Handlers, CommitRule(h) PROVE KeyedBy(Provisions)'
    BY <2>2, CommitDeclares DEF DeclaredInv
  <2>3. ASSUME NEW h, NEW e, ExpireChangedRule(h, e) \/ ExpireUndeclaredRule(h, e)
        PROVE  Provisions' \subseteq Provisions
    BY <2>3 DEF ExpireChangedRule, ExpireUndeclaredRule, ExpireRule, Provisions
  <2> QED BY <2>1, <2>2, <2>3, ProvisionsFrom
<1>2. ASSUME NEW h \in Handlers PROVE HandlerDeclares(h)'
  <2>1. CASE StepOf(h)
    BY <2>1, StepDeclares DEF DeclaredInv
  <2>2. CASE LocalsOf(h)' = LocalsOf(h) /\ ~ StepOf(h)
    <3>1. RunLocals(h)' = RunLocals(h)
      BY <2>2 DEF LocalsOf, RunLocals
    <3>2. Reconciling(h)' <=> Reconciling(h)
      BY <3>1 DEF RunLocals, Reconciling
    <3>3. CASE Reconciling(h)
      <4>1. Provisions' = Provisions
        BY <2>2, <3>3, ProvisionsFrom DEF OneReconcile, StepOf, ReconcileStep
      <4>2. RunInv(h) => RunInv(h)'
        BY <3>1, <4>1, RunStays
      <4> QED BY <3>1, <3>2, <4>2 DEF HandlerDeclares, RunLocals, KeyedBy, DeclaredInv
    <3>4. CASE ~ Reconciling(h)
      BY <3>1, <3>2, <3>4 DEF HandlerDeclares, RunLocals, KeyedBy, DeclaredInv
    <3> QED BY <3>3, <3>4
  <2> QED BY <2>1, <2>2, OtherHandlersStay
<1> QED BY <1>1, <1>2 DEF DeclaredInv

LEMMA DoneHasDeclared ==
  ASSUME SysInv, DeclaredInv, NEW h \in Handlers, ReconcileDone(h)
  PROVE  {DeclaredBy(r) : r \in Provisions} = desired[h]
<1>1. RunInv(h) /\ hpc[h] = "entries" /\ plan[h] = {} /\ Undeclared(h) = {}
  BY DEF ReconcileDone, DeclaredInv, HandlerDeclares, Reconciling
<1>2. \A e \in desired[h] : InForce(e)
  BY <1>1 DEF RunInv, Processed, Pending
<1>3. \A r \in Provisions : \E e \in desired[h] : SameRule(r, e)
  BY <1>1 DEF RunInv, UndeclaredKnown, Undeclared
<1> QED BY <1>2, <1>3 DEF InForce

(* A reconcile run that ends leaves the declared rules in force and no     *)
(* other provisioned one: whatever rules earlier files left, however many  *)
(* earlier runs were cut short between two of their transactions, and      *)
(* whatever admins and processors do meanwhile, if runs do not overlap and *)
(* no file declares a pattern twice for a type.                            *)
THEOREM DeclaredInTheEnd ==
  ASSUME KeyedInputs
  PROVE  SystemSpec /\ []OneReconcile => DeclaredRules
<1>1. SystemInit => RulesInv /\ DeclaredInv
  <2> SUFFICES ASSUME SystemInit PROVE RulesInv /\ DeclaredInv
    OBVIOUS
  <2>1. RulesInv
    BY InitialRulesAssumption
       DEF SystemInit, Init, DatabaseInit, HandlerInit, RulesInv, RulesNumbered, ApplyingOnce,
           ApplyingSome
  <2>2. KeyedBy(Provisions)
    BY DEF SystemInit, Init, DatabaseInit, Provisions, KeyedInputs
  <2>3. \A h \in Handlers : HandlerDeclares(h)
    BY DEF SystemInit, HandlerInit, HandlerDeclares, KeyedBy, Reconciling
  <2> QED BY <2>1, <2>2, <2>3 DEF DeclaredInv
<1>2. SysInv /\ RulesInv /\ OneReconcile /\ DeclaredInv /\ [SystemNext]_systemVars => DeclaredInv'
  BY NextDeclaredInv
<1>3. SysInv /\ DeclaredInv /\ [SystemNext]_systemVars
      => [\A h \in Handlers : ReconcileDone(h) =>
            {DeclaredBy(r) : r \in {x \in rules : x.src = "provisioned_pattern"}}
              = desired[h]]_systemVars
  BY DoneHasDeclared DEF Provisions
<1> QED BY <1>1, <1>2, <1>3, NextRulesInv, SystemInvariance, PTL DEF SystemSpec, DeclaredRules
=============================================================================
