--------------------------- MODULE DatabaseProofs ---------------------------
(***************************************************************************)
(* What every write transaction of Database preserves, for all domains,    *)
(* classifiers and TTLs.  The proofs about the services cite one lemma per *)
(* transaction.                                                            *)
(***************************************************************************)
EXTENDS Database, WellFoundedInduction, TLAPS

(* Event ids are transaction numbers already used: an event committed now  *)
(* comes after all others, and a row committed now after its event.        *)
EventsNumbered == \A e \in events : e.id <= txid

DbInv == DatabaseTypeOK /\ DomainsKnown /\ RowsExplained /\ EventsNumbered

(* Only confident verdicts reach the projection. *)
RowsConfident == \A r \in rows : r.verdict.conf = "enough"

(* r is row s, its validity apart: what an expiry leaves. *)
SameClassification(r, s) ==
  r.id = s.id /\ r.domain = s.domain /\ r.ctype = s.ctype /\ r.verdict = s.verdict

ExplainedIn(r, E) == \E e \in E :
  Explains(e, r.domain, r.ctype, r.verdict) /\ e.id <= r.id

-----------------------------------------------------------------------------
(* The initial tables satisfy the invariant. *)
LEMMA DbInvInit == DatabaseInit => DbInv /\ RowsConfident
  BY InitialRulesAssumption DEF DatabaseInit, DbInv, DatabaseTypeOK, DomainsKnown, RowsExplained,
         EventsNumbered, RowsConfident

(* The shape every transaction has: nothing leaves the log or domains, new *)
(* events are numbered and known, and each row was there before or is      *)
(* explained.                                                              *)
LEMMA CommitPreservesDbInv ==
  ASSUME DbInv, DatabaseTypeOK',
         events \subseteq events', domains \subseteq domains', txid <= txid',
         \A e \in events' : e \in events \/ (e.domain \in domains' /\ e.id <= txid'),
         \A r \in rows' : \/ \E s \in rows : SameClassification(r, s)
                          \/ r.domain \in domains' /\ ExplainedIn(r, events')
  PROVE  DbInv'
<1>1. DomainsKnown'
  BY DEF DbInv, DomainsKnown, SameClassification
<1>2. RowsExplained'
  <2> SUFFICES ASSUME NEW r \in rows'
               PROVE  \E e \in events' :
                        Explains(e, r.domain, r.ctype, r.verdict) /\ e.id <= r.id
    BY DEF RowsExplained, Explains
  <2>1. CASE \E s \in rows : SameClassification(r, s)
    BY <2>1 DEF DbInv, RowsExplained, SameClassification
  <2>2. CASE ExplainedIn(r, events')
    BY <2>2 DEF ExplainedIn, Explains
  <2> QED BY <2>1, <2>2
<1>3. EventsNumbered'
  <2> SUFFICES ASSUME NEW e \in events' PROVE e.id <= txid'
    BY DEF EventsNumbered
  <2>1. CASE e \in events
    <3>1. e.id <= txid /\ e.id \in Nat /\ txid \in Nat /\ txid' \in Nat
      BY <2>1 DEF DbInv, EventsNumbered, DatabaseTypeOK, Event
    <3> QED BY <3>1
  <2> QED BY <2>1
<1> QED BY <1>1, <1>2, <1>3 DEF DbInv

(* An event written now is well typed and carries the next number. *)
LEMMA NewEventType ==
  ASSUME DatabaseTypeOK, NEW d \in Domains, NEW a \in ClassificationAction,
         NEW t \in Types \union {NoType}, NEW v \in Verdict,
         a = "classified" => t # NoType
  PROVE  /\ NewEvent(d, a, t, v) \in Event
         /\ NewEvent(d, a, t, v).id = txid + 1
         /\ NewEvent(d, a, t, v).domain = d
         /\ Explains(NewEvent(d, a, t, v), d, t, v) <=> a = "classified"
  BY DEF DatabaseTypeOK, NewEvent, Event, Explains

LEMMA TypesNamed == NoType \notin Types
  BY ClassifiersAssumption DEF Types, NoType, ALL_CLASSIFICATION_TYPE

LEMMA NoVerdictType == NoVerdict \in Verdict
  BY DEF NoVerdict, Verdict, Confidence, SourceType

(* A row written now is well typed. *)
LEMMA NewRowType ==
  ASSUME DatabaseTypeOK, NEW d \in Domains, NEW t \in Types, NEW v \in Verdict,
         NEW ttl \in Nat
  PROVE  /\ NewRow(d, t, v, ttl) \in Row
         /\ NewRow(d, t, v, ttl).id = txid + 1
         /\ NewRow(d, t, v, ttl).domain = d
         /\ NewRow(d, t, v, ttl).ctype = t
         /\ NewRow(d, t, v, ttl).verdict = v
  BY DEF DatabaseTypeOK, NewRow, Row

(* Expiring rows neither loses nor changes a classification. *)
LEMMA ExpireKeeps ==
  ASSUME DatabaseTypeOK, NEW S \in SUBSET rows
  PROVE  /\ Expire(S) \subseteq Row
         /\ \A r \in Expire(S) : \E s \in rows : SameClassification(r, s)
<1> SUFFICES ASSUME NEW r \in Expire(S)
             PROVE  r \in Row /\ \E s \in rows : SameClassification(r, s)
  OBVIOUS
<1>1. CASE r \in rows \ S
  BY <1>1 DEF DatabaseTypeOK, SameClassification
<1>2. ASSUME NEW s \in S, r = [s EXCEPT !.validUntil = today]
      PROVE  r \in Row /\ SameClassification(r, s)
  BY <1>2 DEF DatabaseTypeOK, SameClassification, Row
<1> QED BY <1>1, <1>2 DEF Expire

(* Events and their domains are committed together. *)
LEMMA InsertEventsInv ==
  ASSUME DbInv, NEW E \in SUBSET Event, \A e \in E : e.id = txid + 1,
         InsertEvents(E), UNCHANGED <<today, rows, rules>>
  PROVE  DbInv' /\ events \subseteq events'
<1>1. DatabaseTypeOK'
  BY DEF DbInv, DatabaseTypeOK, InsertEvents, Event
<1>2. txid \in Nat /\ txid' = txid + 1
  BY DEF DbInv, DatabaseTypeOK, InsertEvents
<1>3. \A e \in events' : e \in events \/ (e.domain \in domains' /\ e.id <= txid')
  BY <1>2 DEF InsertEvents
<1>4. \A r \in rows' : \E s \in rows : SameClassification(r, s)
  BY DEF SameClassification
<1>5. events \subseteq events' /\ domains \subseteq domains' /\ txid <= txid'
  BY <1>2 DEF InsertEvents
<1> QED BY <1>1, <1>3, <1>4, <1>5, CommitPreservesDbInv
-----------------------------------------------------------------------------
(* One lemma per transaction *)

LEMMA InsertEventInv ==
  ASSUME DbInv, NEW d \in Domains, NEW a \in ClassificationAction, NEW t \in Types,
         InsertEvent(d, a, t)
  PROVE  DbInv' /\ events \subseteq events'
<1> DEFINE E == {NewEvent(d, a, t, NoVerdict)}
<1>1. E \in SUBSET Event /\ \A e \in E : e.id = txid + 1
  BY NewEventType, NoVerdictType, TypesNamed DEF DbInv
<1> QED BY <1>1, InsertEventsInv DEF InsertEvent

LEMMA InsertClassifiedEventInv ==
  ASSUME DbInv, NEW d \in Domains, NEW t \in Types, NEW v \in Verdict,
         InsertClassifiedEvent(d, t, v)
  PROVE  /\ DbInv' /\ events \subseteq events'
         /\ \E e \in events' : Explains(e, d, t, v)
<1> DEFINE e0 == NewEvent(d, "classified", t, v)
<1>1. e0 \in Event /\ e0.id = txid + 1 /\ Explains(e0, d, t, v)
  BY NewEventType, TypesNamed DEF DbInv, ClassificationAction
<1>2. DbInv' /\ events \subseteq events'
  <2> HIDE DEF e0
  <2>1. {e0} \in SUBSET Event /\ \A e \in {e0} : e.id = txid + 1
    BY <1>1
  <2> QED BY <2>1, InsertEventsInv DEF InsertClassifiedEvent, e0
<1>3. e0 \in events'
  BY DEF InsertClassifiedEvent, InsertEvents
<1> QED BY <1>1, <1>2, <1>3

(* The verdict's event must have been committed before. *)
LEMMA ClassificationStoreInv ==
  ASSUME DbInv, NEW d \in Domains, NEW t \in Types, NEW v \in Verdict,
         \E e \in events : Explains(e, d, t, v),
         ClassificationStore(d, t, v)
  PROVE  DbInv' /\ events \subseteq events'
<1> DEFINE r0 == NewRow(d, t, v, TtlDays)
<1>1. /\ r0 \in Row /\ r0.id = txid + 1
      /\ r0.domain = d /\ r0.ctype = t /\ r0.verdict = v
  BY NewRowType, TtlAssumption DEF DbInv
<1>2. /\ rows' = rows \union {r0} /\ domains' = domains \union {d}
      /\ txid' = txid + 1 /\ events' = events /\ today' = today /\ rules' = rules
      /\ txid \in Nat
  BY DEF ClassificationStore, DbInv, DatabaseTypeOK
<1> HIDE DEF r0
<1>3. DatabaseTypeOK'
  BY <1>1, <1>2 DEF DbInv, DatabaseTypeOK
<1>4. ExplainedIn(r0, events')
  <2>1. PICK e \in events : Explains(e, d, t, v)
    OBVIOUS
  <2>2. e.id <= txid /\ e.id \in Nat
    BY DEF DbInv, EventsNumbered, DatabaseTypeOK, Event
  <2>3. e.id <= r0.id
    BY <1>1, <1>2, <2>2
  <2> QED BY <1>1, <1>2, <2>1, <2>3 DEF ExplainedIn, Explains
<1>5. \A r \in rows' : \/ \E s \in rows : SameClassification(r, s)
                       \/ r.domain \in domains' /\ ExplainedIn(r, events')
  BY <1>1, <1>2, <1>4 DEF SameClassification
<1>6. txid <= txid' /\ domains \subseteq domains'
  BY <1>2
<1> QED BY <1>2, <1>3, <1>5, <1>6, CommitPreservesDbInv

(* A row and its event in one transaction, whatever it displaces. *)
LEMMA ClassifyInv ==
  ASSUME DbInv, NEW d \in Domains, NEW t \in Types, NEW v \in Verdict,
         NEW ttl \in Nat, NEW S \in SUBSET rows,
         Classify(d, t, v, ttl, S)
  PROVE  DbInv' /\ events \subseteq events'
<1> DEFINE r0 == NewRow(d, t, v, ttl)
           e0 == NewEvent(d, "classified", t, v)
<1>1. /\ r0 \in Row /\ r0.id = txid + 1
      /\ r0.domain = d /\ r0.ctype = t /\ r0.verdict = v
  BY NewRowType DEF DbInv
<1>2. /\ e0 \in Event /\ e0.id = txid + 1 /\ e0.domain = d
      /\ Explains(e0, d, t, v)
  BY NewEventType, TypesNamed DEF DbInv, ClassificationAction
<1>3. /\ rows' = Expire(S) \union {r0}
      /\ events' = events \union {e0}
      /\ domains' = domains \union {e.domain : e \in {e0}}
      /\ txid' = txid + 1 /\ today' = today /\ rules' = rules /\ txid \in Nat
  BY DEF Classify, InsertEvents, DbInv, DatabaseTypeOK
<1>4. /\ Expire(S) \subseteq Row
      /\ \A r \in Expire(S) : \E s \in rows : SameClassification(r, s)
  BY ExpireKeeps DEF DbInv
<1> HIDE DEF r0, e0
<1>5. DatabaseTypeOK'
  BY <1>1, <1>2, <1>3, <1>4 DEF DbInv, DatabaseTypeOK
<1>6. \A e \in events' : e \in events \/ (e.domain \in domains' /\ e.id <= txid')
  BY <1>2, <1>3
<1>7. r0.domain \in domains' /\ ExplainedIn(r0, events')
  BY <1>1, <1>2, <1>3 DEF ExplainedIn
<1>8. \A r \in rows' : \/ \E s \in rows : SameClassification(r, s)
                       \/ r.domain \in domains' /\ ExplainedIn(r, events')
  BY <1>3, <1>4, <1>7
<1>9. events \subseteq events' /\ domains \subseteq domains' /\ txid <= txid'
  BY <1>3
<1> QED BY <1>5, <1>6, <1>8, <1>9, CommitPreservesDbInv

LEMMA DisplacedType ==
  ASSUME NEW d, NEW t
  PROVE  Displaced(d, t) \in SUBSET rows
  BY DEF Displaced, RowsOf

LEMMA ExcludeRuleClassifyInv ==
  ASSUME DbInv, NEW d \in Domains, NEW t \in Types, ExcludeRuleClassify(d, t)
  PROVE  DbInv' /\ events \subseteq events'
<1> DEFINE v == [match |-> FALSE, conf |-> "enough", src |-> "config_exclude_rule"]
<1>1. v \in Verdict
  BY DEF Verdict, Confidence, SourceType
<1>2. Classify(d, t, v, TtlDays, {})
  BY DEF ExcludeRuleClassify
<1> QED BY <1>1, <1>2, ClassifyInv, TtlAssumption

LEMMA ApplyPatternClassificationInv ==
  ASSUME DbInv, NEW d \in Domains, NEW t \in Types, NEW rule \in Rule,
         ApplyPatternClassification(d, t, rule)
  PROVE  DbInv' /\ events \subseteq events'
<1> DEFINE v == [match |-> rule.match, conf |-> "enough", src |-> rule.src]
<1>1. v \in Verdict
  BY DEF Verdict, Confidence, SourceType, Rule
<1>2. Classify(d, t, v, Forever, Displaced(d, t))
  BY DEF ApplyPatternClassification
<1> QED BY <1>1, <1>2, ClassifyInv, DisplacedType, TtlAssumption

LEMMA ApplyAdminClassificationInv ==
  ASSUME DbInv, NEW d \in Domains, NEW t \in Types, NEW m \in BOOLEAN,
         NEW ttl \in Nat, ApplyAdminClassification(d, t, m, ttl)
  PROVE  DbInv' /\ events \subseteq events'
<1> DEFINE v == [match |-> m, conf |-> "enough", src |-> "admin"]
<1>1. v \in Verdict
  BY DEF Verdict, Confidence, SourceType
<1>2. Classify(d, t, v, ttl, {})
  BY DEF ApplyAdminClassification
<1> QED BY <1>1, <1>2, ClassifyInv

(* Rows end, rows begin, and each that begins has its event: the shape of  *)
(* an expiry and of a reconcile.                                           *)
LEMMA RevisionInv ==
  ASSUME DbInv, NEW S \in SUBSET rows, NEW N \in SUBSET Row, NEW E \in SUBSET Event,
         rows' = Expire(S) \union N, InsertEvents(E), UNCHANGED <<today, rules>>,
         \A e \in E : e.id = txid + 1,
         \A n \in N : n.id = txid + 1 /\ \E e \in E : Explains(e, n.domain, n.ctype, n.verdict)
  PROVE  DbInv' /\ events \subseteq events'
<1>1. /\ events' = events \union E /\ domains' = domains \union {e.domain : e \in E}
      /\ txid' = txid + 1 /\ txid \in Nat
  BY DEF InsertEvents, DbInv, DatabaseTypeOK
<1>2. /\ Expire(S) \subseteq Row
      /\ \A r \in Expire(S) : \E s \in rows : SameClassification(r, s)
  BY ExpireKeeps DEF DbInv
<1>3. DatabaseTypeOK'
  BY <1>1, <1>2 DEF DbInv, DatabaseTypeOK, Event
<1>4. \A e \in events' : e \in events \/ (e.domain \in domains' /\ e.id <= txid')
  BY <1>1
<1>5. ASSUME NEW n \in N PROVE n.domain \in domains' /\ ExplainedIn(n, events')
  <2>1. PICK e \in E : Explains(e, n.domain, n.ctype, n.verdict)
    OBVIOUS
  <2>2. e.id = txid + 1 /\ n.id = txid + 1 /\ e.domain = n.domain
    BY <2>1 DEF Explains
  <2>3. e \in events' /\ e.id <= n.id
    BY <1>1, <2>2
  <2> QED BY <1>1, <2>1, <2>2, <2>3 DEF ExplainedIn
<1>6. \A r \in rows' : \/ \E s \in rows : SameClassification(r, s)
                       \/ r.domain \in domains' /\ ExplainedIn(r, events')
  BY <1>2, <1>5
<1>7. events \subseteq events' /\ domains \subseteq domains' /\ txid <= txid'
  BY <1>1
<1> QED BY <1>3, <1>4, <1>6, <1>7, CommitPreservesDbInv

LEMMA DomainExpireInv ==
  ASSUME DbInv, NEW d \in Domains, DomainExpire(d)
  PROVE  DbInv' /\ events \subseteq events'
<1> DEFINE S == {r \in rows : r.domain = d /\ IsActive(r)}
           E == {NewEvent(d, "expired", NoType, NoVerdict)}
<1>1. E \in SUBSET Event /\ \A e \in E : e.id = txid + 1
  BY NewEventType, NoVerdictType, TypesNamed DEF DbInv, ClassificationAction
<1>2. rows' = Expire(S) \union {} /\ InsertEvents(E) /\ UNCHANGED <<today, rules>>
  BY DEF DomainExpire
<1>3. S \in SUBSET rows
  OBVIOUS
<1> HIDE DEF S, E
<1> QED BY <1>1, <1>2, <1>3, RevisionInv

LEMMA DomainRequeueInv ==
  ASSUME DbInv, NEW S \in SUBSET Domains, DomainRequeue(S)
  PROVE  DbInv' /\ events \subseteq events'
<1> DEFINE E == {NewEvent(d, "queued", NoType, NoVerdict) : d \in S}
<1>1. E \in SUBSET Event /\ \A e \in E : e.id = txid + 1
  <2>1. ASSUME NEW d \in S
        PROVE  /\ NewEvent(d, "queued", NoType, NoVerdict) \in Event
               /\ NewEvent(d, "queued", NoType, NoVerdict).id = txid + 1
    BY NewEventType, NoVerdictType, TypesNamed DEF DbInv, ClassificationAction
  <2> QED BY <2>1
<1>2. InsertEvents(E) /\ UNCHANGED <<today, rows, rules>>
  BY DEF DomainRequeue
<1> HIDE DEF E
<1> QED BY <1>1, <1>2, InsertEventsInv

LEMMA InsertRuleInv ==
  ASSUME DbInv, NEW r \in Rule, InsertRule(r)
  PROVE  DbInv' /\ events \subseteq events'
<1>1. /\ rules' = rules \union {[r EXCEPT !.id = txid + 1]}
      /\ txid' = txid + 1 /\ txid \in Nat
      /\ UNCHANGED <<today, domains, events, rows>>
  BY DEF InsertRule, DbInv, DatabaseTypeOK
<1>2. [r EXCEPT !.id = txid + 1] \in Rule
  BY <1>1 DEF Rule
<1>3. DatabaseTypeOK'
  BY <1>1, <1>2 DEF DbInv, DatabaseTypeOK
<1>4. \A s \in rows' : \E q \in rows : SameClassification(s, q)
  BY <1>1 DEF SameClassification
<1>5. txid <= txid' /\ domains \subseteq domains' /\ events \subseteq events'
  BY <1>1
<1>6. \A e \in events' : e \in events \/ (e.domain \in domains' /\ e.id <= txid')
  BY <1>1
<1> QED BY <1>3, <1>4, <1>5, <1>6, CommitPreservesDbInv

LEMMA ExpireRuleInv ==
  ASSUME DbInv, NEW r, ExpireRule(r)
  PROVE  DbInv' /\ events \subseteq events'
  BY DEF ExpireRule, DbInv, DatabaseTypeOK, DomainsKnown, RowsExplained, EventsNumbered

LEMMA ReconcileInv ==
  ASSUME DbInv, NEW entries, ReconcileProvisionedClassifications(entries),
         entries \subseteq [domain : Domains, ctype : Types, match : BOOLEAN]
  PROVE  DbInv' /\ events \subseteq events'
<1> DEFINE changed == Changed(entries)
           removed == Removed(entries)
           displaced == UNION {Displaced(e.domain, e.ctype) : e \in changed}
           S == removed \union Replaced(entries) \union displaced
           N == {NewRow(e.domain, e.ctype, ProvisionedVerdict(e), Forever) : e \in changed}
           E1 == {NewEvent(e.domain, "classified", e.ctype, ProvisionedVerdict(e)) : e \in changed}
           E2 == {NewEvent(r.domain, "expired", r.ctype, NoVerdict) : r \in removed}
<1>1. rows' = Expire(S) \union N /\ InsertEvents(E1 \union E2) /\ UNCHANGED <<today, rules>>
  BY DEF ReconcileProvisionedClassifications
<1>2. \A e \in changed : /\ e.domain \in Domains /\ e.ctype \in Types
                         /\ ProvisionedVerdict(e) \in Verdict
  BY DEF Changed, ProvisionedVerdict, Verdict, Confidence, SourceType
<1>3. removed \subseteq rows /\ Replaced(entries) \subseteq rows /\ displaced \subseteq rows
  BY DisplacedType DEF Removed, Replaced, Provisioned
<1>4. \A r \in removed : r.domain \in Domains /\ r.ctype \in Types
  BY <1>3 DEF DbInv, DatabaseTypeOK, Row
<1> HIDE DEF changed, removed, displaced
<1>5. S \in SUBSET rows
  BY <1>3
<1>6. E1 \in SUBSET Event /\ \A e \in E1 : e.id = txid + 1
  BY <1>2, NewEventType, TypesNamed DEF DbInv, ClassificationAction
<1>7. E2 \in SUBSET Event /\ \A e \in E2 : e.id = txid + 1
  BY <1>4, NewEventType, NoVerdictType DEF DbInv, ClassificationAction
<1>8. N \in SUBSET Row /\ \A n \in N : n.id = txid + 1
  BY <1>2, NewRowType, TtlAssumption DEF DbInv
<1>9. \A n \in N : \E e \in E1 : Explains(e, n.domain, n.ctype, n.verdict)
  <2> SUFFICES ASSUME NEW x \in changed
               PROVE  LET n == NewRow(x.domain, x.ctype, ProvisionedVerdict(x), Forever)
                      IN  \E e \in E1 : Explains(e, n.domain, n.ctype, n.verdict)
    OBVIOUS
  <2>1. Explains(NewEvent(x.domain, "classified", x.ctype, ProvisionedVerdict(x)),
                 x.domain, x.ctype, ProvisionedVerdict(x))
    BY <1>2, NewEventType, TypesNamed DEF DbInv, ClassificationAction
  <2> QED BY <2>1 DEF NewRow
<1> HIDE DEF S, N, E1, E2
<1>10. E1 \union E2 \in SUBSET Event /\ \A e \in E1 \union E2 : e.id = txid + 1
  BY <1>6, <1>7
<1>11. \A n \in N : n.id = txid + 1
                   /\ \E e \in E1 \union E2 : Explains(e, n.domain, n.ctype, n.verdict)
  BY <1>8, <1>9
<1> QED BY <1>1, <1>5, <1>8, <1>10, <1>11, RevisionInv

(* The projection may be replaced by rows that the log explains. *)
LEMMA ReplaceRowsInv ==
  ASSUME DbInv, NEW S \in SUBSET Row, \A r \in S : ExplainedIn(r, events),
         rows' = S, domains' = domains \union {r.domain : r \in S}, txid' = txid + 1,
         UNCHANGED <<today, events, rules>>
  PROVE  DbInv' /\ events \subseteq events'
<1>1. txid \in Nat
  BY DEF DbInv, DatabaseTypeOK
<1>2. DatabaseTypeOK'
  BY <1>1 DEF DbInv, DatabaseTypeOK, Row
<1>3. \A r \in rows' : r.domain \in domains' /\ ExplainedIn(r, events')
  OBVIOUS
<1>4. txid <= txid' /\ domains \subseteq domains'
  BY <1>1
<1> QED BY <1>2, <1>3, <1>4, CommitPreservesDbInv

LEMMA NewDayInv ==
  ASSUME DbInv, NewDay
  PROVE  DbInv' /\ events \subseteq events'
  BY DEF NewDay, DbInv, DatabaseTypeOK, DomainsKnown, RowsExplained, EventsNumbered

(* Reads and the steps of other parts leave the tables alone. *)
LEMMA UnchangedInv ==
  ASSUME DbInv, UNCHANGED dbVars
  PROVE  DbInv' /\ events \subseteq events'
  BY DEF dbVars, DbInv, DatabaseTypeOK, DomainsKnown, RowsExplained, EventsNumbered
-----------------------------------------------------------------------------
(* Confidence of the projection's rows *)

LEMMA ExpireConfident ==
  ASSUME DatabaseTypeOK, RowsConfident, NEW S \in SUBSET rows
  PROVE  \A r \in Expire(S) : r.verdict.conf = "enough"
  BY ExpireKeeps DEF RowsConfident, SameClassification

LEMMA ClassifyConfident ==
  ASSUME DatabaseTypeOK, RowsConfident,
         NEW d \in Domains, NEW t \in Types, NEW v \in Verdict, v.conf = "enough",
         NEW ttl \in Nat, NEW S \in SUBSET rows,
         Classify(d, t, v, ttl, S)
  PROVE  RowsConfident'
<1>1. NewRow(d, t, v, ttl).verdict = v
  BY NewRowType
<1>2. rows' = Expire(S) \union {NewRow(d, t, v, ttl)}
  BY DEF Classify
<1> QED BY <1>1, <1>2, ExpireConfident DEF RowsConfident

(* A blocked domain has a confident positive row, and that row an event. *)
LEMMA EvidenceFromRows ==
  ASSUME DbInv, RowsConfident
  PROVE  BlockedOnEvidence
<1> SUFFICES ASSUME NEW t \in Types, NEW d \in BlockedDomains(t)
             PROVE  \E e \in events :
                      /\ e.action = "classified" /\ e.domain = d
                      /\ e.ctype \in {t, ALL_CLASSIFICATION_TYPE}
                      /\ e.verdict.match /\ e.verdict.conf = "enough"
  BY DEF BlockedOnEvidence
<1>1. PICK r \in rows : /\ r.domain = d
                        /\ r.ctype \in {t, ALL_CLASSIFICATION_TYPE}
                        /\ r.verdict.match
  BY DEF BlockedDomains, IsBlocked, IsBlockedOn, RowsOf
<1>2. PICK e \in events : Explains(e, r.domain, r.ctype, r.verdict)
  BY DEF DbInv, RowsExplained
<1> QED BY <1>1, <1>2 DEF Explains, RowsConfident

-----------------------------------------------------------------------------
(* The record that Latest chooses exists as soon as there is one at all:   *)
(* the numbers of committed transactions are bounded, so the distance to   *)
(* the bound has a minimum.                                                *)
LEMMA LatestIsNewest ==
  ASSUME NEW S, S # {}, NEW n \in Nat, \A x \in S : x.id \in Nat /\ x.id <= n
  PROVE  Latest(S) \in S /\ \A y \in S : y.id <= Latest(S).id
<1> DEFINE T == {n - x.id : x \in S}
<1>1. T \subseteq Nat /\ T # {}
  OBVIOUS
<1>2. PICK m \in T : \A k \in T : ~ (<<k, m>> \in OpToRel(<, Nat))
  BY <1>1, WFMin, NatLessThanWellFounded
<1>3. \A k \in T : m <= k
  <2> HIDE DEF T
  <2>1. \A k \in T : ~ (k < m)
    BY <1>1, <1>2, Zenon DEF OpToRel
  <2> QED BY <1>1, <2>1
<1>4. \E x \in S : \A y \in S : y.id <= x.id
  <2>1. PICK x \in S : m = n - x.id
    OBVIOUS
  <2>2. \A y \in S : y.id <= x.id
    <3> SUFFICES ASSUME NEW y \in S PROVE y.id <= x.id
      OBVIOUS
    <3>1. n - x.id <= n - y.id
      BY <1>3, <2>1
    <3> QED BY <3>1
  <2> QED BY <2>2
<1> QED BY <1>4 DEF Latest
=============================================================================
