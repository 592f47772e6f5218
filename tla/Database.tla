------------------------------ MODULE Database ------------------------------
(***************************************************************************)
(* The PostgreSQL schema shared by every service, the read queries they    *)
(* decide on, and one action per write transaction of                      *)
(* common/src/db/{models,operations}.rs.  The services (QueueProcessor,    *)
(* AdminServer) are built from these transactions.                         *)
(*                                                                         *)
(* A transaction is one step, and txid is its place in commit order: it    *)
(* stands for created_at (NOW()), by which every "latest" query orders.    *)
(* today is the clock that TTLs are measured against, in days.             *)
(* A verdict is a match flag and a confidence band: "low" is under the     *)
(* classifier's min_confidence, "enough" is not, and "out" is above 1,     *)
(* which the CHECK on domain_classifications refuses.                      *)
(***************************************************************************)
EXTENDS Integers, FiniteSets

CONSTANTS
  Domains,       \* the domain names that can appear
  Classifiers,   \* names of the [[classifier]] entries of the configuration
  TtlDays,       \* effective_ttl_days of a classifier
  Forever,       \* never_expires_at, in days from now
  InitialRules   \* pattern rules that are in force at the start

ALL_CLASSIFICATION_TYPE == "all"

(* The classification type of an event that names none. *)
NoType == "untyped"

(* Config::validate refuses a classifier called "all" and a negative TTL;  *)
(* what never expires is valid today at least.                             *)
ASSUME ClassifiersAssumption ==
  ALL_CLASSIFICATION_TYPE \notin Classifiers /\ NoType \notin Classifiers
ASSUME TtlAssumption == TtlDays \in Nat /\ Forever \in Nat \ {0}

VARIABLES
  today,         \* the clock, in days
  txid,          \* how many transactions have committed
  domains,       \* table domains: its primary keys
  events,        \* table domain_classification_events, append-only
  rows,          \* table domain_classifications, the projection
  rules          \* table provisioned_pattern_rules: the valid rows

dbVars == <<today, txid, domains, events, rows, rules>>

-----------------------------------------------------------------------------
(* The tables *)

Types == Classifiers \union {ALL_CLASSIFICATION_TYPE}
Confidence == {"low", "enough", "out"}
SourceType == {"llm_prompt", "admin", "config_exclude_rule",
               "provisioned", "provisioned_pattern"}
ClassificationAction == {"queued", "classifying", "classified", "error", "expired"}
ClassifierState == {"Current", "Expired", "Error", "Missing"}

(* A classified event carries the verdict in its action_data; every other  *)
(* action carries at most the classification_type.                         *)
Verdict == [match : BOOLEAN, conf : Confidence, src : SourceType]
NoVerdict == [match |-> FALSE, conf |-> "low", src |-> "llm_prompt"]

Event ==
  {e \in [id : Nat, day : Nat, domain : Domains, action : ClassificationAction,
          ctype : Types \union {NoType}, verdict : Verdict] :
     e.action = "classified" => e.ctype # NoType}

Row == [id : Nat, domain : Domains, ctype : Types, verdict : Verdict,
        validOn : Nat, validUntil : Nat]

Rule == [id : Nat, covers : SUBSET Domains, ctype : Types, match : BOOLEAN,
         src : {"provisioned_pattern", "admin"}]

(* The rules in force at the start are older than anything in the tables. *)
ASSUME InitialRulesAssumption ==
  InitialRules \subseteq Rule /\ \A r \in InitialRules : r.id = 0

DatabaseTypeOK ==
  /\ today \in Nat
  /\ txid \in Nat
  /\ domains \subseteq Domains
  /\ events \subseteq Event
  /\ rows \subseteq Row
  /\ rules \subseteq Rule

DatabaseInit ==
  /\ today = 0
  /\ txid = 0
  /\ domains = {}
  /\ events = {}
  /\ rows = {}
  /\ rules = InitialRules

-----------------------------------------------------------------------------
(* Queries *)

(* The one with the greatest created_at. *)
Latest(S) == CHOOSE x \in S : \A y \in S : y.id <= x.id

ActiveOn(r, day) == r.validOn <= day /\ day < r.validUntil

IsActive(r) == ActiveOn(r, today)

RowsOf(d, t) == {r \in rows : r.domain = d /\ r.ctype = t}

TypedEvents(d, t) == {e \in events : e.domain = d /\ e.ctype = t}

IsErrored(d, t) ==
  /\ TypedEvents(d, t) # {}
  /\ Latest(TypedEvents(d, t)).action = "error"

(* Bug: the state is taken from the log alone. *)
DomainStateOfLog(d, t) == IF IsErrored(d, t) THEN "Error" ELSE "Missing"

(* The newest row decides, whatever older rows are still valid. *)
DomainState(d, t) ==
  IF RowsOf(d, t) # {}
    THEN IF today < Latest(RowsOf(d, t)).validUntil THEN "Current" ELSE "Expired"
    ELSE IF IsErrored(d, t) THEN "Error" ELSE "Missing"

ErroredClassifications == {k \in Domains \X Types : IsErrored(k[1], k[2])}

HasAllOverride(d) == \E r \in RowsOf(d, ALL_CLASSIFICATION_TYPE) : IsActive(r)

(* The blocklist of a type, asked for a day: some row of the type that was *)
(* valid then is a match, or there was none and some "all" row is.         *)
IsBlockedOn(d, t, day) ==
  LET perType == {r \in RowsOf(d, t) : ActiveOn(r, day)}
      all     == {r \in RowsOf(d, ALL_CLASSIFICATION_TYPE) : ActiveOn(r, day)}
  IN  \/ \E r \in perType : r.verdict.match
      \/ perType = {} /\ \E r \in all : r.verdict.match

IsBlocked(d, t) == IsBlockedOn(d, t, today)

BlockedDomains(t) == {d \in Domains : IsBlocked(d, t)}

-----------------------------------------------------------------------------
(* Records the transactions write *)

NewEvent(d, action, t, v) ==
  [id |-> txid + 1, day |-> today, domain |-> d, action |-> action,
   ctype |-> t, verdict |-> v]

(* Bug: the TTL is subtracted. *)
NewRowBackwards(d, t, v, ttl) ==
  [id |-> txid + 1, domain |-> d, ctype |-> t, verdict |-> v,
   validOn |-> today, validUntil |-> today - ttl]

NewRow(d, t, v, ttl) ==
  [id |-> txid + 1, domain |-> d, ctype |-> t, verdict |-> v,
   validOn |-> today, validUntil |-> today + ttl]

(* UPDATE ... SET valid_until = now on the rows of S. *)
Expire(S) == {[r EXCEPT !.validUntil = today] : r \in S} \union (rows \ S)

(* Bug: whatever its source, the row is displaced. *)
DisplacedAny(d, t) == {r \in RowsOf(d, t) : today < r.validUntil}

(* What a pattern or a provisioned row displaces.  manual_exclude_rule is  *)
(* in the code's list too, but no code writes such a row.                  *)
Displaced(d, t) ==
  {r \in RowsOf(d, t) : /\ today < r.validUntil
                        /\ r.verdict.src \in {"llm_prompt", "config_exclude_rule"}}

(* Bug: the domain is left to others. *)
InsertEventsOnly(E) ==
  /\ events' = events \union E
  /\ txid' = txid + 1
  /\ UNCHANGED domains

(* Every event insert also upserts its domain, in the same statement. *)
InsertEvents(E) ==
  /\ events' = events \union E
  /\ domains' = domains \union {e.domain : e \in E}
  /\ txid' = txid + 1

-----------------------------------------------------------------------------
(* The write transactions *)

InsertEvent(d, action, t) ==
  /\ InsertEvents({NewEvent(d, action, t, NoVerdict)})
  /\ UNCHANGED <<today, rows, rules>>

(* The first of the two transactions that record an LLM verdict. *)
InsertClassifiedEvent(d, t, v) ==
  /\ InsertEvents({NewEvent(d, "classified", t, v)})
  /\ UNCHANGED <<today, rows, rules>>

(* The second: it displaces nothing and reads nothing back. *)
ClassificationStore(d, t, v) ==
  /\ v.conf # "out"
  /\ rows' = rows \union {NewRow(d, t, v, TtlDays)}
  /\ domains' = domains \union {d}
  /\ txid' = txid + 1
  /\ UNCHANGED <<today, events, rules>>

(* A row and its classified event in one transaction. *)
Classify(d, t, v, ttl, displaced) ==
  /\ rows' = Expire(displaced) \union {NewRow(d, t, v, ttl)}
  /\ InsertEvents({NewEvent(d, "classified", t, v)})
  /\ UNCHANGED <<today, rules>>

ExcludeRuleClassify(d, t) ==
  Classify(d, t, [match |-> FALSE, conf |-> "enough", src |-> "config_exclude_rule"],
           TtlDays, {})

(* A confidence out of range fails the CHECK, and nothing is written. *)
ApplyAdminClassification(d, t, m, ttl) ==
  Classify(d, t, [match |-> m, conf |-> "enough", src |-> "admin"], ttl, {})

(* t is the caller's: the queue processor passes each classifier's name,   *)
(* not the rule's own type.                                                *)
ApplyPatternClassification(d, t, rule) ==
  Classify(d, t, [match |-> rule.match, conf |-> "enough", src |-> rule.src],
           Forever, Displaced(d, t))

(* Bug: only what a classifier said is expired. *)
DomainExpireLlm(d) ==
  /\ rows' = Expire({r \in rows : r.domain = d /\ IsActive(r)
                                  /\ r.verdict.src = "llm_prompt"})
  /\ InsertEvents({NewEvent(d, "expired", NoType, NoVerdict)})
  /\ UNCHANGED <<today, rules>>

(* Bug: rows that ran out on their own are ended as well. *)
DomainExpireEver(d) ==
  /\ rows' = Expire({r \in rows : r.domain = d})
  /\ InsertEvents({NewEvent(d, "expired", NoType, NoVerdict)})
  /\ UNCHANGED <<today, rules>>

DomainExpire(d) ==
  /\ rows' = Expire({r \in rows : r.domain = d /\ IsActive(r)})
  /\ InsertEvents({NewEvent(d, "expired", NoType, NoVerdict)})
  /\ UNCHANGED <<today, rules>>

(* Bug: the event names the type that failed. *)
DomainRequeueTyped(S) ==
  /\ InsertEvents({NewEvent(k[1], "queued", k[2], NoVerdict) :
                     k \in {x \in ErroredClassifications : x[1] \in S}})
  /\ UNCHANGED <<today, rows, rules>>

DomainRequeue(S) ==
  /\ InsertEvents({NewEvent(d, "queued", NoType, NoVerdict) : d \in S})
  /\ UNCHANGED <<today, rows, rules>>

InsertRule(r) ==
  /\ rules' = rules \union {[r EXCEPT !.id = txid + 1]}
  /\ txid' = txid + 1
  /\ UNCHANGED <<today, domains, events, rows>>

ExpireRule(r) ==
  /\ rules' = rules \ {r}
  /\ UNCHANGED <<today, txid, domains, events, rows>>

(* Reconciling the exact entries of a file, which holds at most one per    *)
(* (domain, type): what is provisioned now, and what must change.          *)
SameKey(r, e) == r.domain = e.domain /\ r.ctype = e.ctype

Provisioned == {r \in rows : r.verdict.src = "provisioned" /\ today < r.validUntil}

Changed(entries) ==
  {e \in entries : ~ \E r \in Provisioned : SameKey(r, e) /\ r.verdict.match = e.match}

(* Bug: the row with the old value stays. *)
ReplacedNone(entries) == {}

Replaced(entries) == {r \in Provisioned : \E e \in Changed(entries) : SameKey(r, e)}

Removed(entries) == {r \in Provisioned : ~ \E e \in entries : SameKey(r, e)}

ProvisionedVerdict(e) == [match |-> e.match, conf |-> "enough", src |-> "provisioned"]

ReconcileProvisionedClassifications(entries) ==
  LET changed == Changed(entries)
      removed == Removed(entries)
      displaced == UNION {Displaced(e.domain, e.ctype) : e \in changed}
  IN  /\ rows' = Expire(removed \union Replaced(entries) \union displaced)
                   \union {NewRow(e.domain, e.ctype, ProvisionedVerdict(e), Forever) : e \in changed}
      /\ InsertEvents({NewEvent(e.domain, "classified", e.ctype, ProvisionedVerdict(e)) : e \in changed}
                        \union {NewEvent(r.domain, "expired", r.ctype, NoVerdict) : r \in removed})
      /\ UNCHANGED <<today, rules>>

(* A day passes. *)
NewDay ==
  /\ today' = today + 1
  /\ UNCHANGED <<txid, domains, events, rows, rules>>
-----------------------------------------------------------------------------
(* Properties of the tables, whichever services write them *)

(* Every domain the event log or the projection speaks of has its row in   *)
(* domains, whatever path wrote it and wherever that path stopped: the     *)
(* metrics and the status queries count from the domains table (the CTE    *)
(* of ClassificationEventInsert).                                          *)
DomainsKnown ==
  /\ \A e \in events : e.domain \in domains
  /\ \A r \in rows : r.domain \in domains

Explains(e, d, t, v) ==
  e.action = "classified" /\ e.domain = d /\ e.ctype = t /\ e.verdict = v

(* The projection never runs ahead of the event log: each of its rows has  *)
(* a classified event with the same verdict, committed no later.  An LLM   *)
(* verdict is written in two transactions, so a crash, a failed call or a  *)
(* second processor may come between them.                                 *)
RowsExplained ==
  \A r \in rows : \E e \in events :
    Explains(e, r.domain, r.ctype, r.verdict) /\ e.id <= r.id

(* A domain is on the blocklist of a type only on recorded evidence: a     *)
(* confident positive verdict for the type itself or for "all".            *)
BlockedOnEvidence ==
  \A t \in Types : \A d \in BlockedDomains(t) : \E e \in events :
    /\ e.action = "classified" /\ e.domain = d
    /\ e.ctype \in {t, ALL_CLASSIFICATION_TYPE}
    /\ e.verdict.match /\ e.verdict.conf = "enough"
=============================================================================
