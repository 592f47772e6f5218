------------------------------- MODULE System -------------------------------
(***************************************************************************)
(* The queue processors and the admin API over the one database and the    *)
(* one stream they share: every interleaving of their transactions.        *)
(***************************************************************************)
EXTENDS QueueProcessor, AdminServer

systemVars == <<qpVars, handlerVars>>

SystemTypeOK == TypeOK /\ HandlerTypeOK

SystemInit == Init /\ HandlerInit

SystemNext ==
  \/ Next /\ UNCHANGED handlerVars
  \/ AdminStep /\ UNCHANGED procVars

SystemSpec == SystemInit /\ [][SystemNext]_systemVars
-----------------------------------------------------------------------------
(* Properties of the database under both services *)

(* A provisioned decision is stated once: two valid provisioned rows of    *)
(* one (domain, type) could disagree, and reconcile's map of the active    *)
(* rows keeps only one of them.  Rows change by reconcile runs, admin      *)
(* requests, TTLs and rebuilds, and between a rebuild's read of the log    *)
(* and its transaction others may commit theirs.  Transactions that        *)
(* overlap, which these steps do not, are ReadCommitted's subject          *)
(* (DuplicatesOverlap).                                                    *)
ProvisionedUnique ==
  \A r, s \in rows :
    /\ r.domain = s.domain /\ r.ctype = s.ctype
    /\ r.verdict.src = "provisioned" /\ s.verdict.src = "provisioned"
    /\ IsActive(r) /\ IsActive(s)
    => r = s

Decisions(R) == {[domain |-> r.domain, ctype |-> r.ctype, match |-> r.verdict.match] : r \in R}

(* A reconcile leaves in force, of what is provisioned, what its file says *)
(* and nothing else.  It reads the active rows into a map that holds one   *)
(* row per (domain, type) and skips an entry that the map agrees with, so  *)
(* this depends on what earlier reconciles, expiries and rebuilds from a   *)
(* stale read of the log left in the table.                                *)
DeclaredEntries ==
  [][\A h \in Handlers : \A file \in ProvisionedFiles :
       ReconcileFile(h, file) => Decisions(Provisioned') = file.exact]_systemVars

(* An admin's rows and rules survive every step of a reconcile run, the    *)
(* retroactive application of its patterns included (the doc comments of   *)
(* reconcile_provisioned_classifications and _patterns).                   *)
AdminPreserved ==
  [][\A h \in Handlers : ReconcileStep(h) =>
       /\ {r \in rows : r.verdict.src = "admin"} \subseteq rows'
       /\ {r \in rules : r.src = "admin"} \subseteq rules']_systemVars

DeclaredBy(r) == [covers |-> r.covers, ctype |-> r.ctype, match |-> r.match]

(* A reconcile run that gets to its end leaves exactly the declared rules  *)
(* in force, whatever an earlier run that was cut short left behind.       *)
DeclaredRules ==
  [][\A h \in Handlers : ReconcileDone(h) =>
       {DeclaredBy(r) : r \in {x \in rules : x.src = "provisioned_pattern"}}
         = desired[h]]_systemVars

AppliedTo(rule, d) ==
  \E r \in RowsOf(d, rule.ctype) :
    IsActive(r) /\ r.verdict.src = rule.src /\ r.verdict.match = rule.match

(* The domains a rule covers that were in the database before it was. *)
Reached(rule) ==
  {d \in rule.covers : \E e \in events : e.domain = d /\ e.id < rule.id}

IsFor(r, rule) == SameRule(r, rule) /\ r.match = rule.match /\ r.src = rule.src

(* Some handler has still to apply the rule to d. *)
StillDue(rule, d) ==
  \E h \in Handlers :
    /\ \E r \in applying[h] : IsFor(r, rule)
    /\ hpc[h] = "domains" \/ (hpc[h] = "apply" /\ d \in targets[h])

(* Every rule in force has reclassified the domains that were there when   *)
(* it was made, or is about to: through skipped entries, overlapping       *)
(* requests and processors at work, as long as no request was cut short    *)
(* and no row ended otherwise, by an expiry, a rebuild or its age.         *)
RetroactiveUnlessCut ==
  used["abort"] = 0 /\ used["expire"] = 0 /\ used["rebuild"] = 0 /\ today < Forever
    => \A rule \in rules : \A d \in Reached(rule) : AppliedTo(rule, d) \/ StillDue(rule, d)

(* "What was blocked at a specific time": the blocklist of a day gone by   *)
(* stays what it was, whatever is classified, overruled, expired or        *)
(* reconciled later; only a rebuild of the projection rewrites it.         *)
PastIsFixed ==
  [][\A t \in Types : \A day \in 0..today-1 : \A d \in Domains :
       IsBlockedOn(d, t, day)' = IsBlockedOn(d, t, day)
       \/ \E h \in Handlers : RebuildWrite(h)]_systemVars

(* The log and the projection agree on what /expire did: a valid row has a *)
(* classified event that no expiry of its domain follows, however the      *)
(* classifications of admins, files, patterns and processors interleave    *)
(* with it.  An LLM row is written after its event, and an expiry between  *)
(* the two misses it; a rebuild looks at classified events only.           *)
ExpiryHolds ==
  used["rebuild"] = 0 =>
    \A r \in rows : IsActive(r) /\ r.verdict.src # "llm_prompt" =>
      \E e \in events :
        /\ Explains(e, r.domain, r.ctype, r.verdict)
        /\ ~ \E x \in events : /\ x.action = "expired" /\ x.ctype = NoType
                               /\ x.domain = r.domain /\ x.id > e.id

(* An error is not lost sight of.  It is listed in /errors, or a later     *)
(* verdict or withdrawal, of its type or of "all", has taken its place, or *)
(* the domain is in the stream and will be tried again: through a requeue  *)
(* whose publication fails and a crash in the middle of the retry.  Not if *)
(* a database call fails or an ack is late, for then a retry that left     *)
(* nothing but its "classifying" event is acknowledged, and not after a    *)
(* rebuild, whose rows may stop the retry.                                 *)
FailuresFollowedUp ==
  used["dbfail"] = 0 /\ used["late"] = 0 /\ used["rebuild"] = 0 =>
    \A e \in {x \in events : x.action = "error"} :
      \/ IsErrored(e.domain, e.ctype)
      \/ \E f \in events : /\ f.domain = e.domain /\ f.id > e.id
                          /\ f.ctype \in {e.ctype, ALL_CLASSIFICATION_TYPE}
                          /\ f.action \in {"classified", "expired"}
      \/ \E i \in MessageIds : payload[i] = e.domain /\ mstate[i] \in {"ready", "delivered"}
-----------------------------------------------------------------------------
(* What the repository's text says and the code does not do *)

(* README: provisioned rules "take precedence over LLM results".  Where an *)
(* exact rule says a domain is no match, and neither an admin nor a        *)
(* pattern says otherwise, the domain is not on that blocklist.            *)
ProvisionedOverLlm ==
  \A r \in rows :
    /\ r.verdict.src = "provisioned" /\ IsActive(r) /\ ~ r.verdict.match
    /\ \A s \in RowsOf(r.domain, r.ctype) :
         IsActive(s) => s.verdict.src \in {"provisioned", "llm_prompt"}
    => ~ IsBlocked(r.domain, r.ctype)

(* operations.rs: for a new or changed pattern "all existing domains in    *)
(* the database that match the regex are immediately reclassified".  At    *)
(* the end of any reconcile run, then, every provisioned rule in force is  *)
(* applied; but a rule is committed first, and the run that follows one    *)
(* that was cut short skips it.                                            *)
RetroactiveRules ==
  [][\A h \in Handlers : ReconcileDone(h) =>
       \A rule \in {r \in rules : r.src = "provisioned_pattern"} :
         \A d \in Reached(rule) : AppliedTo(rule, d)]_systemVars

(* operations.rs: for a changed pattern the domains it covers "are          *)
(* immediately reclassified".  A declared pattern that says no match takes *)
(* them off the list, unless another source or another declared pattern    *)
(* puts them there.                                                        *)
ReclassifiedByPattern ==
  [][\A h \in Handlers : ReconcileDone(h) =>
       \A e \in desired[h] : \A d \in domains \intersect e.covers :
         /\ ~ e.match
         /\ \A r \in RowsOf(d, e.ctype) : IsActive(r) => r.verdict.src = "provisioned_pattern"
         /\ ~ \E f \in desired[h] : d \in f.covers /\ f.ctype = e.ctype /\ f.match
         => ~ IsBlocked(d, e.ctype)]_systemVars
=============================================================================
