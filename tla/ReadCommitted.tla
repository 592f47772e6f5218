---------------------------- MODULE ReadCommitted ----------------------------
(***************************************************************************)
(* The transactions of common/src/db, statement by statement, as they run  *)
(* side by side in PostgreSQL at its default level, READ COMMITTED: every  *)
(* statement sees what was committed when it began and what its own        *)
(* transaction did, and waits for a transaction that holds what it needs.  *)
(* The other modules take each of them as one step; this one is about what *)
(* goes on inside.  Of the events it has the "classified" ones, which a    *)
(* rebuild reads; appending any other waits for nobody, except that it     *)
(* upserts the row of its domain.                                          *)
(***************************************************************************)
EXTENDS Integers, Sequences, Functions

CONSTANTS
  Domains,
  Keys,       \* what an ensure_* function looks up: prompts, sources
  Txs,        \* transactions; each runs one program
  Past,       \* what was committed before they began
  Batches,    \* the domains a requeue or a rebuild is for, in its order
  Lists       \* the entries a reconcile is sent

Sources == {"llm", "exclude", "pattern", "admin", "provisioned"}

(* What a verdict says, on whose account. *)
Verdict == [src : Sources, match : BOOLEAN]

(* A row of domain_classifications, or a "classified" event, with its      *)
(* values as a match or none, and the transaction that inserted it.        *)
Row == [domain : Domains, src : Sources, match : BOOLEAN, by : Txs \union {Past}]

(* An entry of the list that a reconcile gets. *)
ProvisionedEntry == [domain : Domains, match : BOOLEAN]

ASSUME ReadCommittedAssumption ==
  /\ Past \notin Txs
  /\ Keys = {"prompt", "prompt_source", "suffix", "pattern_label", "provisioned"}
  /\ Batches \subseteq Seq(Domains)
  /\ \A order \in Batches : IsInjective(order)
  /\ Lists \subseteq Seq(ProvisionedEntry)

Statement ==
       [op : {"ensure"}, key : Keys]
  \union [op : {"upsert"}, domain : Domains, log : SUBSET Verdict]
  \union [op : {"insert"}, domain : Domains, src : Sources, match : BOOLEAN]
  \union [op : {"end"}, domains : SUBSET Domains, srcs : SUBSET Sources]
  \union [op : {"read"}, desired : Seq(ProvisionedEntry)]
  \union [op : {"readlog"}]

(* What a reconcile has to do yet: entries of its list, the values it read *)
(* for each domain, and domains that are not in the list.                  *)
Plan == [entries : Seq(ProvisionedEntry), found : [Domains -> SUBSET BOOLEAN],
         removed : SUBSET Domains]
NoPlan == [entries |-> <<>>, found |-> [d \in Domains |-> {}], removed |-> {}]

VARIABLES
  status,     \* of each transaction
  task,       \* task[t]: the name of its program
  prog,       \* prog[t]: its statements, of a reconcile those of one entry
  at,         \* at[t]: the statement it is at
  phase,      \* phase[t]: where it is in a statement that takes more than one step
  mine,       \* mine[t]: the rows its UPDATE has yet to take
  plan,       \* plan[t]: the rest of a reconcile
  ensured,    \* rows with a key, each with the transaction that inserted it
  holder,     \* holder[d]: who updated the domains row of d, {} if nobody open
  rows,       \* the rows of domain_classifications, each with its inserter
  ended,      \* what became of them: a row and the transaction that ended it
  events,     \* the "classified" events, each with its inserter
  seen        \* seen[t]: what was committed when t read the active rows, or
              \* when it began to delete them all

control == <<status, task, prog, at, phase, mine, plan>>
data == <<ensured, holder, rows, ended, events, seen>>
vars == <<control, data>>

Open == {t \in Txs : status[t] = "open"}
Committed == {t \in Txs : status[t] = "committed"} \union {Past}

-----------------------------------------------------------------------------
(* The programs.  What a row says is compared for provisioned rows only;   *)
(* the others say TRUE here.                                               *)

Ensure(k) == [op |-> "ensure", key |-> k]
Upsert(d) == [op |-> "upsert", domain |-> d, log |-> {}]
Log(d, s, m) == [op |-> "upsert", domain |-> d, log |-> {[src |-> s, match |-> m]}]
Insert(d, s, m) == [op |-> "insert", domain |-> d, src |-> s, match |-> m]
End(D, S) == [op |-> "end", domains |-> D, srcs |-> S]

Program(name, steps) == [name |-> name, steps |-> steps]

ClassifiedEvent(d) ==
  Program("classified", <<Ensure("prompt"), Ensure("prompt_source"), Log(d, "llm", TRUE)>>)

(* Bug: the old verdicts are ended, but only after the domain is taken. *)
ClassificationStoreEnding(d) ==
  Program("store", <<Ensure("prompt"), Ensure("prompt_source"), Upsert(d),
                     End({d}, {"llm"}), Insert(d, "llm", TRUE)>>)

ClassificationStore(d) ==
  Program("store", <<Ensure("prompt"), Ensure("prompt_source"), Upsert(d),
                     Insert(d, "llm", TRUE)>>)

(* Bug: a source the table does not have. *)
ExcludeRuleMisnamed(d) ==
  Program("exclude", <<Upsert(d), Ensure("suffix"), Insert(d, "suffix", FALSE),
                       Log(d, "exclude", FALSE)>>)

ExcludeRuleClassify(d) ==
  Program("exclude", <<Upsert(d), Ensure("suffix"), Insert(d, "exclude", FALSE),
                       Log(d, "exclude", FALSE)>>)

ApplyAdminClassification(d) ==
  Program("admin", <<Upsert(d), Insert(d, "admin", TRUE), Log(d, "admin", TRUE)>>)

Overruled == {"llm", "exclude"}

ApplyPatternClassification(d) ==
  Program("pattern", <<Upsert(d), End({d}, Overruled), Insert(d, "pattern", TRUE),
                       Log(d, "pattern", TRUE)>>)

(* The event comes after the update here, and takes the domain last. *)
DomainExpire(d) ==
  Program("expire", <<End({d}, Sources), Upsert(d)>>)

(* One transaction for the batch, in an order of its own. *)
Requeue(order) ==
  Program("requeue", [i \in DOMAIN order |-> Upsert(order[i])])

(* It reads the log, by a connection of its own, before it begins. *)
RebuildProjections == Program("rebuild", <<[op |-> "readlog"]>>)

ReconcilePatternRule == Program("rule", <<Ensure("pattern_label")>>)

(* Bug: the active rows are read before the source row is ensured. *)
ReconcileReadFirst(desired) ==
  Program("reconcile", <<[op |-> "read", desired |-> desired], Ensure("provisioned")>>)

Reconcile(desired) ==
  Program("reconcile", <<Ensure("provisioned"), [op |-> "read", desired |-> desired]>>)

Programs ==
  (UNION {{ClassifiedEvent(d), ClassificationStore(d), ExcludeRuleClassify(d),
           ApplyAdminClassification(d), ApplyPatternClassification(d),
           DomainExpire(d)} : d \in Domains})
  \union {ReconcilePatternRule, RebuildProjections}
  \union {Requeue(order) : order \in Batches}
  \union {Reconcile(desired) : desired \in Lists}

-----------------------------------------------------------------------------
Init ==
  /\ status = [t \in Txs |-> "new"]
  /\ task = [t \in Txs |-> "none"]
  /\ prog = [t \in Txs |-> <<>>]
  /\ at = [t \in Txs |-> 1]
  /\ phase = [t \in Txs |-> "begin"]
  /\ mine = [t \in Txs |-> {}]
  /\ plan = [t \in Txs |-> NoPlan]
  /\ ensured \in SUBSET {[key |-> "provisioned", by |-> Past]}
  /\ holder = [d \in Domains |-> {}]
  /\ rows = {[domain |-> d, src |-> "llm", match |-> TRUE, by |-> Past] : d \in Domains}
  /\ ended = {}
  /\ events = rows
  /\ seen = [t \in Txs |-> {}]

Begin(t) ==
  /\ status[t] = "new"
  /\ status' = [status EXCEPT ![t] = "open"]
  /\ \E p \in Programs :
       task' = [task EXCEPT ![t] = p.name] /\ prog' = [prog EXCEPT ![t] = p.steps]
  /\ UNCHANGED <<at, phase, mine, plan, data>>

Now(t) == prog[t][at[t]]

IsNext(t, op) ==
  t \in Open /\ phase[t] = "begin" /\ at[t] \in DOMAIN prog[t] /\ Now(t).op = op

IsIn(t, p) == t \in Open /\ phase[t] = p

(* The statement of t is done, or goes on as p. *)
Done(t) ==
  /\ at' = [at EXCEPT ![t] = @ + 1]
  /\ phase' = [phase EXCEPT ![t] = "begin"]
  /\ UNCHANGED <<status, task, prog>>

GoOn(t, p) ==
  /\ phase' = [phase EXCEPT ![t] = p]
  /\ UNCHANGED <<status, task, prog, at, plan>>

SeesAs(t, u) == u \in Committed \union {t}

IsEnded(r, t) == \E e \in ended : e.row = r /\ SeesAs(t, e.by)

(* The rows t sees as active. *)
ActiveRows(t) == {r \in rows : SeesAs(t, r.by) /\ ~ IsEnded(r, t)}

(* The open transactions that keep t waiting where it is. *)
Blockers(t) ==
  {u \in Open \ {t} :
     \/ IsNext(t, "ensure") /\ [key |-> Now(t).key, by |-> u] \in ensured
     \/ IsNext(t, "upsert") /\ u \in holder[Now(t).domain]
     \/ IsIn(t, "lock") /\ \E e \in ended : e.by = u /\ e.row \in mine[t]}

-----------------------------------------------------------------------------
(* ensure_* : INSERT ... ON CONFLICT DO NOTHING, then SELECT *)

InsertKey(t) == ensured' = ensured \union {[key |-> Now(t).key, by |-> t]}

(* Bug: a SELECT decides whether to insert, and no index stands behind it. *)
EnsureRowUnlessSeen(t) ==
  /\ IsNext(t, "ensure")
  /\ IF \E e \in ensured : e.key = Now(t).key /\ SeesAs(t, e.by)
       THEN UNCHANGED ensured
       ELSE InsertKey(t)
  /\ GoOn(t, "get")
  /\ UNCHANGED <<mine, holder, rows, ended, events, seen>>

(* Bug: a row counts before it is committed. *)
EnsureRowAtOnce(t) ==
  /\ IsNext(t, "ensure")
  /\ IF \E e \in ensured : e.key = Now(t).key THEN UNCHANGED ensured ELSE InsertKey(t)
  /\ GoOn(t, "get")
  /\ UNCHANGED <<mine, holder, rows, ended, events, seen>>

(* The unique index makes the INSERT wait for an open transaction that     *)
(* inserted the same key, and then find its row if it was committed.       *)
EnsureRow(t) ==
  /\ IsNext(t, "ensure") /\ Blockers(t) = {}
  /\ IF \E e \in ensured : e.key = Now(t).key THEN UNCHANGED ensured ELSE InsertKey(t)
  /\ GoOn(t, "get")
  /\ UNCHANGED <<mine, holder, rows, ended, events, seen>>

Finds(t) == \E e \in ensured : e.key = Now(t).key /\ SeesAs(t, e.by)

(* fetch_one, in a snapshot of its own. *)
GetRow(t) ==
  /\ IsIn(t, "get") /\ Finds(t)
  /\ Done(t)
  /\ UNCHANGED <<mine, plan, data>>

-----------------------------------------------------------------------------
(* The row of the domain, and with it the event, if there is one. *)
UpsertDomain(t) ==
  /\ IsNext(t, "upsert") /\ Blockers(t) = {}
  /\ holder' = [holder EXCEPT ![Now(t).domain] = {t}]
  /\ events' = events \union
       {[domain |-> Now(t).domain, src |-> v.src, match |-> v.match, by |-> t] : v \in Now(t).log}
  /\ Done(t)
  /\ UNCHANGED <<mine, plan, ensured, rows, ended, seen>>

InsertRow(t) ==
  /\ IsNext(t, "insert")
  /\ rows' = rows \union {[domain |-> Now(t).domain, src |-> Now(t).src,
                            match |-> Now(t).match, by |-> t]}
  /\ Done(t)
  /\ UNCHANGED <<mine, plan, ensured, holder, ended, events, seen>>

(* UPDATE or DELETE: the rows it is for are those it sees when it begins... *)
BeginEnd(t) ==
  /\ IsNext(t, "end")
  /\ mine' = [mine EXCEPT ![t] =
       {r \in ActiveRows(t) : r.domain \in Now(t).domains /\ r.src \in Now(t).srcs}]
  /\ seen' = [seen EXCEPT ![t] = IF task[t] = "rebuild" THEN Committed ELSE @]
  /\ GoOn(t, "lock")
  /\ UNCHANGED <<ensured, holder, rows, ended, events>>

(* ...which it takes one by one, waiting for whoever is ending the row, and *)
(* leaving it alone if it was ended meanwhile.                              *)
EndRow(t, r) ==
  /\ IsIn(t, "lock") /\ r \in mine[t]
  /\ ~ \E e \in ended : e.row = r /\ e.by \in Open \ {t}
  /\ ended' = IF IsEnded(r, t) THEN ended ELSE ended \union {[row |-> r, by |-> t]}
  /\ mine' = [mine EXCEPT ![t] = @ \ {r}]
  /\ GoOn(t, "lock")
  /\ UNCHANGED <<ensured, holder, rows, events, seen>>

EndDone(t) ==
  /\ IsIn(t, "lock") /\ mine[t] = {}
  /\ Done(t)
  /\ UNCHANGED <<mine, plan, data>>

-----------------------------------------------------------------------------
(* reconcile_provisioned_classifications *)

ExpireProvisioned(d) == End({d}, {"provisioned"})

(* What is written for entry e, when its domain was found to have a value  *)
(* or none.                                                                *)
ReconcileEntry(e, found) ==
  LET expire == ExpireProvisioned(e.domain)
      overrule == End({e.domain}, Overruled)
      upsert == Upsert(e.domain)
      insert == Insert(e.domain, "provisioned", e.match)
      log == Log(e.domain, "provisioned", e.match)
  IN  IF found = {e.match} THEN <<>>
      ELSE IF found = {} THEN <<overrule, upsert, insert, log>>
      ELSE <<expire, overrule, upsert, insert, log>>

(* Of two active rows of one domain the last one read counts. *)
ReadActive(t) ==
  /\ IsNext(t, "read")
  /\ LET desired == Now(t).desired
         active  == {r \in ActiveRows(t) : r.src = "provisioned"}
     IN  \E found \in [Domains -> SUBSET BOOLEAN] :
           /\ \A d \in Domains :
                LET values == {r.match : r \in {r \in active : r.domain = d}}
                IN  IF values = {} THEN found[d] = {} ELSE \E m \in values : found[d] = {m}
           /\ plan' = [plan EXCEPT ![t] =
                [entries |-> desired, found |-> found,
                 removed |-> {r.domain : r \in active} \ {desired[i].domain : i \in DOMAIN desired}]]
  /\ seen' = [seen EXCEPT ![t] = Committed]
  /\ Done(t)
  /\ UNCHANGED <<mine, ensured, holder, rows, ended, events>>

IsThrough(t) == t \in Open /\ phase[t] = "begin" /\ at[t] \notin DOMAIN prog[t]

RunPart(t, steps) ==
  /\ prog' = [prog EXCEPT ![t] = steps]
  /\ at' = [at EXCEPT ![t] = 1]
  /\ UNCHANGED <<status, task, phase, mine, data>>

(* The list from first to last... *)
NextEntry(t) ==
  /\ IsThrough(t) /\ plan[t].entries # <<>>
  /\ LET e == Head(plan[t].entries) IN RunPart(t, ReconcileEntry(e, plan[t].found[e.domain]))
  /\ plan' = [plan EXCEPT ![t].entries = Tail(@)]

(* ...then the domains that are not in it, in any order. *)
NextRemoved(t) ==
  /\ IsThrough(t) /\ plan[t].entries = <<>>
  /\ \E d \in plan[t].removed :
       /\ RunPart(t, <<ExpireProvisioned(d), Upsert(d)>>)
       /\ plan' = [plan EXCEPT ![t].removed = @ \ {d}]

-----------------------------------------------------------------------------
(* rebuild_projections_from_events *)

(* The event that counts for d.  An event has the time at which its        *)
(* transaction began, which is not the order they commit in, so any of     *)
(* those that t sees may be the latest, but not one from before them all.  *)
Latest(t, d) ==
  LET logged == {e \in events : e.domain = d /\ SeesAs(t, e.by)}
      recent == {e \in logged : e.by # Past}
  IN  IF recent = {} THEN logged ELSE recent

(* Everything is deleted, then each domain taken and its row written as the *)
(* event has it.                                                            *)
RowsOf(order, latest) ==
  [i \in 1..1 + 2 * Len(order) |->
    IF i = 1 THEN End(Domains, Sources)
    ELSE LET d == order[i \div 2] IN
         IF i % 2 = 0 THEN Upsert(d) ELSE Insert(d, latest[d].src, latest[d].match)]

ReadLog(t) ==
  /\ IsNext(t, "readlog")
  /\ \E order \in Batches : \E latest \in [Range(order) -> events] :
       /\ \A d \in Domains : d \in Range(order) <=> Latest(t, d) # {}
       /\ \A d \in Range(order) : latest[d] \in Latest(t, d)
       /\ RunPart(t, RowsOf(order, latest))
  /\ UNCHANGED plan

-----------------------------------------------------------------------------
(* What an open transaction has beside its effects. *)
Forget(t) ==
  /\ task' = [task EXCEPT ![t] = "none"]
  /\ prog' = [prog EXCEPT ![t] = <<>>]
  /\ at' = [at EXCEPT ![t] = 1]
  /\ phase' = [phase EXCEPT ![t] = "begin"]
  /\ mine' = [mine EXCEPT ![t] = {}]
  /\ plan' = [plan EXCEPT ![t] = NoPlan]
  /\ holder' = [d \in Domains |-> holder[d] \ {t}]

Commit(t) ==
  /\ IsThrough(t) /\ plan[t].entries = <<>> /\ plan[t].removed = {}
  /\ status' = [status EXCEPT ![t] = "committed"]
  /\ Forget(t)
  /\ UNCHANGED <<ensured, rows, ended, events, seen>>

(* An error, a lost connection, or the choice of the deadlock detector. *)
Rollback(t) ==
  /\ t \in Open
  /\ status' = [status EXCEPT ![t] = "aborted"]
  /\ ensured' = {e \in ensured : e.by # t}
  /\ Forget(t)
  /\ rows' = {r \in rows : r.by # t}
  /\ ended' = {e \in ended : e.by # t}
  /\ events' = {e \in events : e.by # t}
  /\ UNCHANGED seen

Step(t) ==
  \/ EnsureRow(t) \/ GetRow(t) \/ UpsertDomain(t) \/ InsertRow(t)
  \/ BeginEnd(t) \/ (\E r \in rows : EndRow(t, r)) \/ EndDone(t)
  \/ ReadActive(t) \/ NextEntry(t) \/ NextRemoved(t) \/ ReadLog(t)

Next == \E t \in Txs : Begin(t) \/ Step(t) \/ Commit(t) \/ Rollback(t)

Spec == Init /\ [][Next]_vars
-----------------------------------------------------------------------------
TypeOK ==
  /\ status \in [Txs -> {"new", "open", "committed", "aborted"}]
  /\ DOMAIN task = Txs
  /\ prog \in [Txs -> Seq(Statement)]
  /\ at \in [Txs -> Nat]
  /\ phase \in [Txs -> {"begin", "get", "lock"}]
  /\ mine \in [Txs -> SUBSET Row]
  /\ plan \in [Txs -> Plan]
  /\ ensured \subseteq [key : Keys, by : Txs \union {Past}]
  /\ holder \in [Domains -> SUBSET Txs]
  /\ rows \subseteq Row
  /\ ended \subseteq [row : rows, by : Txs]
  /\ events \subseteq Row
  /\ seen \in [Txs -> SUBSET (Txs \union {Past})]

(* A prompt or a source has one row, however many transactions ensure it   *)
(* at once.                                                                *)
OneRowPerKey ==
  \A e, f \in ensured : e.key = f.key => e = f

(* The SELECT of an ensure_* function has a row to fetch, whoever inserted *)
(* it and whether or not its own INSERT did anything.                      *)
EnsureFinds ==
  \A t \in Txs : IsIn(t, "get") => Finds(t)

(* t waits, through others, for itself: it is in every set that contains   *)
(* those it waits for and those that a member waits for.                   *)
InDeadlock(t) ==
  \A S \in SUBSET Txs :
    Blockers(t) \subseteq S /\ (\A u \in S : Blockers(u) \subseteq S) => t \in S

(* The transactions that record a verdict, or an admin's decision on one   *)
(* domain, are never those that a deadlock can undo: a verdict the LLM     *)
(* took minutes for is not lost to a race.                                 *)
VerdictsSurvive ==
  \A t \in Txs : task[t] \in {"classified", "store", "exclude", "admin"} => ~ InDeadlock(t)

(* Two provisioned rows of one domain are active at once, and may          *)
(* contradict each other, only if the transactions that wrote them, each a *)
(* reconcile or a rebuild, ran at the same time: neither was committed     *)
(* when the other read the active rows, or began to delete them.  And      *)
(* never if one of them was the first reconcile of all, which made the     *)
(* source: the others wait for it, or find what it logged.                 *)
DuplicatesOverlap ==
  \A r, s \in rows :
    LET created(t) == [key |-> "provisioned", by |-> t] \in ensured IN
    /\ r # s /\ r.domain = s.domain /\ r.src = "provisioned" /\ s.src = "provisioned"
    /\ {r, s} \subseteq {q \in rows : q.by \in Committed /\ ~ IsEnded(q, Past)}
    => /\ r.by \notin seen[s.by] /\ s.by \notin seen[r.by]
       /\ ~ created(r.by) /\ ~ created(s.by)
=============================================================================
