------------------------- MODULE ReadCommittedProofs -------------------------
(***************************************************************************)
(* What holds inside the transactions of common/src/db for any number of   *)
(* them, of domains, and any requests.                                     *)
(***************************************************************************)
EXTENDS ReadCommitted, TLAPS

(* A transaction works on rows it sees: its own or committed ones. *)
WorksOnSeen ==
  /\ \A t \in Txs : \A r \in mine[t] : r.by \in Committed \union {t}
  /\ \A e \in ended : e.row.by \in Committed \union {e.by}

Typed == TypeOK /\ WorksOnSeen

-----------------------------------------------------------------------------
(* The programs are sequences of statements. *)
LEMMA StatementType ==
  /\ \A k \in Keys : Ensure(k) \in Statement
  /\ \A d \in Domains : Upsert(d) \in Statement
  /\ \A d \in Domains, s \in Sources, m \in BOOLEAN : Log(d, s, m) \in Statement
  /\ \A d \in Domains, s \in Sources, m \in BOOLEAN : Insert(d, s, m) \in Statement
  /\ \A D \in SUBSET Domains, S \in SUBSET Sources : End(D, S) \in Statement
  /\ \A l \in Seq(ProvisionedEntry) : [op |-> "read", desired |-> l] \in Statement
  /\ [op |-> "readlog"] \in Statement
  BY DEF Ensure, Upsert, Log, Insert, End, Statement, Verdict

LEMMA Tuples ==
  ASSUME NEW S, NEW a \in S, NEW b \in S, NEW c \in S, NEW e \in S
  PROVE  <<a, b>> \in Seq(S) /\ <<a, b, c>> \in Seq(S) /\ <<a, b, c, e>> \in Seq(S)
  OBVIOUS

LEMMA ProgramType ==
  ASSUME NEW p \in Programs
  PROVE  p.steps \in Seq(Statement)
<1>1. ASSUME NEW d \in Domains,
             p \in {ClassifiedEvent(d), ClassificationStore(d), ExcludeRuleClassify(d),
                    ApplyAdminClassification(d), ApplyPatternClassification(d),
                    DomainExpire(d)}
      PROVE  p.steps \in Seq(Statement)
  <2>1. /\ Ensure("prompt") \in Statement /\ Ensure("prompt_source") \in Statement
        /\ Ensure("suffix") \in Statement /\ Upsert(d) \in Statement
        /\ Insert(d, "llm", TRUE) \in Statement /\ Insert(d, "exclude", FALSE) \in Statement
        /\ Insert(d, "admin", TRUE) \in Statement /\ Insert(d, "pattern", TRUE) \in Statement
        /\ Log(d, "llm", TRUE) \in Statement /\ Log(d, "exclude", FALSE) \in Statement
        /\ Log(d, "admin", TRUE) \in Statement /\ Log(d, "pattern", TRUE) \in Statement
        /\ End({d}, Overruled) \in Statement /\ End({d}, Sources) \in Statement
    BY StatementType, ReadCommittedAssumption DEF Sources, Overruled
  <2>2. ClassifiedEvent(d).steps \in Seq(Statement)
    BY <2>1, Tuples, Zenon DEF ClassifiedEvent, Program
  <2>3. ClassificationStore(d).steps \in Seq(Statement)
    BY <2>1, Tuples, Zenon DEF ClassificationStore, Program
  <2>4. ExcludeRuleClassify(d).steps \in Seq(Statement)
    BY <2>1, Tuples, Zenon DEF ExcludeRuleClassify, Program
  <2>5. ApplyAdminClassification(d).steps \in Seq(Statement)
    BY <2>1, Tuples, Zenon DEF ApplyAdminClassification, Program
  <2>6. ApplyPatternClassification(d).steps \in Seq(Statement)
    BY <2>1, Tuples, Zenon DEF ApplyPatternClassification, Program
  <2>7. DomainExpire(d).steps \in Seq(Statement)
    BY <2>1, Tuples, Zenon DEF DomainExpire, Program
  <2> QED BY <1>1, <2>2, <2>3, <2>4, <2>5, <2>6, <2>7
<1>2. CASE p = ReconcilePatternRule
  BY <1>2, StatementType, ReadCommittedAssumption DEF ReconcilePatternRule, Program
<1>3. ASSUME NEW order \in Batches, p = Requeue(order)
      PROVE  p.steps \in Seq(Statement)
  BY <1>3, StatementType, ReadCommittedAssumption DEF Requeue, Program
<1>4. ASSUME NEW l \in Lists, p = Reconcile(l)
      PROVE  p.steps \in Seq(Statement)
  BY <1>4, StatementType, ReadCommittedAssumption DEF Reconcile, Program
<1>5. CASE p = RebuildProjections
  BY <1>5, StatementType DEF RebuildProjections, Program
<1> QED BY <1>1, <1>2, <1>3, <1>4, <1>5 DEF Programs

(* What a rebuild does is a sequence of statements too... *)
LEMMA RowsType ==
  ASSUME NEW order \in Seq(Domains), NEW latest \in [Range(order) -> Row]
  PROVE  RowsOf(order, latest) \in Seq(Statement)
<1> DEFINE n == 1 + 2 * Len(order)
           steps == RowsOf(order, latest)
<1>1. n \in Nat /\ End(Domains, Sources) \in Statement
  BY StatementType
<1>2. ASSUME NEW i \in 1..n, i # 1
      PROVE  order[i \div 2] \in Domains /\ order[i \div 2] \in Range(order)
  BY <1>2 DEF Range
<1>3. \A d \in Range(order) : latest[d].src \in Sources /\ latest[d].match \in BOOLEAN
  BY DEF Row
<1>4. ASSUME NEW i \in 1..n
      PROVE  steps[i] \in Statement
  <2> DEFINE d == order[i \div 2]
  <2>1. steps[i] = IF i = 1 THEN End(Domains, Sources)
                   ELSE IF i % 2 = 0 THEN Upsert(d)
                   ELSE Insert(d, latest[d].src, latest[d].match)
    BY DEF RowsOf
  <2>2. i # 1 => d \in Domains /\ d \in Range(order)
    BY <1>2
  <2> HIDE DEF d, steps, n
  <2>3. i # 1 => /\ Upsert(d) \in Statement
                 /\ Insert(d, latest[d].src, latest[d].match) \in Statement
    BY <2>2, <1>3, StatementType
  <2> QED BY <1>1, <2>1, <2>3, Zenon
<1>5. steps = [i \in 1..n |-> steps[i]]
  BY DEF RowsOf
<1> QED BY <1>1, <1>4, <1>5

(* ...and what a reconcile does for an entry. *)
LEMMA EntryType ==
  ASSUME NEW e \in ProvisionedEntry, NEW found \in SUBSET BOOLEAN
  PROVE  ReconcileEntry(e, found) \in Seq(Statement)
<1>1. /\ ExpireProvisioned(e.domain) \in Statement /\ End({e.domain}, Overruled) \in Statement
      /\ Upsert(e.domain) \in Statement /\ Insert(e.domain, "provisioned", e.match) \in Statement
      /\ Log(e.domain, "provisioned", e.match) \in Statement
  BY StatementType DEF ProvisionedEntry, ExpireProvisioned, Overruled, Sources
<1> QED BY <1>1 DEF ReconcileEntry

(* The statement a transaction is at, by its kind. *)
LEMMA NowType ==
  ASSUME TypeOK, NEW t \in Txs, at[t] \in DOMAIN prog[t]
  PROVE  /\ Now(t) \in Statement
         /\ Now(t).op = "ensure" => Now(t).key \in Keys
         /\ Now(t).op = "upsert" => Now(t).domain \in Domains /\ Now(t).log \subseteq Verdict
         /\ Now(t).op = "insert" => /\ Now(t).domain \in Domains /\ Now(t).src \in Sources
                                    /\ Now(t).match \in BOOLEAN
         /\ Now(t).op = "read" => Now(t).desired \in Seq(ProvisionedEntry)
<1>1. Now(t) \in Statement
  BY DEF TypeOK, Now
<1> QED BY <1>1 DEF Statement

-----------------------------------------------------------------------------
(* Types *)

LEMMA TypedInit == Init => Typed
<1> SUFFICES ASSUME Init PROVE Typed
  OBVIOUS
<1>1. NoPlan \in Plan
  BY DEF NoPlan, Plan
<1>2. rows \subseteq Row /\ \A r \in rows : r.by = Past
  <2> SUFFICES ASSUME NEW r \in rows PROVE r \in Row /\ r.by = Past
    OBVIOUS
  <2>1. PICK d \in Domains : r = [domain |-> d, src |-> "llm", match |-> TRUE, by |-> Past]
    BY DEF Init
  <2> QED BY <2>1 DEF Row, Sources
<1>3. ensured \subseteq [key : Keys, by : Txs \union {Past}]
  BY ReadCommittedAssumption DEF Init
<1>4. TypeOK
  BY <1>1, <1>2, <1>3 DEF Init, TypeOK
<1>5. WorksOnSeen
  BY DEF Init, WorksOnSeen
<1> QED BY <1>4, <1>5 DEF Typed

LEMMA BeginTyped ==
  ASSUME Typed, NEW t \in Txs, Begin(t)
  PROVE  Typed'
<1>1. PICK p \in Programs : task' = [task EXCEPT ![t] = p.name] /\ prog' = [prog EXCEPT ![t] = p.steps]
  BY DEF Begin
<1>2. p.steps \in Seq(Statement)
  BY ProgramType
<1>3. TypeOK'
  BY <1>1, <1>2 DEF Begin, Typed, TypeOK, data
<1>4. Committed' = Committed
  BY DEF Begin, Committed, Typed, TypeOK
<1> QED BY <1>3, <1>4 DEF Begin, Typed, WorksOnSeen, data

LEMMA EnsureRowTyped ==
  ASSUME Typed, NEW t \in Txs, EnsureRow(t)
  PROVE  Typed'
<1>1. Now(t).key \in Keys
  BY NowType DEF EnsureRow, IsNext, Typed
<1>2. TypeOK'
  BY <1>1 DEF EnsureRow, InsertKey, GoOn, Typed, TypeOK
<1>3. Committed' = Committed
  BY DEF EnsureRow, GoOn, Committed
<1> QED BY <1>2, <1>3 DEF EnsureRow, GoOn, Typed, WorksOnSeen

LEMMA GetRowTyped ==
  ASSUME Typed, NEW t \in Txs, GetRow(t)
  PROVE  Typed'
<1>1. TypeOK'
  BY DEF GetRow, Done, Typed, TypeOK, data
<1>2. Committed' = Committed
  BY DEF GetRow, Done, Committed
<1> QED BY <1>1, <1>2 DEF GetRow, Typed, WorksOnSeen, data

LEMMA UpsertDomainTyped ==
  ASSUME Typed, NEW t \in Txs, UpsertDomain(t)
  PROVE  Typed'
<1> DEFINE new == {[domain |-> Now(t).domain, src |-> v.src, match |-> v.match, by |-> t] :
                    v \in Now(t).log}
<1>0. Now(t).domain \in Domains /\ new \subseteq Row
  BY NowType DEF UpsertDomain, IsNext, Typed, Verdict, Row
<1>1. TypeOK'
  <2>1. events' = events \union new
    BY DEF UpsertDomain
  <2> HIDE DEF new
  <2> QED BY <1>0, <2>1 DEF UpsertDomain, Done, Typed, TypeOK
<1>2. Committed' = Committed
  BY DEF UpsertDomain, Done, Committed
<1> QED BY <1>1, <1>2 DEF UpsertDomain, Typed, WorksOnSeen

LEMMA InsertRowTyped ==
  ASSUME Typed, NEW t \in Txs, InsertRow(t)
  PROVE  Typed'
<1> DEFINE r == [domain |-> Now(t).domain, src |-> Now(t).src, match |-> Now(t).match, by |-> t]
<1>1. r \in Row
  BY NowType DEF InsertRow, IsNext, Typed, Row
<1>2. TypeOK'
  <2> HIDE DEF r
  <2>1. rows' = rows \union {r}
    BY DEF InsertRow, r
  <2> QED BY <1>1, <2>1 DEF InsertRow, Done, Typed, TypeOK
<1>3. Committed' = Committed
  BY DEF InsertRow, Done, Committed
<1> QED BY <1>2, <1>3 DEF InsertRow, Typed, WorksOnSeen

LEMMA BeginEndTyped ==
  ASSUME Typed, NEW t \in Txs, BeginEnd(t)
  PROVE  Typed'
<1> DEFINE S == {r \in ActiveRows(t) : r.domain \in Now(t).domains /\ r.src \in Now(t).srcs}
<1>1. S \subseteq rows /\ \A r \in S : r.by \in Committed \union {t}
  BY DEF ActiveRows, SeesAs
<1>2. mine' = [mine EXCEPT ![t] = S]
  BY DEF BeginEnd
<1> HIDE DEF S
<1>3. TypeOK'
  BY <1>1, <1>2 DEF BeginEnd, GoOn, Typed, TypeOK, Committed
<1>4. Committed' = Committed
  BY DEF BeginEnd, GoOn, Committed
<1> QED BY <1>1, <1>2, <1>3, <1>4 DEF BeginEnd, Typed, TypeOK, WorksOnSeen

LEMMA EndRowTyped ==
  ASSUME Typed, NEW t \in Txs, NEW r \in rows, EndRow(t, r)
  PROVE  Typed'
<1>1. TypeOK'
  BY DEF EndRow, GoOn, Typed, TypeOK
<1>2. Committed' = Committed
  BY DEF EndRow, GoOn, Committed
<1>3. r.by \in Committed \union {t}
  BY DEF EndRow, Typed, WorksOnSeen
<1> QED BY <1>1, <1>2, <1>3 DEF EndRow, Typed, TypeOK, WorksOnSeen

LEMMA EndDoneTyped ==
  ASSUME Typed, NEW t \in Txs, EndDone(t)
  PROVE  Typed'
<1>1. TypeOK'
  BY DEF EndDone, Done, Typed, TypeOK, data
<1>2. Committed' = Committed
  BY DEF EndDone, Done, Committed
<1> QED BY <1>1, <1>2 DEF EndDone, Typed, WorksOnSeen, data

LEMMA ReadActiveTyped ==
  ASSUME Typed, NEW t \in Txs, ReadActive(t)
  PROVE  Typed'
<1> DEFINE want == Now(t).desired
           active == {r \in ActiveRows(t) : r.src = "provisioned"}
           gone == {r.domain : r \in active} \ {want[i].domain : i \in DOMAIN want}
<1>1. want \in Seq(ProvisionedEntry)
  BY NowType DEF ReadActive, IsNext, Typed
<1>2. gone \subseteq Domains
  BY DEF ActiveRows, Typed, TypeOK, Row
<1>3. PICK found \in [Domains -> SUBSET BOOLEAN] :
        plan' = [plan EXCEPT ![t] = [entries |-> want, found |-> found, removed |-> gone]]
  BY DEF ReadActive
<1> HIDE DEF want, gone
<1>4. plan' \in [Txs -> Plan]
  BY <1>1, <1>2, <1>3 DEF Typed, TypeOK, Plan
<1>5. Committed' = Committed
  BY DEF ReadActive, Done, Committed
<1>6. Committed \subseteq Txs \union {Past}
  BY DEF Committed
<1>7. TypeOK'
  BY <1>4, <1>6 DEF ReadActive, Done, Typed, TypeOK
<1> QED BY <1>5, <1>7 DEF ReadActive, Typed, WorksOnSeen

LEMMA NextEntryTyped ==
  ASSUME Typed, NEW t \in Txs, NextEntry(t)
  PROVE  Typed'
<1> DEFINE e == Head(plan[t].entries)
<1>1. plan[t] \in Plan /\ plan[t].entries # <<>>
  BY DEF Typed, TypeOK, NextEntry
<1>2. e \in ProvisionedEntry /\ Tail(plan[t].entries) \in Seq(ProvisionedEntry)
  BY <1>1 DEF Plan
<1>3. plan[t].found[e.domain] \in SUBSET BOOLEAN
  BY <1>1, <1>2 DEF Plan, ProvisionedEntry
<1>4. ReconcileEntry(e, plan[t].found[e.domain]) \in Seq(Statement)
  BY <1>2, <1>3, EntryType
<1>5. RunPart(t, ReconcileEntry(e, plan[t].found[e.domain]))
  BY DEF NextEntry
<1>6. plan' = [plan EXCEPT ![t].entries = Tail(@)]
  BY DEF NextEntry
<1> HIDE DEF e
<1>7. plan' \in [Txs -> Plan]
  BY <1>1, <1>2, <1>6 DEF Typed, TypeOK, Plan
<1>8. TypeOK'
  BY <1>4, <1>5, <1>7 DEF RunPart, Typed, TypeOK, data
<1>9. Committed' = Committed
  BY <1>5 DEF RunPart, Committed
<1> QED BY <1>5, <1>8, <1>9 DEF RunPart, Typed, WorksOnSeen, data

LEMMA NextRemovedTyped ==
  ASSUME Typed, NEW t \in Txs, NextRemoved(t)
  PROVE  Typed'
<1>1. PICK d \in plan[t].removed :
        /\ RunPart(t, <<ExpireProvisioned(d), Upsert(d)>>)
        /\ plan' = [plan EXCEPT ![t].removed = @ \ {d}]
  BY DEF NextRemoved
<1>2. plan[t] \in Plan /\ d \in Domains
  BY DEF Typed, TypeOK, Plan
<1>3. ExpireProvisioned(d) \in Statement /\ Upsert(d) \in Statement
  BY <1>2, StatementType DEF ExpireProvisioned, Sources
<1>4. <<ExpireProvisioned(d), Upsert(d)>> \in Seq(Statement)
  BY <1>3
<1>5. plan' \in [Txs -> Plan]
  BY <1>1, <1>2 DEF Typed, TypeOK, Plan
<1>6. TypeOK'
  BY <1>1, <1>4, <1>5 DEF RunPart, Typed, TypeOK, data
<1>7. Committed' = Committed
  BY <1>1 DEF RunPart, Committed
<1> QED BY <1>1, <1>6, <1>7 DEF RunPart, Typed, WorksOnSeen, data

LEMMA ReadLogTyped ==
  ASSUME Typed, NEW t \in Txs, ReadLog(t)
  PROVE  Typed'
<1>0. PICK order \in Batches : \E latest \in [Range(order) -> events] :
        RunPart(t, RowsOf(order, latest))
  BY DEF ReadLog
<1>1. PICK latest \in [Range(order) -> events] : RunPart(t, RowsOf(order, latest))
  BY <1>0
<1>2. order \in Seq(Domains) /\ latest \in [Range(order) -> Row]
  BY ReadCommittedAssumption DEF Typed, TypeOK
<1>3. RowsOf(order, latest) \in Seq(Statement)
  BY <1>2, RowsType
<1>4. plan' = plan
  BY DEF ReadLog
<1>5. TypeOK'
  BY <1>1, <1>3, <1>4 DEF RunPart, Typed, TypeOK, data
<1>6. Committed' = Committed
  BY <1>1 DEF RunPart, Committed
<1> QED BY <1>1, <1>5, <1>6 DEF RunPart, Typed, WorksOnSeen, data

LEMMA CommitTyped ==
  ASSUME Typed, NEW t \in Txs, Commit(t)
  PROVE  Typed'
<1>1. NoPlan \in Plan
  BY DEF NoPlan, Plan
<1>2. TypeOK'
  BY <1>1 DEF Commit, Forget, Typed, TypeOK
<1>3. Committed \subseteq Committed'
  BY DEF Commit, Committed, Typed, TypeOK
<1> QED BY <1>2, <1>3 DEF Commit, Forget, Typed, TypeOK, WorksOnSeen

(* Nobody else has seen the rows of t, so nobody else can have ended them. *)
LEMMA RollbackTyped ==
  ASSUME Typed, NEW t \in Txs, Rollback(t)
  PROVE  Typed'
<1>1. NoPlan \in Plan
  BY DEF NoPlan, Plan
<1>2. t \notin Committed /\ Committed' = Committed
  BY ReadCommittedAssumption DEF Rollback, Open, Committed, Typed, TypeOK
<1>3. ended' \subseteq [row : rows', by : Txs]
  BY <1>2 DEF Rollback, Typed, TypeOK, WorksOnSeen
<1>4. TypeOK'
  BY <1>1, <1>3 DEF Rollback, Forget, Typed, TypeOK
<1>5. mine' = [mine EXCEPT ![t] = {}] /\ ended' \subseteq ended
  BY DEF Rollback, Forget
<1> QED BY <1>2, <1>4, <1>5 DEF Typed, TypeOK, WorksOnSeen

LEMMA StutterTyped == Typed /\ UNCHANGED vars => Typed'
  BY DEF Typed, TypeOK, WorksOnSeen, vars, control, data, Committed

LEMMA TypedStep ==
  ASSUME Typed, [Next]_vars
  PROVE  Typed'
<1>1. CASE UNCHANGED vars
  BY <1>1, StutterTyped
<1>2. ASSUME NEW t \in Txs, Begin(t) \/ Commit(t) \/ Rollback(t)
      PROVE  Typed'
  BY <1>2, BeginTyped, CommitTyped, RollbackTyped
<1>3. ASSUME NEW t \in Txs, Step(t)
      PROVE  Typed'
  BY <1>3, EnsureRowTyped, GetRowTyped, UpsertDomainTyped, InsertRowTyped, BeginEndTyped,
     EndRowTyped, EndDoneTyped, ReadActiveTyped, NextEntryTyped, NextRemovedTyped,
     ReadLogTyped
     DEF Step
<1> QED BY <1>1, <1>2, <1>3 DEF Next

(* Every statement of every transaction keeps to the tables' types.        *)
THEOREM TypeCorrect == Spec => []TypeOK
<1>1. Spec => []Typed
  BY TypedInit, TypedStep, PTL DEF Spec
<1>2. Typed => TypeOK
  BY DEF Typed
<1> QED BY <1>1, <1>2, PTL

-----------------------------------------------------------------------------
(* Keys *)

Keyed ==
  /\ \A t \in Txs : t \notin Open => phase[t] = "begin"
  /\ \A e \in ensured : e.by \in Open \union Committed
  /\ OneRowPerKey
  /\ EnsureFinds

LEMMA KeyedInit == Init => Keyed
  BY DEF Init, Keyed, OneRowPerKey, EnsureFinds, IsIn, Open, Committed

(* A step that ensures nothing, and after which whoever is at a SELECT was *)
(* there before.                                                           *)
LEMMA KeyedKept ==
  ASSUME Typed, Keyed, ensured' = ensured,
         Committed \subseteq Committed', Open \subseteq Open' \union Committed',
         \A u \in Txs : u \notin Open' => phase'[u] = "begin",
         \A u \in Txs : u \in Open' /\ phase'[u] = "get" =>
           u \in Open /\ phase[u] = "get" /\ prog'[u] = prog[u] /\ at'[u] = at[u]
  PROVE  Keyed'
<1>1. EnsureFinds'
  BY DEF Keyed, EnsureFinds, Finds, IsIn, Now, SeesAs
<1> QED BY <1>1 DEF Keyed, OneRowPerKey

LEMMA EnsureRowKeyed ==
  ASSUME Typed, Keyed, NEW t \in Txs, EnsureRow(t)
  PROVE  Keyed'
<1> DEFINE new == [key |-> Now(t).key, by |-> t]
<1>1. t \in Open /\ Open' = Open /\ Committed' = Committed
  BY DEF EnsureRow, IsNext, GoOn, Open, Committed
<1>2. \A e \in ensured : e.key = Now(t).key => e.by \in Committed \union {t}
  <2> SUFFICES ASSUME NEW e \in ensured, e.key = Now(t).key, e.by \in Open \ {t}
               PROVE  FALSE
    BY DEF Keyed
  <2>1. e = [key |-> Now(t).key, by |-> e.by]
    BY DEF Typed, TypeOK
  <2>2. e.by \in Blockers(t)
    BY <2>1 DEF Blockers, EnsureRow
  <2> QED BY <2>2 DEF EnsureRow
<1>3. \/ ensured' = ensured /\ \E e \in ensured : e.key = Now(t).key
      \/ ensured' = ensured \union {new} /\ \A e \in ensured : e.key # Now(t).key
  <2>1. IF \E e \in ensured : e.key = Now(t).key
          THEN UNCHANGED ensured
          ELSE ensured' = ensured \union {new}
    BY DEF EnsureRow, InsertKey
  <2> QED BY <2>1
<1>4. \E e \in ensured' : e.key = Now(t).key /\ e.by \in Committed \union {t}
  BY <1>2, <1>3
<1>5. prog' = prog /\ at' = at /\ phase' = [phase EXCEPT ![t] = "get"]
  BY DEF EnsureRow, GoOn
<1>6. EnsureFinds'
  <2> SUFFICES ASSUME NEW u \in Txs, IsIn(u, "get")'
               PROVE  Finds(u)'
    BY DEF EnsureFinds
  <2>1. CASE u = t
    BY <1>1, <1>4, <1>5, <2>1 DEF Finds, Now, SeesAs
  <2>2. CASE u # t
    <3>1. IsIn(u, "get")
      BY <1>1, <1>5, <2>2 DEF IsIn, Typed, TypeOK
    <3>2. Finds(u)
      BY <3>1 DEF Keyed, EnsureFinds
    <3> QED BY <1>1, <1>3, <1>5, <3>2 DEF Finds, Now, SeesAs
  <2> QED BY <2>1, <2>2
<1>7. OneRowPerKey'
  BY <1>3 DEF Keyed, OneRowPerKey
<1>8. \A e \in ensured' : e.by \in Open' \union Committed'
  BY <1>1, <1>3 DEF Keyed
<1>9. \A u \in Txs : u \notin Open' => phase'[u] = "begin"
  BY <1>1, <1>5 DEF Keyed, Typed, TypeOK
<1> QED BY <1>6, <1>7, <1>8, <1>9 DEF Keyed

LEMMA RollbackKeyed ==
  ASSUME Typed, Keyed, NEW t \in Txs, Rollback(t)
  PROVE  Keyed'
<1>1. t \notin Committed /\ Committed' = Committed /\ Open' = Open \ {t}
  BY ReadCommittedAssumption DEF Rollback, Open, Committed, Typed, TypeOK
<1>2. ensured' = {e \in ensured : e.by # t}
  BY DEF Rollback
<1>3. EnsureFinds'
  <2> SUFFICES ASSUME NEW u \in Txs, IsIn(u, "get")'
               PROVE  Finds(u)'
    BY DEF EnsureFinds
  <2>1. u # t /\ IsIn(u, "get") /\ Now(u)' = Now(u)
    BY <1>1 DEF IsIn, Rollback, Forget, Now, Typed, TypeOK
  <2>2. PICK e \in ensured : e.key = Now(u).key /\ e.by \in Committed \union {u}
    BY <2>1 DEF Keyed, EnsureFinds, Finds, SeesAs
  <2> QED BY <1>1, <1>2, <2>1, <2>2 DEF Finds, SeesAs
<1>4. \A u \in Txs : u \notin Open' => phase'[u] = "begin"
  BY <1>1 DEF Rollback, Forget, Keyed, Typed, TypeOK
<1> QED BY <1>1, <1>2, <1>3, <1>4 DEF Keyed, OneRowPerKey

LEMMA KeyedStep ==
  ASSUME Typed, Keyed, [Next]_vars
  PROVE  Keyed'
<1>1. CASE UNCHANGED vars
  <2>1. /\ status' = status /\ prog' = prog /\ at' = at /\ phase' = phase /\ ensured' = ensured
        /\ Open' = Open /\ Committed' = Committed
    BY <1>1 DEF vars, control, data, Open, Committed
  <2> QED BY <2>1, KeyedKept DEF Keyed
<1>2. ASSUME NEW t \in Txs, Begin(t)
      PROVE  Keyed'
  BY <1>2, KeyedKept DEF Begin, data, Open, Committed, Typed, TypeOK, Keyed
<1>3. ASSUME NEW t \in Txs, Commit(t)
      PROVE  Keyed'
  BY <1>3, KeyedKept DEF Commit, Forget, Open, Committed, IsThrough, Typed, TypeOK, Keyed
<1>4. ASSUME NEW t \in Txs, Rollback(t) \/ EnsureRow(t)
      PROVE  Keyed'
  BY <1>4, RollbackKeyed, EnsureRowKeyed
<1>5. ASSUME NEW t \in Txs, \/ GetRow(t) \/ UpsertDomain(t) \/ InsertRow(t)
                            \/ EndDone(t) \/ ReadActive(t)
      PROVE  Keyed'
  <2>1. Done(t) /\ ensured' = ensured
    BY <1>5 DEF GetRow, UpsertDomain, InsertRow, EndDone, ReadActive, data
  <2> QED BY <2>1, KeyedKept DEF Done, Open, Committed, Typed, TypeOK, Keyed
<1>6. ASSUME NEW t \in Txs, BeginEnd(t) \/ \E r \in rows : EndRow(t, r)
      PROVE  Keyed'
  <2>1. GoOn(t, "lock") /\ t \in Open /\ ensured' = ensured
    BY <1>6 DEF BeginEnd, EndRow, IsNext, IsIn
  <2> QED BY <2>1, KeyedKept DEF GoOn, Open, Committed, Typed, TypeOK, Keyed
<1>7. ASSUME NEW t \in Txs, NextEntry(t) \/ NextRemoved(t) \/ ReadLog(t)
      PROVE  Keyed'
  <2>1. /\ t \in Open /\ phase[t] = "begin"
        /\ ensured' = ensured /\ status' = status /\ phase' = phase
        /\ \A u \in Txs \ {t} : prog'[u] = prog[u] /\ at'[u] = at[u]
    BY <1>7 DEF NextEntry, NextRemoved, ReadLog, IsThrough, IsNext, RunPart, data, Typed, TypeOK
  <2> QED BY <2>1, KeyedKept DEF Open, Committed, Keyed
<1> QED BY <1>1, <1>2, <1>3, <1>4, <1>5, <1>6, <1>7 DEF Next, Step

LEMMA KeyedInvariance == Spec => [](Typed /\ Keyed)
<1>1. Init => Typed /\ Keyed
  BY TypedInit, KeyedInit
<1>2. Typed /\ Keyed /\ [Next]_vars => (Typed /\ Keyed)'
  BY TypedStep, KeyedStep
<1> QED BY <1>1, <1>2, PTL DEF Spec

(* A prompt or source never has two rows, however many transactions ensure *)
(* it at once (ON CONFLICT DO NOTHING).                                    *)
THEOREM KeysUnique == Spec => []OneRowPerKey
<1>1. Typed /\ Keyed => OneRowPerKey
  BY DEF Keyed
<1> QED BY <1>1, KeyedInvariance, PTL

(* Whoever ensures a prompt or source finds its row (fetch_one), also when *)
(* its own INSERT did nothing.                                             *)
THEOREM KeysEnsured == Spec => []EnsureFinds
<1>1. Typed /\ Keyed => EnsureFinds
  BY DEF Keyed
<1> QED BY <1>1, KeyedInvariance, PTL

-----------------------------------------------------------------------------
(* What a transaction holds is what its statements so far have taken.      *)

Took(t, s) == \E i \in DOMAIN prog[t] :
  /\ prog[t][i] = s
  /\ i < at[t] \/ (i = at[t] /\ phase[t] # "begin")

TookDomain(t, d) == \E i \in DOMAIN prog[t] :
  /\ prog[t][i].op = "upsert" /\ prog[t][i].domain = d
  /\ i < at[t] \/ (i = at[t] /\ phase[t] # "begin")

(* Of a transaction that gets its statements as it goes less is needed. *)
InParts(t) == task[t] \in {"reconcile", "rebuild"}

Held(t) ==
  /\ phase[t] # "begin" => at[t] \in DOMAIN prog[t]
  /\ phase[t] = "get" => Now(t).op = "ensure"
  /\ phase[t] = "lock" => Now(t).op = "end"
  /\ task[t] # "reconcile" => plan[t] = NoPlan
  /\ ~ InParts(t) =>
       /\ \E p \in Programs : p.name = task[t] /\ p.steps = prog[t]
       /\ \A e \in ensured : e.by = t => Took(t, Ensure(e.key))
       /\ \A d \in Domains : t \in holder[d] <=> TookDomain(t, d)
       /\ \A e \in ended : e.by = t => \E i \in DOMAIN prog[t] : prog[t][i].op = "end"
  /\ InParts(t) =>
       /\ \A i \in DOMAIN prog[t] : prog[t][i].op = "ensure" => prog[t][i].key = "provisioned"
       /\ \A i \in DOMAIN prog[t] : prog[t][i].op = "read" => task[t] = "reconcile"
       /\ \A i \in DOMAIN prog[t] : prog[t][i].op = "readlog" => task[t] = "rebuild"
       /\ \A e \in ensured : e.by = t => e.key = "provisioned"

Holding ==
  /\ \A t \in Open : Held(t)
  /\ \A t \in Txs \ Open : task[t] = "none" /\ at[t] = 1 /\ plan[t] = NoPlan
  /\ \A d \in Domains : holder[d] \subseteq Open /\ \A u, v \in holder[d] : u = v
  /\ \A e \in ended : e.by \in Open \union Committed

Inv == Typed /\ Keyed /\ Holding

(* The names tell the programs apart. *)
LEMMA ProgramNames ==
  ASSUME NEW p \in Programs
  PROVE  /\ p.name # "none"
         /\ p.name = "classified" => \E d \in Domains : p = ClassifiedEvent(d)
         /\ p.name = "store" => \E d \in Domains : p = ClassificationStore(d)
         /\ p.name = "exclude" => \E d \in Domains : p = ExcludeRuleClassify(d)
         /\ p.name = "admin" => \E d \in Domains : p = ApplyAdminClassification(d)
         /\ p.name = "reconcile" => \E l \in Lists : p = Reconcile(l)
         /\ p.name = "rebuild" => p = RebuildProjections
<1>1. \A d : /\ ClassifiedEvent(d).name = "classified" /\ ClassificationStore(d).name = "store"
             /\ ExcludeRuleClassify(d).name = "exclude"
             /\ ApplyAdminClassification(d).name = "admin"
             /\ ApplyPatternClassification(d).name = "pattern"
             /\ DomainExpire(d).name = "expire"
  BY DEF Program, ClassifiedEvent, ClassificationStore, ExcludeRuleClassify,
         ApplyAdminClassification, ApplyPatternClassification, DomainExpire
<1>2. \A l : Requeue(l).name = "requeue" /\ Reconcile(l).name = "reconcile"
  BY DEF Program, Requeue, Reconcile
<1>3. ReconcilePatternRule.name = "rule" /\ RebuildProjections.name = "rebuild"
  BY DEF Program, ReconcilePatternRule, RebuildProjections
<1> QED BY <1>1, <1>2, <1>3 DEF Programs

(* Only a reconcile reads the rows, and it ensures nothing but its source; *)
(* only a rebuild reads the log, and first of all.                         *)
LEMMA ProgramReads ==
  ASSUME NEW p \in Programs, NEW i \in DOMAIN p.steps
  PROVE  /\ p.steps[i].op = "read" => p.name = "reconcile"
         /\ p.steps[i].op = "readlog" => p.name = "rebuild"
         /\ p.name = "reconcile" /\ p.steps[i].op = "ensure" => p.steps[i].key = "provisioned"
         /\ p.name = "rebuild" => p.steps[i].op = "readlog"
<1>1. ASSUME NEW d \in Domains,
             p \in {ClassifiedEvent(d), ClassificationStore(d), ExcludeRuleClassify(d),
                    ApplyAdminClassification(d), ApplyPatternClassification(d),
                    DomainExpire(d)}
      PROVE  p.steps[i].op \notin {"read", "readlog"} /\ p.name \notin {"reconcile", "rebuild"}
  <2>1. CASE p \in {ClassifiedEvent(d), ClassificationStore(d)}
    BY <2>1 DEF ClassifiedEvent, ClassificationStore, Program, Ensure, Upsert, Log, Insert
  <2>2. CASE p \in {ExcludeRuleClassify(d), ApplyAdminClassification(d)}
    BY <2>2 DEF ExcludeRuleClassify, ApplyAdminClassification, Program, Ensure, Upsert, Log, Insert
  <2>3. CASE p \in {ApplyPatternClassification(d), DomainExpire(d)}
    BY <2>3 DEF ApplyPatternClassification, DomainExpire, Program, Upsert, Log, Insert, End
  <2> QED BY <1>1, <2>1, <2>2, <2>3
<1>2. CASE p = ReconcilePatternRule
  BY <1>2 DEF ReconcilePatternRule, Program, Ensure
<1>3. ASSUME NEW order \in Batches, p = Requeue(order)
      PROVE  p.steps[i].op \notin {"read", "readlog"} /\ p.name \notin {"reconcile", "rebuild"}
  BY <1>3 DEF Requeue, Program, Upsert
<1>4. ASSUME NEW l \in Lists, p = Reconcile(l)
      PROVE  /\ p.name = "reconcile" /\ p.steps[i].op # "readlog"
             /\ p.steps[i].op = "ensure" => p.steps[i].key = "provisioned"
  BY <1>4 DEF Reconcile, Program, Ensure
<1>5. CASE p = RebuildProjections
  BY <1>5 DEF RebuildProjections, Program
<1> QED BY <1>1, <1>2, <1>3, <1>4, <1>5 DEF Programs

-----------------------------------------------------------------------------
(* The parts of a step that the proofs below have in common *)

(* What concerns u is as it was. *)
LEMMA HeldKept ==
  ASSUME NEW u \in Txs, Held(u),
         prog'[u] = prog[u], at'[u] = at[u], phase'[u] = phase[u],
         task'[u] = task[u], plan'[u] = plan[u],
         \A e \in ensured' : e.by = u => e \in ensured,
         \A e \in ended' : e.by = u => e \in ended,
         \A d \in Domains : u \in holder'[d] <=> u \in holder[d]
  PROVE  Held(u)'
<1>1. /\ \A s : Took(u, s)' <=> Took(u, s)
      /\ \A d : TookDomain(u, d)' <=> TookDomain(u, d)
  BY DEF Took, TookDomain
<1>2. Now(u)' = Now(u) /\ (InParts(u)' <=> InParts(u))
  BY DEF Now, InParts
<1> QED BY <1>1, <1>2 DEF Held

(* The statement it is at is taken when its first step is done. *)
LEMMA TookOneMore ==
  ASSUME Typed, NEW t \in Txs, at[t] \in DOMAIN prog[t],
         \/ Done(t)
         \/ \E p \in {"get", "lock"} : GoOn(t, p)
  PROVE  /\ \A s : Took(t, s)' <=> Took(t, s) \/ s = Now(t)
         /\ \A d : TookDomain(t, d)' <=>
                   TookDomain(t, d) \/ (Now(t).op = "upsert" /\ Now(t).domain = d)
<1>1. at[t] \in Int /\ prog'[t] = prog[t] /\ DOMAIN prog[t] \subseteq Int
  BY DEF Done, GoOn, Typed, TypeOK
<1>2. CASE Done(t)
  <2>1. at'[t] = at[t] + 1 /\ phase'[t] = "begin"
    BY <1>2 DEF Done, Typed, TypeOK
  <2> QED BY <1>1, <2>1 DEF Took, TookDomain, Now
<1>3. CASE \E p \in {"get", "lock"} : GoOn(t, p)
  <2>1. at'[t] = at[t] /\ phase'[t] # "begin"
    BY <1>3 DEF GoOn, Typed, TypeOK
  <2> QED BY <1>1, <2>1 DEF Took, TookDomain, Now
<1> QED BY <1>2, <1>3

(* A statement is the record that its kind says. *)
LEMMA NowIs ==
  ASSUME Typed, NEW t \in Txs, at[t] \in DOMAIN prog[t]
  PROVE  /\ Now(t).op = "ensure" => Now(t) = Ensure(Now(t).key)
         /\ \A k : Now(t) = Ensure(k) => Now(t).op = "ensure" /\ Now(t).key = k
<1>1. Now(t) \in Statement
  BY NowType DEF Typed
<1> QED BY <1>1 DEF Statement, Ensure

(* A step of t that changes nothing of what concerns the others. *)
OthersKeep(t) == \A u \in Txs \ {t} :
  /\ status'[u] = status[u] /\ prog'[u] = prog[u] /\ at'[u] = at[u]
  /\ phase'[u] = phase[u] /\ task'[u] = task[u] /\ plan'[u] = plan[u]
  /\ \A e \in ensured' : e.by = u => e \in ensured
  /\ \A e \in ended' : e.by = u => e \in ended
  /\ \A d \in Domains : u \in holder'[d] <=> u \in holder[d]

LEMMA HoldingKept ==
  ASSUME Typed, Typed', Holding, NEW t \in Txs, OthersKeep(t),
         t \in Open' => Held(t)',
         t \notin Open' => /\ task'[t] = "none" /\ at'[t] = 1 /\ plan'[t] = NoPlan
                          /\ \A d \in Domains : t \notin holder'[d],
         \A d \in Domains : t \in holder'[d] => holder'[d] = {t},
         \A e \in ended' : e.by = t => t \in Open' \union Committed'
  PROVE  Holding'
<1>1. \A u \in Txs \ {t} : /\ u \in Open' <=> u \in Open
                           /\ u \in Committed' <=> u \in Committed
  BY DEF OthersKeep, Open, Committed
<1>2. \A u \in Open' : Held(u)'
  <2> SUFFICES ASSUME NEW u \in Open', u # t
               PROVE  Held(u)'
    OBVIOUS
  <2>1. u \in Txs /\ Held(u)
    BY <1>1 DEF Holding, Open
  <2> QED BY <2>1, HeldKept DEF OthersKeep
<1>3. \A u \in Txs \ Open' : task'[u] = "none" /\ at'[u] = 1 /\ plan'[u] = NoPlan
  BY <1>1 DEF Holding, OthersKeep
<1>4. \A d \in Domains : holder'[d] \subseteq Open' /\ \A u, v \in holder'[d] : u = v
  <2> SUFFICES ASSUME NEW d \in Domains
               PROVE  holder'[d] \subseteq Open' /\ \A u, v \in holder'[d] : u = v
    OBVIOUS
  <2>1. CASE t \in holder'[d]
    <3>1. holder'[d] = {t} /\ t \in Open'
      BY <2>1
    <3> QED BY <3>1
  <2>2. CASE t \notin holder'[d]
    <3>1. \A u \in holder'[d] : u \in Txs \ {t} /\ u \in holder[d]
      BY <2>2 DEF OthersKeep, Typed, TypeOK
    <3> QED BY <1>1, <3>1 DEF Holding
  <2> QED BY <2>1, <2>2
<1>5. \A e \in ended' : e.by \in Open' \union Committed'
  <2> SUFFICES ASSUME NEW e \in ended', e.by # t
               PROVE  e.by \in Open' \union Committed'
    OBVIOUS
  <2>1. e.by \in Txs \ {t}
    BY DEF Typed, TypeOK
  <2>2. e \in ended
    BY <2>1 DEF OthersKeep
  <2> QED BY <1>1, <2>1, <2>2 DEF Holding
<1> QED BY <1>2, <1>3, <1>4, <1>5 DEF Holding

(* t is done with the statement it is at, or with the first step of it. *)
LEMMA HeldAdvance ==
  ASSUME Typed, NEW t \in Txs, Held(t), at[t] \in DOMAIN prog[t],
         \/ Done(t)
         \/ GoOn(t, "get") /\ Now(t).op = "ensure"
         \/ GoOn(t, "lock") /\ Now(t).op = "end",
         plan'[t] = plan[t] \/ task[t] = "reconcile",
         \A e \in ensured' : e.by = t =>
           e \in ensured \/ (Now(t).op = "ensure" /\ e.key = Now(t).key),
         \A e \in ended' : e.by = t => e \in ended \/ Now(t).op = "end",
         \A d \in Domains : t \in holder'[d] <=>
           t \in holder[d] \/ (Now(t).op = "upsert" /\ Now(t).domain = d)
  PROVE  Held(t)'
<1>1. prog'[t] = prog[t] /\ task'[t] = task[t] /\ (InParts(t)' <=> InParts(t))
  BY DEF Done, GoOn, InParts
<1>2. /\ phase'[t] # "begin" => at'[t] \in DOMAIN prog'[t]
      /\ phase'[t] = "get" => Now(t)'.op = "ensure"
      /\ phase'[t] = "lock" => Now(t)'.op = "end"
  BY DEF Done, GoOn, Now, Typed, TypeOK
<1>3. /\ \A s : Took(t, s)' <=> Took(t, s) \/ s = Now(t)
      /\ \A d : TookDomain(t, d)' <=>
                TookDomain(t, d) \/ (Now(t).op = "upsert" /\ Now(t).domain = d)
  BY TookOneMore
<1>4. ASSUME ~ InParts(t)
      PROVE  /\ \E p \in Programs : p.name = task'[t] /\ p.steps = prog'[t]
             /\ \A e \in ensured' : e.by = t => Took(t, Ensure(e.key))'
             /\ \A d \in Domains : t \in holder'[d] <=> TookDomain(t, d)'
             /\ \A e \in ended' : e.by = t => \E i \in DOMAIN prog'[t] : prog'[t][i].op = "end"
  <2>1. \A e \in ensured' : e.by = t => Took(t, Ensure(e.key))'
    BY <1>3, <1>4, NowIs DEF Held
  <2>2. \A d \in Domains : t \in holder'[d] <=> TookDomain(t, d)'
    BY <1>3, <1>4 DEF Held
  <2>3. \A e \in ended' : e.by = t => \E i \in DOMAIN prog'[t] : prog'[t][i].op = "end"
    BY <1>1, <1>4 DEF Held, Now
  <2> QED BY <1>1, <1>4, <2>1, <2>2, <2>3 DEF Held
<1>5. ASSUME InParts(t)
      PROVE  /\ \A i \in DOMAIN prog'[t] : prog'[t][i].op = "ensure" => prog'[t][i].key = "provisioned"
             /\ \A i \in DOMAIN prog'[t] : prog'[t][i].op = "read" => task'[t] = "reconcile"
             /\ \A i \in DOMAIN prog'[t] : prog'[t][i].op = "readlog" => task'[t] = "rebuild"
             /\ \A e \in ensured' : e.by = t => e.key = "provisioned"
  BY <1>1, <1>5 DEF Held, Now
<1>6. task'[t] # "reconcile" => plan'[t] = NoPlan
  BY <1>1 DEF Held
<1> QED BY <1>1, <1>2, <1>4, <1>5, <1>6 DEF Held

-----------------------------------------------------------------------------
(* Holding, action by action *)

LEMMA HoldingInit == Init => Holding
  BY DEF Init, Holding, Open, Held

LEMMA BeginHolding ==
  ASSUME Inv, Typed', NEW t \in Txs, Begin(t)
  PROVE  Holding'
<1>1. PICK p \in Programs : task' = [task EXCEPT ![t] = p.name] /\ prog' = [prog EXCEPT ![t] = p.steps]
  BY DEF Begin
<1>2. t \notin Open /\ t \notin Committed /\ t \in Open'
  BY ReadCommittedAssumption DEF Begin, Open, Committed, Inv, Typed, TypeOK
<1>3. /\ at'[t] = 1 /\ phase'[t] = "begin" /\ plan'[t] = NoPlan
      /\ task'[t] = p.name /\ prog'[t] = p.steps
  BY <1>1, <1>2 DEF Begin, Inv, Holding, Keyed, Typed, TypeOK
<1>4. /\ \A e \in ensured' : e.by # t
      /\ \A e \in ended' : e.by # t
      /\ \A d \in Domains : t \notin holder'[d]
  BY <1>2 DEF Begin, data, Inv, Holding, Keyed
<1>5. (\A s : ~ Took(t, s)') /\ \A d : ~ TookDomain(t, d)'
  <2>1. DOMAIN prog'[t] \subseteq Nat \ {0}
    BY DEF Typed, TypeOK
  <2> QED BY <1>3, <2>1 DEF Took, TookDomain
<1>6. Held(t)'
  <2>1. InParts(t)' => \A i \in DOMAIN prog'[t] :
          /\ prog'[t][i].op = "ensure" => prog'[t][i].key = "provisioned"
          /\ prog'[t][i].op = "read" => task'[t] = "reconcile"
          /\ prog'[t][i].op = "readlog" => task'[t] = "rebuild"
    BY <1>3, ProgramReads DEF InParts
  <2> QED BY <1>3, <1>4, <1>5, <2>1 DEF Held
<1>7. OthersKeep(t)
  BY <1>1 DEF OthersKeep, Begin, data, Inv, Typed, TypeOK
<1> QED BY <1>2, <1>4, <1>6, <1>7, HoldingKept DEF Inv

LEMMA LeaveHolding ==
  ASSUME Inv, Typed', NEW t \in Txs, Commit(t) \/ Rollback(t)
  PROVE  Holding'
<1>1. Forget(t) /\ t \notin Open'
  BY DEF Commit, Rollback, Open, Inv, Typed, TypeOK
<1>2. /\ task'[t] = "none" /\ at'[t] = 1 /\ plan'[t] = NoPlan
      /\ \A d \in Domains : t \notin holder'[d]
  BY <1>1 DEF Forget, Inv, Typed, TypeOK
<1>3. OthersKeep(t)
  BY <1>1 DEF OthersKeep, Forget, Commit, Rollback, Inv, Typed, TypeOK
<1>4. \A e \in ended' : e.by = t => t \in Open' \union Committed'
  BY DEF Commit, Rollback, Committed, Inv, Typed, TypeOK
<1> QED BY <1>1, <1>2, <1>3, <1>4, HoldingKept DEF Inv

LEMMA EnsureHolding ==
  ASSUME Inv, Typed', NEW t \in Txs, EnsureRow(t)
  PROVE  Holding'
<1>1. t \in Open /\ Held(t) /\ at[t] \in DOMAIN prog[t] /\ Now(t).op = "ensure" /\ Open' = Open
  BY DEF EnsureRow, IsNext, GoOn, Open, Inv, Holding
<1>2. \A e \in ensured' : e \in ensured \/ (e.by = t /\ e.key = Now(t).key)
  BY DEF EnsureRow, InsertKey
<1>3. Held(t)'
  BY <1>1, <1>2, HeldAdvance DEF EnsureRow, GoOn, Inv
<1>4. OthersKeep(t)
  BY <1>2 DEF OthersKeep, EnsureRow, GoOn, Inv, Typed, TypeOK
<1> QED BY <1>1, <1>3, <1>4, HoldingKept DEF EnsureRow, Inv, Holding

LEMMA UpsertHolding ==
  ASSUME Inv, Typed', NEW t \in Txs, UpsertDomain(t)
  PROVE  Holding'
<1> DEFINE d == Now(t).domain
<1>1. /\ t \in Open /\ Held(t) /\ at[t] \in DOMAIN prog[t] /\ Now(t).op = "upsert"
      /\ Open' = Open /\ d \in Domains
  BY NowType DEF UpsertDomain, IsNext, Done, Open, Inv, Holding, Typed
<1>2. holder[d] \subseteq {t}
  BY <1>1 DEF UpsertDomain, Blockers, Inv, Holding
<1>3. holder' = [holder EXCEPT ![d] = {t}]
  BY DEF UpsertDomain
<1> HIDE DEF d
<1>4. \A c \in Domains : t \in holder'[c] <=> t \in holder[c] \/ d = c
  BY <1>1, <1>3 DEF Inv, Typed, TypeOK
<1>5. Held(t)'
  BY <1>1, <1>4, HeldAdvance DEF UpsertDomain, Inv, d
<1>6. OthersKeep(t)
  <2>1. \A u \in Txs \ {t} : \A c \in Domains : u \in holder'[c] <=> u \in holder[c]
    BY <1>1, <1>2, <1>3 DEF Inv, Typed, TypeOK
  <2>2. Done(t) /\ UNCHANGED <<plan, ensured, ended>>
    BY DEF UpsertDomain
  <2> QED BY <2>1, <2>2 DEF OthersKeep, Done, Inv, Typed, TypeOK
<1>7. \A c \in Domains : t \in holder'[c] => holder'[c] = {t}
  BY <1>1, <1>3 DEF Inv, Holding, Typed, TypeOK
<1> QED BY <1>1, <1>5, <1>6, <1>7, HoldingKept DEF UpsertDomain, Inv, Holding

(* The other steps of a statement: they take no key and no domain. *)
LEMMA StatementHolding ==
  ASSUME Inv, Typed', NEW t \in Txs,
         \/ GetRow(t) \/ InsertRow(t) \/ BeginEnd(t) \/ EndDone(t) \/ ReadActive(t)
         \/ \E r \in rows : EndRow(t, r)
  PROVE  Holding'
<1>1. /\ t \in Open /\ Held(t) /\ status' = status /\ ensured' = ensured /\ holder' = holder
      /\ Done(t) \/ GoOn(t, "lock")
  BY DEF GetRow, InsertRow, BeginEnd, EndDone, ReadActive, EndRow, IsNext, IsIn, Done, GoOn,
         data, Inv, Holding
<1>2. at[t] \in DOMAIN prog[t]
  BY <1>1 DEF GetRow, InsertRow, BeginEnd, EndDone, ReadActive, EndRow, IsNext, IsIn, Held
<1>3. GoOn(t, "lock") => Now(t).op = "end"
  <2>1. CASE BeginEnd(t)
    BY <2>1 DEF BeginEnd, IsNext
  <2>2. CASE \E r \in rows : EndRow(t, r)
    BY <1>1, <2>2 DEF EndRow, IsIn, Held
  <2>3. CASE GetRow(t) \/ InsertRow(t) \/ EndDone(t) \/ ReadActive(t)
    <3>1. Done(t)
      BY <2>3 DEF GetRow, InsertRow, EndDone, ReadActive
    <3> QED BY <3>1 DEF Done, GoOn, Inv, Typed, TypeOK
  <2> QED BY <2>1, <2>2, <2>3
<1>4. \A e \in ended' : e \in ended \/ (e.by = t /\ Now(t).op = "end")
  <2>1. CASE \E r \in rows : EndRow(t, r)
    BY <1>1, <2>1 DEF EndRow, IsIn, Held
  <2>2. CASE ~ \E r \in rows : EndRow(t, r)
    BY <2>2 DEF GetRow, InsertRow, BeginEnd, EndDone, ReadActive, data
  <2> QED BY <2>1, <2>2
<1>5. \/ plan' = plan
      \/ task[t] = "reconcile" /\ \A u \in Txs \ {t} : plan'[u] = plan[u]
  <2>1. CASE ReadActive(t)
    <3>1. Now(t).op = "read" /\ \A u \in Txs \ {t} : plan'[u] = plan[u]
      BY <2>1 DEF ReadActive, IsNext, Inv, Typed, TypeOK
    <3>2. task[t] = "reconcile"
      BY <1>1, <1>2, <3>1, ProgramReads DEF Held, Now, InParts
    <3> QED BY <3>1, <3>2
  <2>2. CASE ~ ReadActive(t)
    BY <2>2 DEF GetRow, InsertRow, BeginEnd, EndDone, EndRow, GoOn
  <2> QED BY <2>1, <2>2
<1>6. Held(t)'
  <2>1. Now(t).op # "upsert"
    <3>1. CASE GetRow(t) \/ EndDone(t) \/ \E r \in rows : EndRow(t, r)
      BY <1>1, <3>1 DEF GetRow, EndDone, EndRow, IsIn, Held
    <3>2. CASE InsertRow(t) \/ BeginEnd(t) \/ ReadActive(t)
      BY <3>2 DEF InsertRow, BeginEnd, ReadActive, IsNext
    <3> QED BY <3>1, <3>2
  <2> QED BY <1>1, <1>2, <1>3, <1>4, <1>5, <2>1, HeldAdvance DEF Inv
<1>7. OthersKeep(t)
  BY <1>1, <1>4, <1>5 DEF OthersKeep, Done, GoOn, Inv, Typed, TypeOK
<1>8. Open' = Open
  BY <1>1 DEF Open
<1> QED BY <1>1, <1>6, <1>7, <1>8, HoldingKept DEF Inv, Holding

(* The parts of a reconcile ensure nothing. *)
LEMMA PartHolding ==
  ASSUME Inv, Typed', NEW t \in Txs, NextEntry(t) \/ NextRemoved(t)
  PROVE  Holding'
<1>1. PICK steps \in Seq(Statement) :
        /\ RunPart(t, steps)
        /\ \A i \in DOMAIN steps : steps[i].op \notin {"ensure", "read", "readlog"}
  <2>1. CASE NextEntry(t)
    <3> DEFINE e == Head(plan[t].entries)
    <3>1. e \in ProvisionedEntry /\ plan[t].found[e.domain] \in SUBSET BOOLEAN
      <4>1. plan[t] \in Plan /\ plan[t].entries # <<>>
        BY <2>1 DEF NextEntry, Inv, Typed, TypeOK
      <4>2. e \in ProvisionedEntry
        BY <4>1 DEF Plan
      <4> QED BY <4>1, <4>2 DEF Plan, ProvisionedEntry
    <3>2. RunPart(t, ReconcileEntry(e, plan[t].found[e.domain]))
      BY <2>1 DEF NextEntry
    <3> HIDE DEF e
    <3>3. \A i \in DOMAIN ReconcileEntry(e, plan[t].found[e.domain]) :
            ReconcileEntry(e, plan[t].found[e.domain])[i].op \notin {"ensure", "read", "readlog"}
      BY DEF ReconcileEntry, ExpireProvisioned, End, Upsert, Log, Insert
    <3> QED BY <3>1, <3>2, <3>3, EntryType
  <2>2. CASE NextRemoved(t)
    <3>1. PICK d \in plan[t].removed : RunPart(t, <<ExpireProvisioned(d), Upsert(d)>>)
      BY <2>2 DEF NextRemoved
    <3>2. d \in Domains
      BY DEF Plan, Inv, Typed, TypeOK
    <3>3. ExpireProvisioned(d) \in Statement /\ Upsert(d) \in Statement
      BY <3>2, StatementType DEF ExpireProvisioned, Sources
    <3>4. ExpireProvisioned(d).op = "end" /\ Upsert(d).op = "upsert"
      BY DEF ExpireProvisioned, End, Upsert
    <3> DEFINE steps == <<ExpireProvisioned(d), Upsert(d)>>
    <3>5. steps \in Seq(Statement)
      BY <3>3
    <3>6. \A i \in DOMAIN steps : steps[i].op \in {"end", "upsert"}
      BY <3>4
    <3>7. RunPart(t, steps)
      BY <3>1
    <3> HIDE DEF steps
    <3> QED BY <3>5, <3>6, <3>7
  <2> QED BY <2>1, <2>2
<1>2. t \in Open /\ Held(t) /\ phase[t] = "begin"
  BY DEF NextEntry, NextRemoved, IsThrough, Inv, Holding
<1>3. task[t] = "reconcile"
  <2>1. plan[t] # NoPlan
    <3>1. CASE NextEntry(t)
      BY <3>1 DEF NextEntry, NoPlan
    <3>2. CASE NextRemoved(t)
      BY <3>2 DEF NextRemoved, NoPlan
    <3> QED BY <3>1, <3>2
  <2> QED BY <1>2, <2>1 DEF Held
<1>4. \A u \in Txs \ {t} : plan'[u] = plan[u]
  BY DEF NextEntry, NextRemoved, Inv, Typed, TypeOK
<1>5. prog'[t] = steps /\ ensured' = ensured /\ ended' = ended /\ holder' = holder /\ Open' = Open
  BY <1>1 DEF RunPart, data, Open, Inv, Typed, TypeOK
<1>6. Held(t)'
  BY <1>1, <1>2, <1>3, <1>5 DEF Held, InParts, RunPart
<1>7. OthersKeep(t)
  BY <1>1, <1>4 DEF OthersKeep, RunPart, data, Inv, Typed, TypeOK
<1> QED BY <1>2, <1>5, <1>6, <1>7, HoldingKept DEF Inv, Holding

(* The statements that a rebuild finds to run ensure nothing either. *)
LEMMA RowsSteps ==
  ASSUME NEW order \in Seq(Domains), NEW latest, NEW i \in DOMAIN RowsOf(order, latest)
  PROVE  LET step == RowsOf(order, latest)[i] IN
         /\ step.op \in {"end", "upsert", "insert"}
         /\ step.op = "end" => i = 1
         /\ i = 1 => step = End(Domains, Sources)
         /\ step.op = "insert" =>
              /\ i % 2 = 1 /\ i \div 2 \in DOMAIN order
              /\ step = Insert(order[i \div 2], latest[order[i \div 2]].src,
                               latest[order[i \div 2]].match)
<1> DEFINE d == order[i \div 2]
<1>1. i \in 1..1 + 2 * Len(order)
  BY DEF RowsOf
<1>2. RowsOf(order, latest)[i] = IF i = 1 THEN End(Domains, Sources)
                                 ELSE IF i % 2 = 0 THEN Upsert(d)
                                 ELSE Insert(d, latest[d].src, latest[d].match)
  BY DEF RowsOf
<1>3. i # 1 => i \div 2 \in DOMAIN order
  BY <1>1
<1>4. i % 2 = 0 \/ i % 2 = 1
  BY <1>1
<1> HIDE DEF d
<1> QED BY <1>2, <1>3, <1>4 DEF End, Upsert, Insert, d

LEMMA ReadLogHolding ==
  ASSUME Inv, Typed', NEW t \in Txs, ReadLog(t)
  PROVE  Holding'
<1>0. PICK order \in Batches : \E latest \in [Range(order) -> events] :
        RunPart(t, RowsOf(order, latest))
  BY DEF ReadLog
<1>1. PICK latest \in [Range(order) -> events] : RunPart(t, RowsOf(order, latest))
  BY <1>0
<1>2. /\ t \in Open /\ Held(t) /\ phase[t] = "begin" /\ at[t] \in DOMAIN prog[t]
      /\ prog[t][at[t]].op = "readlog" /\ plan' = plan
  BY DEF ReadLog, IsNext, Now, Inv, Holding
<1>3. task[t] = "rebuild"
  BY <1>2, ProgramReads DEF Held, InParts
<1>4. \A i \in DOMAIN RowsOf(order, latest) :
        RowsOf(order, latest)[i].op \notin {"ensure", "read", "readlog"}
  BY ReadCommittedAssumption, RowsSteps
<1>5. /\ prog'[t] = RowsOf(order, latest) /\ ensured' = ensured /\ ended' = ended
      /\ holder' = holder /\ Open' = Open
  BY <1>1 DEF RunPart, data, Open, Inv, Typed, TypeOK
<1>6. Held(t)'
  BY <1>1, <1>2, <1>3, <1>4, <1>5 DEF Held, InParts, RunPart
<1>7. OthersKeep(t)
  BY <1>1, <1>2 DEF OthersKeep, RunPart, data, Inv, Typed, TypeOK
<1> QED BY <1>2, <1>5, <1>6, <1>7, HoldingKept DEF Inv, Holding

LEMMA HoldingStutter ==
  ASSUME Inv, Typed', UNCHANGED vars
  PROVE  Holding'
<1>1. /\ status' = status /\ task' = task /\ prog' = prog /\ at' = at /\ phase' = phase
      /\ plan' = plan /\ ensured' = ensured /\ holder' = holder /\ ended' = ended
  BY DEF vars, control, data
<1>2. Open' = Open /\ Committed' = Committed
  BY <1>1 DEF Open, Committed
<1>3. \A t \in Open : Held(t)'
  BY <1>1, HeldKept DEF Inv, Holding, Open
<1> QED BY <1>1, <1>2, <1>3 DEF Inv, Holding

LEMMA InvStep ==
  ASSUME Inv, [Next]_vars
  PROVE  Inv'
<1>1. Typed' /\ Keyed'
  BY TypedStep, KeyedStep DEF Inv
<1>2. CASE UNCHANGED vars
  BY <1>1, <1>2, HoldingStutter DEF Inv
<1>3. ASSUME NEW t \in Txs, Begin(t) \/ Commit(t) \/ Rollback(t)
      PROVE  Holding'
  BY <1>1, <1>3, BeginHolding, LeaveHolding
<1>4. ASSUME NEW t \in Txs, Step(t)
      PROVE  Holding'
  BY <1>1, <1>4, EnsureHolding, UpsertHolding, StatementHolding, PartHolding, ReadLogHolding
     DEF Step
<1> QED BY <1>1, <1>2, <1>3, <1>4 DEF Inv, Next

-----------------------------------------------------------------------------
(* Nobody waits for itself who records a verdict or a decision. *)

Classifies(t) == t \in Open /\ task[t] \in {"classified", "store"}

(* The first three statements of the two transactions of a verdict; they   *)
(* end no row.                                                             *)
LEMMA ClassifiesBy ==
  ASSUME Inv, NEW t \in Txs, Classifies(t)
  PROVE  /\ 1 \in DOMAIN prog[t] /\ 2 \in DOMAIN prog[t] /\ 3 \in DOMAIN prog[t]
         /\ prog[t][1] = Ensure("prompt") /\ prog[t][2] = Ensure("prompt_source")
         /\ prog[t][3].op = "upsert"
         /\ \A i \in DOMAIN prog[t] : prog[t][i].op # "end" /\ (i > 3 => prog[t][i].op = "insert")
<1>1. PICK p \in Programs : p.name = task[t] /\ p.steps = prog[t]
  BY DEF Classifies, Inv, Holding, Held, InParts
<1>2. PICK d \in Domains : p = ClassifiedEvent(d) \/ p = ClassificationStore(d)
  BY <1>1, ProgramNames DEF Classifies
<1>3. \/ prog[t] = <<Ensure("prompt"), Ensure("prompt_source"), Log(d, "llm", TRUE)>>
      \/ prog[t] = <<Ensure("prompt"), Ensure("prompt_source"), Upsert(d), Insert(d, "llm", TRUE)>>
  <2>1. CASE p = ClassifiedEvent(d)
    BY <1>1, <2>1, Zenon DEF ClassifiedEvent, Program
  <2>2. CASE p = ClassificationStore(d)
    BY <1>1, <2>2, Zenon DEF ClassificationStore, Program
  <2> QED BY <1>2, <2>1, <2>2
<1>4. \A i \in DOMAIN prog[t] : prog[t][i].op # "end" /\ (i > 3 => prog[t][i].op = "insert")
  BY <1>3 DEF Ensure, Upsert, Log, Insert
<1> QED BY <1>3, <1>4 DEF Insert, Upsert, Log

(* An exclude transaction: the domain, the suffix, the row, the event. *)
Excluding(t, d) ==
  /\ DOMAIN prog[t] = 1..4
  /\ prog[t][1].op = "upsert" /\ prog[t][1].domain = d
  /\ prog[t][2] = Ensure("suffix")
  /\ prog[t][3].op = "insert"
  /\ prog[t][4].op = "upsert" /\ prog[t][4].domain = d

LEMMA ExcludesBy ==
  ASSUME Inv, NEW t \in Txs, t \in Open, task[t] = "exclude"
  PROVE  \E d \in Domains : Excluding(t, d)
<1>1. PICK p \in Programs : p.name = task[t] /\ p.steps = prog[t]
  BY DEF Inv, Holding, Held, InParts
<1>2. PICK d \in Domains : p = ExcludeRuleClassify(d)
  BY <1>1, ProgramNames
<1>3. prog[t] = <<Upsert(d), Ensure("suffix"), Insert(d, "exclude", FALSE),
                  Log(d, "exclude", FALSE)>>
  BY <1>1, <1>2, Zenon DEF ExcludeRuleClassify, Program
<1> QED BY <1>3 DEF Excluding, Upsert, Insert, Log

(* An admin's decision: the domain, the row, the event. *)
Deciding(t, d) ==
  /\ DOMAIN prog[t] = 1..3
  /\ prog[t][1].op = "upsert" /\ prog[t][1].domain = d
  /\ prog[t][2].op = "insert"
  /\ prog[t][3].op = "upsert" /\ prog[t][3].domain = d

LEMMA DecidesBy ==
  ASSUME Inv, NEW t \in Txs, t \in Open, task[t] = "admin"
  PROVE  \E d \in Domains : Deciding(t, d)
<1>1. PICK p \in Programs : p.name = task[t] /\ p.steps = prog[t]
  BY DEF Inv, Holding, Held, InParts
<1>2. PICK d \in Domains : p = ApplyAdminClassification(d)
  BY <1>1, ProgramNames
<1>3. prog[t] = <<Upsert(d), Insert(d, "admin", TRUE), Log(d, "admin", TRUE)>>
  BY <1>1, <1>2, Zenon DEF ApplyAdminClassification, Program
<1> QED BY <1>3 DEF Deciding, Upsert, Insert, Log

(* Who ensures a prompt or its source records a verdict, and is at its     *)
(* first or second statement; who ensures a suffix, at its second.         *)
LEMMA ProgramEnsures ==
  ASSUME NEW p \in Programs, NEW i \in DOMAIN p.steps, p.steps[i].op = "ensure"
  PROVE  /\ p.steps[i].key = "prompt" => p.name \in {"classified", "store"} /\ i = 1
         /\ p.steps[i].key = "prompt_source" => p.name \in {"classified", "store"} /\ i = 2
         /\ p.steps[i].key = "suffix" => p.name = "exclude" /\ i = 2
<1>1. ASSUME NEW d \in Domains, p \in {ClassifiedEvent(d), ClassificationStore(d)}
      PROVE  /\ p.name \in {"classified", "store"}
             /\ \/ i = 1 /\ p.steps[i].key = "prompt"
                \/ i = 2 /\ p.steps[i].key = "prompt_source"
  <2>1. CASE p = ClassifiedEvent(d)
    BY <2>1 DEF ClassifiedEvent, Program, Ensure, Log
  <2>2. CASE p = ClassificationStore(d)
    BY <2>2 DEF ClassificationStore, Program, Ensure, Upsert, Log, Insert
  <2> QED BY <1>1, <2>1, <2>2
<1>2. ASSUME NEW d \in Domains, p = ExcludeRuleClassify(d)
      PROVE  p.name = "exclude" /\ i = 2 /\ p.steps[i].key = "suffix"
  BY <1>2 DEF ExcludeRuleClassify, Program, Ensure, Upsert, Log, Insert
<1>3. ASSUME NEW d \in Domains,
             p \in {ApplyAdminClassification(d), ApplyPatternClassification(d), DomainExpire(d)}
      PROVE  FALSE
  <2>1. CASE p \in {ApplyAdminClassification(d), ApplyPatternClassification(d)}
    BY <2>1 DEF ApplyAdminClassification, ApplyPatternClassification, Program, Upsert, Log, Insert, End
  <2>2. CASE p = DomainExpire(d)
    BY <2>2 DEF DomainExpire, Program, Upsert, End
  <2> QED BY <1>3, <2>1, <2>2
<1>4. CASE p = ReconcilePatternRule
  BY <1>4 DEF ReconcilePatternRule, Program, Ensure
<1>5. ASSUME NEW order \in Batches, p = Requeue(order)
      PROVE  FALSE
  BY <1>5 DEF Requeue, Program, Upsert
<1>6. ASSUME NEW l \in Lists, p = Reconcile(l)
      PROVE  p.steps[i].key = "provisioned"
  BY <1>6 DEF Reconcile, Program, Ensure
<1>7. CASE p = RebuildProjections
  BY <1>7 DEF RebuildProjections, Program
<1> QED BY <1>1, <1>2, <1>3, <1>4, <1>5, <1>6, <1>7 DEF Programs

AtKey(t, k) == IsNext(t, "ensure") /\ Now(t).key = k

(* Why u keeps t waiting. *)
LEMMA BlockedBy ==
  ASSUME Inv, NEW t \in Txs, NEW u \in Blockers(t), ~ InParts(u)
  PROVE  /\ u \in Open /\ Held(u) /\ u # t
         /\ \/ IsNext(t, "ensure") /\ Took(u, Ensure(Now(t).key))
            \/ IsNext(t, "upsert") /\ TookDomain(u, Now(t).domain)
            \/ IsIn(t, "lock") /\ \E i \in DOMAIN prog[u] : prog[u][i].op = "end"
<1>1. u \in Open /\ u # t /\ Held(u)
  BY DEF Blockers, Inv, Holding
<1>2. CASE IsNext(t, "ensure") /\ [key |-> Now(t).key, by |-> u] \in ensured
  BY <1>1, <1>2 DEF Held
<1>3. CASE IsNext(t, "upsert") /\ u \in holder[Now(t).domain]
  <2>1. Now(t).domain \in Domains
    BY <1>3, NowType DEF IsNext, Inv, Typed
  <2> QED BY <1>1, <1>3, <2>1 DEF Held
<1>4. CASE IsIn(t, "lock") /\ \E e \in ended : e.by = u /\ e.row \in mine[t]
  BY <1>1, <1>4 DEF Held
<1> QED BY <1>1, <1>2, <1>3, <1>4 DEF Blockers

(* Who is at a key, and where. *)
LEMMA AtKeyIs ==
  ASSUME Inv, NEW u \in Txs, NEW k \in {"prompt", "prompt_source", "suffix"}, AtKey(u, k)
  PROVE  /\ u \in Open /\ phase[u] = "begin" /\ ~ InParts(u)
         /\ k = "prompt" => Classifies(u) /\ at[u] = 1
         /\ k = "prompt_source" => Classifies(u) /\ at[u] = 2
         /\ k = "suffix" => task[u] = "exclude" /\ at[u] = 2
<1>1. /\ u \in Open /\ Held(u) /\ phase[u] = "begin" /\ at[u] \in DOMAIN prog[u]
      /\ prog[u][at[u]].op = "ensure" /\ prog[u][at[u]].key = k
  BY DEF AtKey, IsNext, Now, Inv, Holding
<1>2. ~ InParts(u)
  BY <1>1 DEF Held
<1>3. PICK p \in Programs : p.name = task[u] /\ p.steps = prog[u]
  BY <1>1, <1>2 DEF Held
<1> QED BY <1>1, <1>2, <1>3, ProgramEnsures DEF Classifies

(* The first to record a verdict holds nothing yet. *)
LEMMA AtPrompt ==
  ASSUME Inv, NEW u \in Txs, AtKey(u, "prompt"), NEW t \in Txs
  PROVE  u \notin Blockers(t)
<1>1. Classifies(u) /\ at[u] = 1 /\ phase[u] = "begin" /\ ~ InParts(u)
  BY AtKeyIs
<1>2. (\A s : ~ Took(u, s)) /\ \A d : ~ TookDomain(u, d)
  BY <1>1 DEF Took, TookDomain, Inv, Typed, TypeOK
<1>3. \A i \in DOMAIN prog[u] : prog[u][i].op # "end"
  BY <1>1, ClassifiesBy
<1> QED BY <1>1, <1>2, <1>3, BlockedBy

(* At the second key it holds the first at most. *)
LEMMA AtSource ==
  ASSUME Inv, NEW u \in Txs, AtKey(u, "prompt_source"), NEW t \in Txs, u \in Blockers(t)
  PROVE  AtKey(t, "prompt")
<1>1. Classifies(u) /\ at[u] = 2 /\ phase[u] = "begin" /\ ~ InParts(u)
  BY AtKeyIs
<1>2. (\A s : Took(u, s) => s = Ensure("prompt")) /\ \A d : ~ TookDomain(u, d)
  BY <1>1, ClassifiesBy DEF Took, TookDomain, Ensure, Inv, Typed, TypeOK
<1>3. \A i \in DOMAIN prog[u] : prog[u][i].op # "end"
  BY <1>1, ClassifiesBy
<1> QED BY <1>1, <1>2, <1>3, BlockedBy DEF Ensure, AtKey

(* At its domain it holds no more than both. *)
LEMMA AtUpsert ==
  ASSUME Inv, NEW u \in Txs, Classifies(u), at[u] = 3, phase[u] = "begin",
         NEW t \in Txs, u \in Blockers(t)
  PROVE  AtKey(t, "prompt") \/ AtKey(t, "prompt_source")
<1>1. ~ InParts(u)
  BY DEF Classifies, InParts
<1>2. /\ \A s : Took(u, s) => s = Ensure("prompt") \/ s = Ensure("prompt_source")
      /\ \A d : ~ TookDomain(u, d)
  <2>1. DOMAIN prog[u] \subseteq Nat \ {0}
    BY DEF Inv, Typed, TypeOK
  <2>2. \A i \in DOMAIN prog[u] : i < 3 => i \in {1, 2}
    BY <2>1
  <2>3. prog[u][1].op # "upsert" /\ prog[u][2].op # "upsert"
    BY ClassifiesBy DEF Ensure
  <2>4. /\ \A s : Took(u, s) => s = prog[u][1] \/ s = prog[u][2]
        /\ \A d : ~ TookDomain(u, d)
    BY <2>2, <2>3 DEF Took, TookDomain
  <2> QED BY <2>4, ClassifiesBy
<1>3. \A i \in DOMAIN prog[u] : prog[u][i].op # "end"
  BY ClassifiesBy
<1> QED BY <1>1, <1>2, <1>3, BlockedBy DEF Ensure, AtKey

(* Whom it waits for while it ensures a key are past the key. *)
LEMMA VerdictAtKey ==
  ASSUME Inv, NEW t \in Txs, AtKey(t, "prompt") \/ AtKey(t, "prompt_source")
  PROVE  ~ InDeadlock(t)
<1> DEFINE S == {u \in Txs \ {t} : ~ AtKey(u, "prompt")}
<1>1. Blockers(t) \subseteq S
  BY AtPrompt DEF Blockers, Open
<1>2. ASSUME NEW u \in S
      PROVE  Blockers(u) \subseteq S
  <2>1. t \notin Blockers(u)
    BY AtPrompt, AtSource
  <2> QED BY <2>1, AtPrompt DEF Blockers, Open
<1> QED BY <1>1, <1>2 DEF InDeadlock

LEMMA VerdictAtDomain ==
  ASSUME Inv, NEW t \in Txs, Classifies(t), at[t] = 3, phase[t] = "begin"
  PROVE  ~ InDeadlock(t)
<1> DEFINE S == {u \in Txs \ {t} : ~ AtKey(u, "prompt") /\ ~ AtKey(u, "prompt_source")}
<1>1. ~ AtKey(t, "prompt") /\ ~ AtKey(t, "prompt_source")
  BY AtKeyIs
<1>2. Blockers(t) \subseteq S
  BY <1>1, AtPrompt, AtSource DEF Blockers, Open
<1>3. ASSUME NEW u \in S
      PROVE  Blockers(u) \subseteq S
  <2>1. t \notin Blockers(u)
    BY AtUpsert
  <2> QED BY <2>1, AtPrompt, AtSource DEF Blockers, Open
<1> QED BY <1>2, <1>3 DEF InDeadlock

(* Who waits for nobody is in no deadlock. *)
LEMMA NotWaiting ==
  ASSUME NEW t \in Txs, Blockers(t) = {}
  PROVE  ~ InDeadlock(t)
  BY DEF InDeadlock

(* Nor is who holds nothing. *)
LEMMA NotHolding ==
  ASSUME NEW t \in Txs, \A u \in Txs : t \notin Blockers(u)
  PROVE  ~ InDeadlock(t)
<1>1. \A u \in Txs : Blockers(u) \subseteq Txs \ {t}
  BY DEF Blockers, Open
<1> QED BY <1>1 DEF InDeadlock

(* An exclude transaction that has its suffix also has its domain, and     *)
(* waits for nobody any more.                                              *)
LEMMA ExcludeGoesOn ==
  ASSUME Inv, NEW u \in Open, task[u] = "exclude", Took(u, Ensure("suffix"))
  PROVE  Blockers(u) = {}
<1>1. u \in Txs /\ Held(u)
  BY DEF Open, Inv, Holding
<1>2. PICK d \in Domains : Excluding(u, d)
  BY <1>1, ExcludesBy
<1>3. at[u] > 2 \/ (at[u] = 2 /\ phase[u] # "begin")
  <2>1. PICK i \in 1..4 : prog[u][i] = Ensure("suffix") /\ (i < at[u] \/ (i = at[u] /\ phase[u] # "begin"))
    BY <1>2 DEF Took, Excluding
  <2>2. prog[u][i].op = "ensure"
    BY <2>1 DEF Ensure
  <2>3. i = 2
    BY <1>2, <2>2 DEF Excluding
  <2> QED BY <2>1, <2>3 DEF Inv, Typed, TypeOK
<1>4. holder[d] = {u}
  <2>1. 1 \in DOMAIN prog[u] /\ prog[u][1].op = "upsert" /\ prog[u][1].domain = d
    BY <1>2 DEF Excluding
  <2>2. at[u] > 1
    BY <1>1, <1>3 DEF Inv, Typed, TypeOK
  <2>3. TookDomain(u, d)
    BY <2>1, <2>2 DEF TookDomain
  <2> QED BY <1>1, <2>3 DEF Held, InParts, Inv, Holding
<1>5. ~ IsNext(u, "ensure")
  BY <1>2, <1>3 DEF IsNext, Now, Excluding
<1>6. IsNext(u, "upsert") => Now(u).domain = d
  BY <1>2 DEF IsNext, Now, Ensure, Excluding
<1>7. ~ IsIn(u, "lock")
  BY <1>1, <1>2 DEF IsIn, Held, Now, Ensure, Excluding
<1> QED BY <1>4, <1>5, <1>6, <1>7 DEF Blockers

LEMMA ExcludeSafe ==
  ASSUME Inv, NEW t \in Open, task[t] = "exclude"
  PROVE  ~ InDeadlock(t)
<1>1. t \in Txs /\ Held(t)
  BY DEF Open, Inv, Holding
<1>2. PICK d \in Domains : Excluding(t, d)
  BY <1>1, ExcludesBy
<1>3. CASE AtKey(t, "suffix")
  <2>1. ASSUME NEW u \in Blockers(t)
        PROVE  Blockers(u) = {}
    <3>1. [key |-> "suffix", by |-> u] \in ensured /\ u \in Open
      BY <1>3 DEF Blockers, AtKey, IsNext, IsIn
    <3>2. u \in Txs /\ Held(u)
      BY <3>1 DEF Open, Inv, Holding
    <3>3. ~ InParts(u) /\ Took(u, Ensure("suffix"))
      BY <3>1, <3>2 DEF Held
    <3>4. task[u] = "exclude"
      <4>1. PICK p \in Programs : p.name = task[u] /\ p.steps = prog[u]
        BY <3>2, <3>3 DEF Held
      <4>2. PICK i \in DOMAIN p.steps : p.steps[i] = Ensure("suffix")
        BY <3>3, <4>1 DEF Took
      <4> QED BY <4>1, <4>2, ProgramEnsures DEF Ensure
    <3> QED BY <3>1, <3>3, <3>4, ExcludeGoesOn
  <2>2. Blockers(t) \subseteq Txs /\ t \notin Blockers(t)
    BY DEF Blockers, Open
  <2> QED BY <1>1, <2>1, <2>2 DEF InDeadlock
<1>4. CASE ~ AtKey(t, "suffix") /\ at[t] > 1
  <2>1. holder[d] = {t}
    <3>1. TookDomain(t, d)
      <4>1. 1 \in DOMAIN prog[t] /\ prog[t][1].op = "upsert" /\ prog[t][1].domain = d
        BY <1>2 DEF Excluding
      <4> QED BY <1>4, <4>1 DEF TookDomain
    <3> QED BY <1>1, <3>1 DEF Held, InParts, Inv, Holding
  <2>2. ~ IsNext(t, "ensure")
    BY <1>1, <1>2, <1>4 DEF AtKey, IsNext, Now, Ensure, Excluding
  <2>3. IsNext(t, "upsert") => Now(t).domain = d
    BY <1>1, <1>2 DEF IsNext, Now, Ensure, Excluding
  <2>4. ~ IsIn(t, "lock")
    BY <1>1, <1>2 DEF IsIn, Held, Now, Ensure, Excluding
  <2>5. Blockers(t) = {}
    BY <2>1, <2>2, <2>3, <2>4 DEF Blockers
  <2> QED BY <1>1, <2>5, NotWaiting
<1>5. CASE at[t] <= 1
  <2>1. phase[t] = "begin"
    BY <1>1, <1>2, <1>5 DEF Held, Now, Excluding, Inv, Typed, TypeOK
  <2>2. (\A s : ~ Took(t, s)) /\ \A c : ~ TookDomain(t, c)
    BY <1>1, <1>2, <1>5, <2>1 DEF Took, TookDomain, Inv, Typed, TypeOK
  <2>3. \A i \in DOMAIN prog[t] : prog[t][i].op # "end"
    BY <1>2 DEF Ensure, Excluding
  <2> QED BY <1>1, <2>2, <2>3, BlockedBy, NotHolding DEF InParts
<1> QED BY <1>1, <1>3, <1>4, <1>5 DEF Inv, Typed, TypeOK

LEMMA AdminSafe ==
  ASSUME Inv, NEW t \in Open, task[t] = "admin"
  PROVE  ~ InDeadlock(t)
<1>1. t \in Txs /\ Held(t)
  BY DEF Open, Inv, Holding
<1>2. PICK d \in Domains : Deciding(t, d)
  BY <1>1, DecidesBy
<1>3. ~ IsNext(t, "ensure") /\ ~ IsIn(t, "lock") /\ phase[t] = "begin"
  BY <1>1, <1>2 DEF IsNext, IsIn, Held, Now, Deciding, Inv, Typed, TypeOK
<1>4. CASE at[t] > 1
  <2>1. TookDomain(t, d)
    <3>1. 1 \in DOMAIN prog[t] /\ prog[t][1].op = "upsert" /\ prog[t][1].domain = d
      BY <1>2 DEF Deciding
    <3> QED BY <1>4, <3>1 DEF TookDomain
  <2>2. holder[d] = {t}
    BY <1>1, <2>1 DEF Held, InParts, Inv, Holding
  <2>3. IsNext(t, "upsert") => Now(t).domain = d
    BY <1>1, <1>2 DEF IsNext, Now, Deciding
  <2>4. Blockers(t) = {}
    BY <1>3, <2>2, <2>3 DEF Blockers
  <2> QED BY <1>1, <2>4, NotWaiting
<1>5. CASE at[t] <= 1
  <2>1. (\A s : ~ Took(t, s)) /\ \A c : ~ TookDomain(t, c)
    BY <1>1, <1>2, <1>3, <1>5 DEF Took, TookDomain, Inv, Typed, TypeOK
  <2>2. \A i \in DOMAIN prog[t] : prog[t][i].op # "end"
    BY <1>2 DEF Deciding
  <2> QED BY <1>1, <2>1, <2>2, BlockedBy, NotHolding DEF InParts
<1> QED BY <1>1, <1>4, <1>5 DEF Inv, Typed, TypeOK

(* Recording a verdict waits at the two keys and at the domain, where the  *)
(* lemmas above have it, and nowhere else.                                 *)
LEMMA VerdictSafe ==
  ASSUME Inv, NEW t \in Txs, Classifies(t)
  PROVE  ~ InDeadlock(t)
<1>1. t \in Open /\ Held(t)
  BY DEF Classifies, Inv, Holding
<1>2. CASE AtKey(t, "prompt") \/ AtKey(t, "prompt_source")
  BY <1>2, VerdictAtKey
<1>3. CASE at[t] = 3 /\ phase[t] = "begin"
  BY <1>3, VerdictAtDomain
<1>4. CASE ~ AtKey(t, "prompt") /\ ~ AtKey(t, "prompt_source") /\ (at[t] # 3 \/ phase[t] # "begin")
  <2>1. ~ IsIn(t, "lock")
    BY <1>1, ClassifiesBy DEF IsIn, Held, Now
  <2>2. ~ IsNext(t, "ensure") /\ ~ IsNext(t, "upsert")
    <3>1. at[t] \in DOMAIN prog[t] /\ phase[t] = "begin" => at[t] > 3 \/ at[t] \in {1, 2}
      BY <1>4 DEF Inv, Typed, TypeOK
    <3>2. IsNext(t, "ensure") \/ IsNext(t, "upsert") => at[t] \in {1, 2}
      BY <3>1, ClassifiesBy DEF IsNext, Now
    <3>3. at[t] \in {1, 2} /\ at[t] \in DOMAIN prog[t] => Now(t).op = "ensure" /\ Now(t).key \in {"prompt", "prompt_source"}
      BY ClassifiesBy DEF Now, Ensure
    <3> QED BY <1>4, <3>2, <3>3 DEF AtKey, IsNext
  <2>3. Blockers(t) = {}
    BY <2>1, <2>2 DEF Blockers
  <2> QED BY <2>3, NotWaiting
<1> QED BY <1>2, <1>3, <1>4

(* A deadlock never undoes a transaction that records a verdict of the     *)
(* LLM, an exclusion or an admin's decision, however many transactions     *)
(* there are and whatever the others are for (the order in which           *)
(* ensure_for_prompt, ensure_exclude_rule and the domain upserts come in   *)
(* models.rs and operations.rs).                                           *)
THEOREM VerdictsNeverLost == Spec => []VerdictsSurvive
<1>1. Init => Inv
  BY TypedInit, KeyedInit, HoldingInit DEF Inv
<1>2. Inv /\ [Next]_vars => Inv'
  BY InvStep
<1>3. Inv => VerdictsSurvive
  <2> SUFFICES ASSUME Inv, NEW t \in Txs, task[t] \in {"classified", "store", "exclude", "admin"}
               PROVE  ~ InDeadlock(t)
    BY DEF VerdictsSurvive
  <2>1. t \in Open
    BY DEF Inv, Holding
  <2> QED BY <2>1, VerdictSafe, ExcludeSafe, AdminSafe DEF Classifies
<1> QED BY <1>1, <1>2, <1>3, PTL DEF Spec

-----------------------------------------------------------------------------
(* Reconciles and rebuilds that run side by side *)

(* A list names a domain once. *)
KeyedLists ==
  \A l \in Lists : \A i, j \in DOMAIN l : l[i].domain = l[j].domain => i = j

IsProvisioned(r, d) == r.domain = d /\ r.src = "provisioned"

(* The provisioned rows of d that were committed when t read, or began to  *)
(* delete.                                                                 *)
WasThere(t, d) == {r \in rows : IsProvisioned(r, d) /\ r.by \in seen[t]}

Wrote(t, d) == {r \in rows : IsProvisioned(r, d) /\ r.by = t}

Cleared(t, d) == \A r \in WasThere(t, d) : IsEnded(r, t)

(* t is about to end them, or has them in hand. *)
Clearing(t, d) ==
  /\ at[t] = 1 /\ prog[t][1].op = "end"
  /\ d \in prog[t][1].domains /\ "provisioned" \in prog[t][1].srcs
  /\ phase[t] = "lock" => \A r \in WasThere(t, d) : IsEnded(r, t) \/ r \in mine[t]

(* The entries that t has yet to reconcile. *)
Entries(t) == {plan[t].entries[i] : i \in DOMAIN plan[t].entries}

Provisions(t, i) == prog[t][i].op = "insert" /\ prog[t][i].src = "provisioned"

(* A source row that t saw, or made, before it read. *)
SourceFound(t, S) == \E e \in ensured : e.key = "provisioned" /\ e.by \in S \union {t}

(* It has read, with the source there. *)
HasRead(t) == seen[t] # {} /\ SourceFound(t, seen[t])

(* A reconcile ensures its source, reads once... *)
ReadsOnce(t) ==
  \A i \in DOMAIN prog[t] : prog[t][i].op = "read" =>
    /\ i = 2 /\ DOMAIN prog[t] = 1..2
    /\ prog[t][1] = Ensure("provisioned") /\ prog[t][2].desired \in Lists
    /\ at[t] <= 2 => seen[t] = {}
    /\ at[t] = 2 => SourceFound(t, Committed)

(* ...writes at most one row for each entry it has not done yet... *)
PlansOnce(t) ==
  /\ \A i, j \in DOMAIN plan[t].entries :
       plan[t].entries[i].domain = plan[t].entries[j].domain => i = j
  /\ \A e \in Entries(t) :
       /\ HasRead(t) /\ Wrote(t, e.domain) = {}
       /\ plan[t].found[e.domain] = {} => Cleared(t, e.domain)

(* A rebuild deletes first, and all at once. *)
EmptiesOnce(t) ==
  task[t] = "rebuild" =>
    /\ \A i \in DOMAIN prog[t] : prog[t][i].op = "end" => i = 1
    /\ \A i \in DOMAIN prog[t] : prog[t][i].op = "readlog" =>
         i = 1 /\ at[t] = 1 /\ phase[t] = "begin"
    /\ at[t] = 1 /\ phase[t] = "begin" => seen[t] = {}

ToEmpty(t) == task[t] = "rebuild" /\ at[t] = 1 /\ phase[t] = "begin"

(* ...and both end what they saw before. *)
ClearsFirst(t) ==
  \A i \in DOMAIN prog[t] : Provisions(t, i) =>
    LET d == prog[t][i].domain IN
    /\ d \notin {e.domain : e \in Entries(t)}
    /\ Wrote(t, d) # {} => i < at[t]
    /\ \A j \in DOMAIN prog[t] : Provisions(t, j) /\ prog[t][j].domain = d => j = i
    /\ \/ HasRead(t) /\ (Cleared(t, d) \/ Clearing(t, d))
       \/ ToEmpty(t) /\ SourceFound(t, Committed) /\ Clearing(t, d)

SeenBefore(t) ==
  /\ seen[t] \subseteq Committed
  /\ status[t] = "new" => seen[t] = {}

(* What it wrote is the only row of its domain that it saw or wrote and    *)
(* that may still be active.                                               *)
WritesAlone(t) ==
  \A s \in rows : s.src = "provisioned" /\ s.by = t =>
    HasRead(t) /\ Wrote(t, s.domain) = {s} /\ Cleared(t, s.domain)

(* What it logged about the source is no earlier than the source. *)
LogsAfter(t) ==
  \A e \in events : e.src = "provisioned" /\ e.by = t => HasRead(t)

(* What a reconcile will log it has read for. *)
LogsWhatItRead(t) ==
  \A i \in DOMAIN prog[t] : prog[t][i].op = "upsert" =>
    \A v \in prog[t][i].log : v.src = "provisioned" => HasRead(t)

Reconciles(t) ==
  /\ t \in Open => /\ ReadsOnce(t) /\ PlansOnce(t) /\ EmptiesOnce(t)
                    /\ ClearsFirst(t) /\ LogsWhatItRead(t)
  /\ SeenBefore(t) /\ WritesAlone(t) /\ LogsAfter(t)

ReconcileInv ==
  /\ \A t \in Txs : Reconciles(t)
  /\ \A r \in rows \union events : r.src = "provisioned" => r.by \in Txs

-----------------------------------------------------------------------------
(* A step that takes nothing away from u. *)
Undisturbed(u) ==
  /\ status'[u] = status[u] /\ prog'[u] = prog[u] /\ at'[u] = at[u] /\ phase'[u] = phase[u]
  /\ plan'[u] = plan[u] /\ mine'[u] = mine[u] /\ seen'[u] = seen[u] /\ task'[u] = task[u]
  /\ Committed \subseteq Committed'
  /\ \A e \in ensured : e.by \in Committed \union {u} => e \in ensured'
  /\ \A e \in ended : e.by \in Committed \union {u} => e \in ended'
  /\ \A r \in rows' : r \in rows \/ r.by \notin Committed \union {u}
  /\ \A e \in events' : e \in events \/ e.by # u

LEMMA FactsKept ==
  ASSUME Inv, NEW u \in Txs, Reconciles(u), Undisturbed(u)
  PROVE  Reconciles(u)'
<1>1. \A r : IsEnded(r, u) => IsEnded(r, u)'
  BY DEF Undisturbed, IsEnded, SeesAs
<1>2. \A d : WasThere(u, d)' \subseteq WasThere(u, d) /\ Wrote(u, d)' \subseteq Wrote(u, d)
  BY DEF Undisturbed, WasThere, Wrote, IsProvisioned, Reconciles, SeenBefore
<1>3. \A d : Cleared(u, d) => Cleared(u, d)'
  BY <1>1, <1>2 DEF Cleared
<1>4. \A d : Clearing(u, d) => Clearing(u, d)'
  BY <1>1, <1>2 DEF Clearing, Undisturbed
<1>5. \A S : SourceFound(u, S) /\ S \subseteq Committed => SourceFound(u, S)'
  BY DEF SourceFound, Undisturbed
<1>6. SourceFound(u, Committed) => SourceFound(u, Committed)'
  BY DEF SourceFound, Undisturbed
<1>7. /\ u \in Open' <=> u \in Open
      /\ u \in Open' \union Committed' <=> u \in Open \union Committed
  BY DEF Undisturbed, Open, Committed
<1>8. Entries(u)' = Entries(u) /\ \A i : Provisions(u, i)' <=> Provisions(u, i)
  BY DEF Entries, Provisions, Undisturbed
<1>9. ReadsOnce(u) => ReadsOnce(u)'
  BY <1>6 DEF ReadsOnce, Undisturbed
<1>10. HasRead(u) => HasRead(u)'
  BY <1>5 DEF HasRead, Reconciles, SeenBefore, Undisturbed
<1>11. PlansOnce(u) => PlansOnce(u)'
  BY <1>2, <1>3, <1>8, <1>10 DEF PlansOnce, Undisturbed
<1>12. EmptiesOnce(u) => EmptiesOnce(u)'
  BY DEF EmptiesOnce, Undisturbed
<1>13. ClearsFirst(u) => ClearsFirst(u)'
  <2>1. ToEmpty(u) => ToEmpty(u)'
    BY DEF ToEmpty, Undisturbed
  <2>2. prog'[u] = prog[u] /\ at'[u] = at[u]
    BY DEF Undisturbed
  <2>3. ASSUME ClearsFirst(u), NEW i \in DOMAIN prog[u], Provisions(u, i),
               NEW d, d = prog[u][i].domain
        PROVE  /\ d \notin {e.domain : e \in Entries(u)'}
               /\ Wrote(u, d)' # {} => i < at[u]
               /\ \A j \in DOMAIN prog[u] : Provisions(u, j) /\ prog[u][j].domain = d => j = i
               /\ \/ HasRead(u)' /\ (Cleared(u, d)' \/ Clearing(u, d)')
                  \/ ToEmpty(u)' /\ SourceFound(u, Committed)' /\ Clearing(u, d)'
    <3>1. /\ d \notin {e.domain : e \in Entries(u)}
          /\ Wrote(u, d) # {} => i < at[u]
          /\ \A j \in DOMAIN prog[u] : Provisions(u, j) /\ prog[u][j].domain = d => j = i
      BY <2>3 DEF ClearsFirst
    <3>2. \/ HasRead(u) /\ (Cleared(u, d) \/ Clearing(u, d))
          \/ ToEmpty(u) /\ SourceFound(u, Committed) /\ Clearing(u, d)
      BY <2>3 DEF ClearsFirst
    <3>3. Wrote(u, d)' # {} => Wrote(u, d) # {}
      BY <1>2
    <3> QED BY <1>3, <1>4, <1>6, <1>8, <1>10, <2>1, <3>1, <3>2, <3>3
  <2> QED BY <1>8, <2>2, <2>3 DEF ClearsFirst
<1>14. SeenBefore(u)'
  BY DEF Reconciles, SeenBefore, Undisturbed
<1>15. WritesAlone(u)'
  <2> SUFFICES ASSUME NEW s \in rows', s.src = "provisioned", s.by = u
               PROVE  (HasRead(u) /\ Wrote(u, s.domain) = {s} /\ Cleared(u, s.domain))'
    BY DEF WritesAlone
  <2>1. s \in rows
    BY DEF Undisturbed
  <2>2. s \in Wrote(u, s.domain)'
    BY DEF Wrote, IsProvisioned
  <2> QED BY <1>2, <1>3, <1>10, <2>1, <2>2 DEF Reconciles, WritesAlone
<1>16. LogsAfter(u)'
  BY <1>10 DEF Reconciles, LogsAfter, Undisturbed
<1>17. LogsWhatItRead(u) => LogsWhatItRead(u)'
  BY <1>10 DEF LogsWhatItRead, Undisturbed
<1> QED BY <1>7, <1>9, <1>11, <1>12, <1>13, <1>14, <1>15, <1>16, <1>17 DEF Reconciles

(* A step of another transaction is one. *)
LEMMA OthersUndisturbed ==
  ASSUME Inv, NEW t \in Txs, NEW u \in Txs \ {t},
         Begin(t) \/ Step(t) \/ Commit(t) \/ Rollback(t)
  PROVE  Undisturbed(u)
<1>1. CASE Begin(t)
  <2>1. Committed' = Committed
    BY <1>1 DEF Begin, Committed, Inv, Typed, TypeOK
  <2> QED BY <1>1, <2>1 DEF Undisturbed, Begin, data, Inv, Typed, TypeOK
<1>2. CASE Commit(t)
  <2>1. Committed \subseteq Committed'
    BY <1>2 DEF Commit, Committed, Inv, Typed, TypeOK
  <2> QED BY <1>2, <2>1 DEF Undisturbed, Commit, Forget, Inv, Typed, TypeOK
<1>3. CASE Rollback(t)
  <2>1. t \notin Committed /\ Committed' = Committed
    BY <1>3, ReadCommittedAssumption DEF Rollback, Open, Committed, Inv, Typed, TypeOK
  <2> QED BY <1>3, <2>1 DEF Undisturbed, Rollback, Forget, Inv, Typed, TypeOK
<1>4. CASE EnsureRow(t) \/ BeginEnd(t) \/ \E r \in rows : EndRow(t, r)
  <2>1. status' = status /\ Committed' = Committed
    BY <1>4 DEF EnsureRow, BeginEnd, EndRow, GoOn, Committed
  <2>2. /\ ensured \subseteq ensured' /\ ended \subseteq ended' /\ rows' = rows
        /\ events' = events /\ seen'[u] = seen[u]
    BY <1>4 DEF EnsureRow, InsertKey, BeginEnd, EndRow, Inv, Typed, TypeOK
  <2>3. mine'[u] = mine[u] /\ \E p : GoOn(t, p)
    BY <1>4 DEF EnsureRow, BeginEnd, EndRow, Inv, Typed, TypeOK
  <2> QED BY <2>1, <2>2, <2>3 DEF Undisturbed, GoOn, Inv, Typed, TypeOK
<1>5. CASE GetRow(t) \/ UpsertDomain(t) \/ InsertRow(t) \/ EndDone(t) \/ ReadActive(t)
  <2>1. Done(t) /\ Committed' = Committed
    BY <1>5 DEF GetRow, UpsertDomain, InsertRow, EndDone, ReadActive, Done, Committed
  <2>2. /\ mine' = mine /\ ensured' = ensured /\ ended' = ended
        /\ plan'[u] = plan[u] /\ seen'[u] = seen[u]
        /\ \A e \in events' : e \in events \/ e.by # u
    BY <1>5 DEF GetRow, UpsertDomain, InsertRow, EndDone, ReadActive, data, Inv, Typed, TypeOK
  <2>3. \A r \in rows' : r \in rows \/ r.by \notin Committed \union {u}
    <3>1. CASE InsertRow(t)
      <4>1. t \notin Committed
        BY <3>1, ReadCommittedAssumption DEF InsertRow, IsNext, Open, Committed
      <4> QED BY <3>1, <4>1 DEF InsertRow
    <3>2. CASE rows' = rows
      BY <3>2
    <3> QED BY <1>5, <3>1, <3>2 DEF GetRow, UpsertDomain, EndDone, ReadActive, data
  <2> QED BY <2>1, <2>2, <2>3 DEF Undisturbed, Done, Inv, Typed, TypeOK
<1>6. CASE NextEntry(t) \/ NextRemoved(t) \/ ReadLog(t)
  <2>1. PICK steps : RunPart(t, steps)
    BY <1>6 DEF NextEntry, NextRemoved, ReadLog
  <2>2. plan'[u] = plan[u]
    BY <1>6 DEF NextEntry, NextRemoved, ReadLog, Inv, Typed, TypeOK
  <2>3. Committed' = Committed
    BY <2>1 DEF RunPart, Committed
  <2> QED BY <2>1, <2>2, <2>3 DEF Undisturbed, RunPart, data, Inv, Typed, TypeOK
<1> QED BY <1>1, <1>2, <1>3, <1>4, <1>5, <1>6 DEF Step

-----------------------------------------------------------------------------
(* The steps of a reconcile itself *)

(* No program writes or logs what is provisioned before it has read, and   *)
(* only a reconcile reads.                                                 *)
LogsNone(step) ==
  /\ step.op = "insert" => step.src # "provisioned"
  /\ step.op = "upsert" => \A v \in step.log : v.src # "provisioned"

LEMMA ProgramProvisions ==
  ASSUME NEW p \in Programs, NEW i \in DOMAIN p.steps
  PROVE  /\ LogsNone(p.steps[i])
         /\ p.steps[i].op = "read" =>
              /\ i = 2 /\ DOMAIN p.steps = 1..2
              /\ p.steps[1] = Ensure("provisioned") /\ p.steps[2].desired \in Lists
<1>1. ASSUME NEW d \in Domains,
             p \in {ClassifiedEvent(d), ClassificationStore(d), ExcludeRuleClassify(d),
                    ApplyAdminClassification(d), ApplyPatternClassification(d),
                    DomainExpire(d)}
      PROVE  LogsNone(p.steps[i])
  <2>1. CASE p \in {ClassifiedEvent(d), ClassificationStore(d)}
    BY <2>1 DEF ClassifiedEvent, ClassificationStore, Program, Ensure, Upsert, Log, Insert, LogsNone
  <2>2. CASE p \in {ExcludeRuleClassify(d), ApplyAdminClassification(d)}
    BY <2>2 DEF ExcludeRuleClassify, ApplyAdminClassification, Program, Ensure, Upsert, Log, Insert, LogsNone
  <2>3. CASE p \in {ApplyPatternClassification(d), DomainExpire(d)}
    BY <2>3 DEF ApplyPatternClassification, DomainExpire, Program, Upsert, Log, Insert, End, LogsNone
  <2> QED BY <1>1, <2>1, <2>2, <2>3
<1>2. CASE p = ReconcilePatternRule
  BY <1>2 DEF ReconcilePatternRule, Program, Ensure, LogsNone
<1>3. ASSUME NEW order \in Batches, p = Requeue(order)
      PROVE  LogsNone(p.steps[i])
  BY <1>3 DEF Requeue, Program, Upsert, LogsNone
<1>4. ASSUME NEW l \in Lists, p = Reconcile(l)
      PROVE  /\ LogsNone(p.steps[i])
             /\ p.steps[i].op = "read" =>
                  /\ i = 2 /\ DOMAIN p.steps = 1..2
                  /\ p.steps[1] = Ensure("provisioned") /\ p.steps[2].desired \in Lists
  BY <1>4 DEF Reconcile, Program, Ensure, LogsNone
<1>5. CASE p = RebuildProjections
  BY <1>5 DEF RebuildProjections, Program, LogsNone
<1>6. p.name # "reconcile" => p.steps[i].op # "read"
  BY ProgramReads
<1>7. p.name = "reconcile" => \E l \in Lists : p = Reconcile(l)
  BY ProgramNames
<1> QED BY <1>1, <1>2, <1>3, <1>4, <1>5, <1>6, <1>7 DEF Programs

LEMMA BeginReconciles ==
  ASSUME Inv, NEW t \in Txs, Reconciles(t), Begin(t)
  PROVE  Reconciles(t)'
<1>1. PICK p \in Programs : task' = [task EXCEPT ![t] = p.name] /\ prog' = [prog EXCEPT ![t] = p.steps]
  BY DEF Begin
<1>2. /\ prog'[t] = p.steps /\ at'[t] = 1 /\ plan'[t] = NoPlan /\ seen'[t] = {} /\ seen[t] = {}
      /\ status'[t] = "open" /\ task'[t] = p.name /\ phase'[t] = "begin"
  BY <1>1 DEF Begin, data, Reconciles, SeenBefore, Open, Inv, Holding, Keyed, Typed, TypeOK
<1>3. ReadsOnce(t)'
  BY <1>2, ProgramProvisions DEF ReadsOnce
<1>4. PlansOnce(t)'
  BY <1>2 DEF PlansOnce, NoPlan, Entries, Cleared, WasThere
<1>5. ClearsFirst(t)'
  BY <1>2, ProgramProvisions DEF ClearsFirst, Provisions, LogsNone
<1>6. SeenBefore(t)'
  BY <1>2 DEF SeenBefore
<1>7. (\A s \in rows' : s.src = "provisioned" => s.by # t) /\ \A e \in events' : e.src = "provisioned" => e.by # t
  BY <1>2 DEF Begin, data, Reconciles, WritesAlone, LogsAfter, HasRead
<1>8. LogsWhatItRead(t)'
  BY <1>2, ProgramProvisions DEF LogsWhatItRead, LogsNone
<1>9. EmptiesOnce(t)'
  <2>1. p.name = "rebuild" => \A i \in DOMAIN p.steps : i = 1 /\ p.steps[i].op = "readlog"
    <3>1. p.name = "rebuild" => p = RebuildProjections
      BY ProgramNames
    <3> QED BY <3>1 DEF RebuildProjections, Program
  <2> QED BY <1>2, <2>1 DEF EmptiesOnce
<1> QED BY <1>3, <1>4, <1>5, <1>6, <1>7, <1>8, <1>9 DEF Reconciles, WritesAlone, LogsAfter

LEMMA CommitReconciles ==
  ASSUME Inv, NEW t \in Txs, Reconciles(t), Commit(t)
  PROVE  Reconciles(t)'
<1>1. t \in Open /\ status'[t] = "committed" /\ Committed \subseteq Committed'
  BY DEF Commit, IsThrough, Committed, Inv, Typed, TypeOK
<1>2. UNCHANGED <<ensured, rows, ended, events, seen>>
  BY DEF Commit
<1>3. SeenBefore(t)'
  BY <1>1, <1>2 DEF Reconciles, SeenBefore
<1>4. WritesAlone(t)' /\ LogsAfter(t)'
  BY <1>1, <1>2
     DEF Reconciles, WritesAlone, LogsAfter, HasRead, SourceFound, Wrote, WasThere, IsProvisioned,
         Cleared, IsEnded, SeesAs
<1>5. t \notin Open'
  BY <1>1 DEF Open
<1> QED BY <1>3, <1>4, <1>5 DEF Reconciles

LEMMA RollbackReconciles ==
  ASSUME Inv, NEW t \in Txs, Reconciles(t), Rollback(t)
  PROVE  Reconciles(t)'
<1>1. /\ t \notin Open' /\ t \notin Committed' /\ Committed' = Committed
      /\ status'[t] = "aborted"
  BY ReadCommittedAssumption DEF Rollback, Open, Committed, Inv, Typed, TypeOK
<1>2. SeenBefore(t)'
  BY <1>1 DEF Rollback, Reconciles, SeenBefore
<1>3. WritesAlone(t)' /\ LogsAfter(t)'
  BY DEF Rollback, WritesAlone, LogsAfter
<1> QED BY <1>1, <1>2, <1>3 DEF Reconciles

(* A step of t within its statement, or to the next, that writes no row. *)
LEMMA StatementReconciles ==
  ASSUME Inv, NEW t \in Open, Reconciles(t), seen'[t] = seen[t], task'[t] = task[t],
         status' = status, prog'[t] = prog[t], plan'[t] = plan[t], rows' = rows,
         at[t] \in DOMAIN prog[t], Now(t).op # "readlog",
         \/ at'[t] = at[t] + 1
         \/ at'[t] = at[t] /\ phase'[t] # "begin",
         ensured \subseteq ensured', ended \subseteq ended',
         \A e \in events' :
           e \in events \/ (e.src = "provisioned" /\ e.by = t => HasRead(t)),
         at'[t] = 2 /\ at[t] = 1 /\ prog[t][1] = Ensure("provisioned") =>
           SourceFound(t, Committed),
         \A d \in Domains : Clearing(t, d) =>
           ~ ToEmpty(t) /\ (Cleared(t, d)' \/ Clearing(t, d)')
  PROVE  Reconciles(t)'
<1>1. t \in Txs /\ Open' = Open /\ Committed' = Committed /\ at[t] \in Nat \ {0}
  BY DEF Open, Committed, Inv, Typed, TypeOK
<1>2. \A d : WasThere(t, d)' = WasThere(t, d) /\ Wrote(t, d)' = Wrote(t, d)
  BY DEF WasThere, Wrote
<1>3. \A d : Cleared(t, d) => Cleared(t, d)'
  BY <1>1, <1>2 DEF Cleared, IsEnded, SeesAs
<1>4. Entries(t)' = Entries(t) /\ \A i : Provisions(t, i)' <=> Provisions(t, i)
  BY DEF Entries, Provisions
<1>5. HasRead(t) => HasRead(t)'
  BY DEF HasRead, SourceFound
<1>6. SourceFound(t, Committed) => SourceFound(t, Committed)'
  BY <1>1 DEF SourceFound
<1>7. ReadsOnce(t)'
  BY <1>1, <1>6 DEF Reconciles, ReadsOnce
<1>8. PlansOnce(t)'
  BY <1>2, <1>3, <1>4, <1>5 DEF Reconciles, PlansOnce
<1>9. ClearsFirst(t)'
  <2> SUFFICES ASSUME NEW i \in DOMAIN prog[t], Provisions(t, i),
                      NEW d, d = prog[t][i].domain
               PROVE  /\ (HasRead(t) /\ d \notin {e.domain : e \in Entries(t)})'
                      /\ (Wrote(t, d) # {} => i < at[t])'
                      /\ \A j \in DOMAIN prog[t] :
                           Provisions(t, j) /\ prog[t][j].domain = d => j = i
                      /\ (Cleared(t, d) \/ Clearing(t, d))'
    BY <1>4 DEF ClearsFirst
  <2>1. d \in Domains
    <3>1. prog[t][i] \in Statement
      BY <1>1 DEF Inv, Typed, TypeOK
    <3> QED BY <3>1 DEF Statement, Provisions
  <2>2. i \in Nat
    BY <1>1 DEF Inv, Typed, TypeOK
  <2>3. HasRead(t) /\ (Cleared(t, d) \/ Clearing(t, d))
    BY <2>1 DEF Reconciles, ClearsFirst
  <2>4. i < at[t] => i < at'[t]
    BY <1>1, <2>2
  <2> QED BY <1>1, <1>2, <1>3, <1>4, <1>5, <2>1, <2>3, <2>4 DEF Reconciles, ClearsFirst
<1>10. SeenBefore(t)'
  BY <1>1 DEF Reconciles, SeenBefore
<1>11. WritesAlone(t)'
  BY <1>2, <1>3, <1>5 DEF Reconciles, WritesAlone
<1>12. LogsAfter(t)' /\ LogsWhatItRead(t)'
  BY <1>5 DEF Reconciles, LogsAfter, LogsWhatItRead
<1>13. EmptiesOnce(t)'
  BY <1>1 DEF Reconciles, EmptiesOnce, Now
<1> QED BY <1>7, <1>8, <1>9, <1>10, <1>11, <1>12, <1>13 DEF Reconciles

(* Whoever is at the statement that ends the old rows does just that. *)
LEMMA AtClearing ==
  ASSUME NEW t \in Txs, NEW d \in Domains, Clearing(t, d)
  PROVE  /\ Now(t).op = "end" /\ d \in Now(t).domains /\ "provisioned" \in Now(t).srcs
  BY DEF Clearing, Now

LEMMA TakingReconciles ==
  ASSUME Inv, NEW t \in Txs, Reconciles(t), EnsureRow(t) \/ GetRow(t) \/ UpsertDomain(t)
  PROVE  Reconciles(t)'
<1>1. t \in Open /\ Held(t)
  BY DEF EnsureRow, GetRow, UpsertDomain, IsNext, IsIn, Inv, Holding
<1>2. Now(t).op \in {"ensure", "upsert"} /\ at[t] \in DOMAIN prog[t]
  BY <1>1 DEF EnsureRow, GetRow, UpsertDomain, IsNext, IsIn, Held
<1>3. \A d \in Domains : ~ Clearing(t, d)
  BY <1>2, AtClearing
<1>4. /\ status' = status /\ prog' = prog /\ plan' = plan /\ rows' = rows /\ seen' = seen
      /\ task' = task /\ ensured \subseteq ensured' /\ ended' = ended
      /\ GoOn(t, "get") \/ Done(t)
  BY DEF EnsureRow, InsertKey, GetRow, UpsertDomain, Done, GoOn, data
<1>5. \/ at'[t] = at[t] + 1
      \/ at'[t] = at[t] /\ phase'[t] # "begin"
  BY <1>4 DEF GoOn, Done, Inv, Typed, TypeOK
<1>6. ASSUME at'[t] = 2, at[t] = 1, prog[t][1] = Ensure("provisioned")
      PROVE  SourceFound(t, Committed)
  <2>1. Now(t).op = "ensure" /\ Now(t).key = "provisioned"
    BY <1>6 DEF Now, Ensure
  <2>2. GetRow(t)
    BY <1>6, <2>1 DEF EnsureRow, UpsertDomain, IsNext, GoOn
  <2> QED BY <2>1, <2>2 DEF GetRow, Finds, SeesAs, SourceFound
<1>7. \A e \in events' : e \in events \/ (e.src = "provisioned" /\ e.by = t => HasRead(t))
  <2>1. CASE UpsertDomain(t)
    <3>1. \A e \in events' : e \in events \/ \E v \in Now(t).log : e.src = v.src
      BY <2>1 DEF UpsertDomain
    <3>2. Now(t).op = "upsert"
      BY <2>1 DEF UpsertDomain, IsNext
    <3> QED BY <1>1, <1>2, <3>1, <3>2 DEF Reconciles, LogsWhatItRead, Now
  <2>2. CASE events' = events
    BY <2>2
  <2> QED BY <2>1, <2>2 DEF EnsureRow, GetRow, data
<1>8. Now(t).op # "readlog"
  BY <1>2
<1> QED BY <1>1, <1>2, <1>3, <1>4, <1>5, <1>6, <1>7, <1>8, StatementReconciles

(* A rebuild begins to delete: what it sees is what it will have deleted. *)
LEMMA EmptyingReconciles ==
  ASSUME Inv, NEW t \in Txs, Reconciles(t), BeginEnd(t), task[t] = "rebuild"
  PROVE  Reconciles(t)'
<1>1. /\ t \in Open /\ Held(t) /\ at[t] \in DOMAIN prog[t] /\ phase[t] = "begin"
      /\ Now(t).op = "end"
  BY DEF BeginEnd, IsNext, Inv, Holding
<1>2. at[t] = 1 /\ seen[t] = {} /\ ~ HasRead(t)
  BY <1>1 DEF Reconciles, EmptiesOnce, HasRead, Now
<1>3. /\ status' = status /\ prog' = prog /\ plan' = plan /\ rows' = rows /\ task' = task
      /\ ensured' = ensured /\ ended' = ended /\ events' = events /\ at' = at
      /\ phase'[t] = "lock" /\ seen'[t] = Committed
      /\ mine'[t] = {r \in ActiveRows(t) : r.domain \in Now(t).domains /\ r.src \in Now(t).srcs}
  BY DEF BeginEnd, GoOn, Inv, Typed, TypeOK
<1>4. /\ Open' = Open /\ Committed' = Committed /\ Committed # {}
      /\ Entries(t)' = Entries(t) /\ \A i : Provisions(t, i)' <=> Provisions(t, i)
      /\ \A d : Wrote(t, d)' = Wrote(t, d)
  BY <1>3 DEF Open, Committed, Entries, Provisions, Wrote
<1>5. SeenBefore(t)' /\ WritesAlone(t)' /\ LogsAfter(t)'
  BY <1>1, <1>2, <1>3, <1>4 DEF Reconciles, SeenBefore, WritesAlone, LogsAfter, Open
<1>6. ReadsOnce(t)' /\ LogsWhatItRead(t)' /\ EmptiesOnce(t)'
  <2>1. \A i \in DOMAIN prog[t] : prog[t][i].op # "read"
    <3>1. InParts(t)
      BY DEF InParts
    <3> QED BY <1>1, <3>1 DEF Held
  <2>2. \A i \in DOMAIN prog[t] : prog[t][i].op # "readlog"
    BY <1>1, <1>2 DEF Reconciles, EmptiesOnce, Now
  <2> QED BY <1>1, <1>2, <1>3, <2>1, <2>2 DEF Reconciles, ReadsOnce, LogsWhatItRead, EmptiesOnce
<1>7. PlansOnce(t)'
  BY <1>1, <1>3, <1>4 DEF Held, PlansOnce, NoPlan, Entries
<1>8. ClearsFirst(t)'
  <2> SUFFICES ASSUME NEW i \in DOMAIN prog[t], Provisions(t, i), NEW d, d = prog[t][i].domain
               PROVE  HasRead(t)' /\ Clearing(t, d)'
    BY <1>1, <1>3, <1>4 DEF Reconciles, ClearsFirst
  <2>1. SourceFound(t, Committed) /\ Clearing(t, d)
    BY <1>1, <1>2 DEF Reconciles, ClearsFirst
  <2>2. HasRead(t)'
    BY <1>3, <1>4, <2>1 DEF HasRead, SourceFound
  <2>3. ASSUME NEW r \in WasThere(t, d)'
        PROVE  IsEnded(r, t) \/ r \in mine'[t]
    <3>1. r \in rows /\ r.domain = d /\ r.src = "provisioned" /\ r.by \in Committed
      BY <1>3, <2>3 DEF WasThere, IsProvisioned
    <3>2. d \in Now(t).domains /\ "provisioned" \in Now(t).srcs
      BY <1>2, <2>1 DEF Clearing, Now
    <3> QED BY <1>3, <3>1, <3>2 DEF ActiveRows, SeesAs
  <2>4. \A r : IsEnded(r, t) => IsEnded(r, t)'
    BY <1>3, <1>4 DEF IsEnded, SeesAs
  <2> QED BY <1>3, <2>1, <2>2, <2>3, <2>4 DEF Clearing
<1> QED BY <1>5, <1>6, <1>7, <1>8 DEF Reconciles

LEMMA EndingReconciles ==
  ASSUME Inv, NEW t \in Txs, Reconciles(t),
         \/ BeginEnd(t) /\ task[t] # "rebuild"
         \/ (\E r \in rows : EndRow(t, r)) \/ EndDone(t)
  PROVE  Reconciles(t)'
<1>1. t \in Open /\ Held(t) /\ Now(t).op = "end" /\ at[t] \in DOMAIN prog[t]
  BY DEF BeginEnd, EndRow, EndDone, IsNext, IsIn, Inv, Holding, Held
<1>2. /\ status' = status /\ prog' = prog /\ plan' = plan /\ rows' = rows /\ seen'[t] = seen[t]
      /\ task' = task /\ ensured' = ensured /\ ended \subseteq ended' /\ events' = events
      /\ GoOn(t, "lock") \/ Done(t)
  BY DEF BeginEnd, EndRow, EndDone, Done, GoOn, data, Inv, Typed, TypeOK
<1>3. \/ at'[t] = at[t] + 1
      \/ at'[t] = at[t] /\ phase'[t] # "begin"
  BY <1>2 DEF GoOn, Done, Inv, Typed, TypeOK
<1>7. ~ ToEmpty(t)
  BY DEF BeginEnd, EndRow, EndDone, IsIn, ToEmpty
<1>8. Now(t).op # "readlog"
  BY <1>1
<1>4. ~ (at[t] = 1 /\ prog[t][1] = Ensure("provisioned"))
  BY <1>1 DEF Now, Ensure
<1>5. Committed' = Committed /\ \A d : WasThere(t, d)' = WasThere(t, d)
  BY <1>2 DEF Committed, WasThere
<1>6. ASSUME NEW d \in Domains, Clearing(t, d)
      PROVE  Cleared(t, d)' \/ Clearing(t, d)'
  <2>1. CASE BeginEnd(t)
    <3>1. mine'[t] = {r \in ActiveRows(t) : r.domain \in Now(t).domains /\ r.src \in Now(t).srcs}
      BY <2>1 DEF BeginEnd, Inv, Typed, TypeOK
    <3>2. \A r \in WasThere(t, d) : IsEnded(r, t) \/ r \in mine'[t]
      BY <1>6, <3>1, AtClearing
         DEF WasThere, IsProvisioned, ActiveRows, SeesAs, Reconciles, SeenBefore
    <3>3. at'[t] = at[t] /\ prog'[t] = prog[t] /\ ended' = ended
      BY <2>1 DEF BeginEnd, GoOn
    <3> QED BY <1>5, <1>6, <3>2, <3>3 DEF Clearing, IsEnded, SeesAs
  <2>2. ASSUME NEW r \in rows, EndRow(t, r)
        PROVE  Clearing(t, d)'
    <3>1. phase[t] = "lock" /\ at' = at /\ prog' = prog
      BY <2>2 DEF EndRow, IsIn, GoOn
    <3>2. \A s : IsEnded(s, t) => IsEnded(s, t)'
      BY <1>2, <1>5 DEF IsEnded, SeesAs
    <3>3. IsEnded(r, t)'
      <4>1. CASE IsEnded(r, t)
        BY <3>2, <4>1
      <4>2. CASE ~ IsEnded(r, t)
        <5>1. [row |-> r, by |-> t] \in ended'
          BY <2>2, <4>2 DEF EndRow
        <5> QED BY <5>1 DEF IsEnded, SeesAs
      <4> QED BY <4>1, <4>2
    <3>4. mine'[t] = mine[t] \ {r}
      BY <2>2 DEF EndRow, Inv, Typed, TypeOK
    <3>5. \A s \in WasThere(t, d)' : IsEnded(s, t)' \/ s \in mine'[t]
      BY <1>5, <1>6, <3>1, <3>2, <3>3, <3>4 DEF Clearing
    <3> QED BY <1>6, <3>1, <3>5 DEF Clearing
  <2>3. CASE EndDone(t)
    <3>1. phase[t] = "lock" /\ mine[t] = {} /\ ended' = ended
      BY <2>3 DEF EndDone, IsIn, data
    <3> QED BY <1>5, <1>6, <3>1 DEF Clearing, Cleared, IsEnded, SeesAs
  <2> QED BY <2>1, <2>2, <2>3
<1> QED BY <1>1, <1>2, <1>3, <1>4, <1>6, <1>7, <1>8, StatementReconciles

(* The row that is written is the only one, and those it replaces are      *)
(* ended.                                                                  *)
LEMMA InsertReconciles ==
  ASSUME Inv, NEW t \in Txs, Reconciles(t), InsertRow(t)
  PROVE  Reconciles(t)'
<1> DEFINE i == at[t]
           new == [domain |-> Now(t).domain, src |-> Now(t).src, match |-> Now(t).match, by |-> t]
<1>1. /\ t \in Open /\ i \in DOMAIN prog[t] /\ i \in Nat \ {0} /\ Now(t).op = "insert"
      /\ prog[t][i] = Now(t) /\ rows' = rows \union {new}
  BY DEF InsertRow, IsNext, Now, Inv, Typed, TypeOK
<1>2. /\ status' = status /\ prog' = prog /\ plan' = plan /\ ensured' = ensured
      /\ ended' = ended /\ seen' = seen /\ mine' = mine /\ at'[t] = i + 1
      /\ task' = task /\ events' = events
  BY DEF InsertRow, Done, Inv, Typed, TypeOK
<1>3. Open' = Open /\ Committed' = Committed /\ t \notin seen[t]
  <2>1. t \notin Committed
    BY <1>1, ReadCommittedAssumption DEF Open, Committed
  <2> QED BY <1>2, <2>1 DEF Open, Committed, Reconciles, SeenBefore
<1>4. new.by = t /\ new.src = Now(t).src /\ new.domain = Now(t).domain
  OBVIOUS
<1>5. Now(t).src = "provisioned" <=> Provisions(t, i)
  BY <1>1 DEF Provisions
<1> HIDE DEF i, new
<1>6. \A d : WasThere(t, d)' = WasThere(t, d)
  BY <1>1, <1>2, <1>3, <1>4 DEF WasThere
<1>7. \A d : Wrote(t, d)' = Wrote(t, d) \union
                (IF Provisions(t, i) /\ d = Now(t).domain THEN {new} ELSE {})
  BY <1>1, <1>4, <1>5 DEF Wrote, IsProvisioned
<1>8. \A d : Cleared(t, d)' <=> Cleared(t, d)
  BY <1>2, <1>3, <1>6 DEF Cleared, IsEnded, SeesAs
<1>9. ASSUME Provisions(t, i)
      PROVE  /\ HasRead(t) /\ Now(t).domain \notin {e.domain : e \in Entries(t)}
             /\ Wrote(t, Now(t).domain) = {}
             /\ \A j \in DOMAIN prog[t] :
                  Provisions(t, j) /\ prog[t][j].domain = Now(t).domain => j = i
             /\ Cleared(t, Now(t).domain)
  <2>1. ClearsFirst(t) /\ i \in DOMAIN prog[t] /\ prog[t][i].domain = Now(t).domain
    BY <1>1 DEF Reconciles
  <2>2. ~ Clearing(t, Now(t).domain)
    BY <1>1 DEF Clearing, Now, i
  <2>3. ~ (i < at[t])
    BY <1>1 DEF i
  <2> QED BY <1>9, <2>1, <2>2, <2>3 DEF ClearsFirst
<1>16. HasRead(t)' <=> HasRead(t)
  BY <1>2 DEF HasRead, SourceFound
<1>10. Entries(t)' = Entries(t) /\ \A j : Provisions(t, j)' <=> Provisions(t, j)
  BY <1>2 DEF Entries, Provisions
<1>11. ReadsOnce(t)'
  <2>1. \A j \in DOMAIN prog[t] : prog[t][j].op = "read" /\ at'[t] <= 2 =>
          at[t] = 1 /\ prog[t][1] = Ensure("provisioned")
    <3> SUFFICES ASSUME NEW j \in DOMAIN prog[t], prog[t][j].op = "read", at'[t] <= 2
                 PROVE  at[t] = 1 /\ prog[t][1] = Ensure("provisioned")
      OBVIOUS
    <3>1. i \in 1..2 /\ prog[t][1] = Ensure("provisioned") /\ DOMAIN prog[t] = 1..2
      BY <1>1, <1>2 DEF Reconciles, ReadsOnce
    <3> QED BY <1>1, <1>2, <3>1 DEF i
  <2>2. ~ (at[t] = 1 /\ prog[t][1] = Ensure("provisioned"))
    BY <1>1 DEF Now, Ensure, i
  <2> QED BY <1>1, <1>2, <2>1, <2>2 DEF Reconciles, ReadsOnce
<1>12. PlansOnce(t)'
  BY <1>1, <1>2, <1>7, <1>8, <1>9, <1>10, <1>16 DEF Reconciles, PlansOnce
<1>13. ClearsFirst(t)'
  <2> SUFFICES ASSUME NEW j \in DOMAIN prog[t], Provisions(t, j),
                      NEW d, d = prog[t][j].domain
               PROVE  /\ HasRead(t) /\ d \notin {e.domain : e \in Entries(t)}
                      /\ Wrote(t, d)' # {} => j < at'[t]
                      /\ \A k \in DOMAIN prog[t] :
                           Provisions(t, k) /\ prog[t][k].domain = d => k = j
                      /\ Cleared(t, d)
    BY <1>2, <1>8, <1>10, <1>16 DEF ClearsFirst
  <2>1. CASE Provisions(t, i) /\ d = Now(t).domain
    <3>1. j = i
      BY <1>1, <1>9, <2>1
    <3> QED BY <1>1, <1>2, <1>9, <2>1, <3>1
  <2>2. CASE ~ (Provisions(t, i) /\ d = Now(t).domain)
    <3>1. Wrote(t, d)' = Wrote(t, d)
      BY <1>7, <2>2
    <3>2. ~ Clearing(t, d)
      BY <1>1 DEF Clearing, Now, i
    <3>3. j < at[t] => j < at'[t]
      BY <1>1, <1>2 DEF i, Inv, Typed, TypeOK
    <3> QED BY <1>1, <3>1, <3>2, <3>3 DEF Reconciles, ClearsFirst
  <2> QED BY <2>1, <2>2
<1>14. SeenBefore(t)'
  BY <1>2, <1>3 DEF Reconciles, SeenBefore
<1>15. WritesAlone(t)'
  BY <1>1, <1>2, <1>4, <1>5, <1>7, <1>8, <1>9, <1>16 DEF Reconciles, WritesAlone, Wrote, IsProvisioned
<1>17. LogsAfter(t)' /\ LogsWhatItRead(t)'
  BY <1>1, <1>2, <1>16 DEF Reconciles, LogsAfter, LogsWhatItRead
<1>18. EmptiesOnce(t)'
  BY <1>1, <1>2 DEF Reconciles, EmptiesOnce, i
<1> QED BY <1>11, <1>12, <1>13, <1>14, <1>15, <1>17, <1>18 DEF Reconciles

LEMMA ReadReconciles ==
  ASSUME KeyedLists, Inv, NEW t \in Txs, Reconciles(t), ReadActive(t)
  PROVE  Reconciles(t)'
<1>1. t \in Open /\ at[t] \in DOMAIN prog[t] /\ Now(t).op = "read"
  BY DEF ReadActive, IsNext
<1>2. /\ at[t] = 2 /\ DOMAIN prog[t] = 1..2 /\ prog[t][1] = Ensure("provisioned")
      /\ Now(t).desired \in Lists /\ seen[t] = {} /\ SourceFound(t, Committed)
  BY <1>1 DEF Now, Reconciles, ReadsOnce
<1>3. /\ Done(t) /\ UNCHANGED <<mine, ensured, rows, ended, events>> /\ at'[t] = 3
      /\ status' = status /\ prog' = prog
  BY <1>2 DEF ReadActive, Done, Inv, Typed, TypeOK
<1>4. seen'[t] = Committed /\ Past \in Committed /\ Committed' = Committed
  BY <1>3 DEF ReadActive, Committed, Inv, Typed, TypeOK
<1>5. PICK found \in [Domains -> SUBSET BOOLEAN] :
        /\ plan'[t].entries = Now(t).desired /\ plan'[t].found = found
        /\ \A d \in Domains : found[d] = {} =>
             ~ \E q \in ActiveRows(t) : q.src = "provisioned" /\ q.domain = d
  <2> DEFINE active == {r \in ActiveRows(t) : r.src = "provisioned"}
             Values(d) == {r.match : r \in {r \in active : r.domain = d}}
             gone == {r.domain : r \in active}
                       \ {Now(t).desired[i].domain : i \in DOMAIN Now(t).desired}
  <2>1. PICK found \in [Domains -> SUBSET BOOLEAN] :
          /\ \A d \in Domains : IF Values(d) = {} THEN found[d] = {}
                               ELSE \E m \in Values(d) : found[d] = {m}
          /\ plan' = [plan EXCEPT ![t] =
               [entries |-> Now(t).desired, found |-> found, removed |-> gone]]
    BY DEF ReadActive
  <2>2. plan'[t] = [entries |-> Now(t).desired, found |-> found, removed |-> gone]
    BY <2>1 DEF Inv, Typed, TypeOK
  <2>3. \A d \in Domains : found[d] = {} => Values(d) = {}
    <3> HIDE DEF Values
    <3> QED BY <2>1
  <2>4. \A d \in Domains : Values(d) = {} =>
          ~ \E q \in ActiveRows(t) : q.src = "provisioned" /\ q.domain = d
    OBVIOUS
  <2> HIDE DEF gone, Values
  <2> QED BY <2>2, <2>3, <2>4
<1>6. \A d : Wrote(t, d)' = {}
  BY <1>2, <1>3 DEF Reconciles, WritesAlone, HasRead, Wrote, IsProvisioned
<1>7. ASSUME NEW d \in Domains, found[d] = {}
      PROVE  Cleared(t, d)'
  <2> SUFFICES ASSUME NEW r \in rows, IsProvisioned(r, d), r.by \in Committed
               PROVE  IsEnded(r, t)
    BY <1>3, <1>4 DEF Cleared, WasThere, IsEnded, SeesAs
  <2>1. ~ \E q \in ActiveRows(t) : q.src = "provisioned" /\ q.domain = d
    BY <1>5, <1>7
  <2> QED BY <2>1 DEF IsProvisioned, ActiveRows, SeesAs
<1>8. ReadsOnce(t)'
  BY <1>1, <1>2, <1>3 DEF Reconciles, ReadsOnce
<1>13. HasRead(t)'
  BY <1>2, <1>3, <1>4 DEF HasRead, SourceFound
<1>9. PlansOnce(t)'
  <2>1. \A e \in Entries(t)' : e.domain \in Domains
    <3>1. Now(t).desired \in Seq(ProvisionedEntry)
      BY <1>1, NowType DEF Inv, Typed
    <3>2. \A i \in DOMAIN Now(t).desired : Now(t).desired[i] \in ProvisionedEntry
      BY <3>1
    <3>3. \A e \in ProvisionedEntry : e.domain \in Domains
      BY DEF ProvisionedEntry
    <3> QED BY <1>5, <3>2, <3>3 DEF Entries
  <2> QED BY <1>2, <1>4, <1>5, <1>6, <1>7, <1>13, <2>1 DEF PlansOnce, Entries, KeyedLists
<1>10. ClearsFirst(t)'
  <2>1. \A i \in DOMAIN prog[t] : prog[t][i].op # "insert"
    BY <1>1, <1>2 DEF Now, Ensure
  <2> QED BY <1>3, <2>1 DEF ClearsFirst, Provisions
<1>11. SeenBefore(t)'
  BY <1>1, <1>3, <1>4 DEF SeenBefore, Open
<1>12. WritesAlone(t)'
  BY <1>3, <1>6 DEF WritesAlone, Wrote, IsProvisioned
<1>14. LogsAfter(t)' /\ LogsWhatItRead(t)'
  BY <1>13 DEF LogsAfter, LogsWhatItRead
<1>15. EmptiesOnce(t)'
  <2>1. task[t] = "reconcile" /\ task' = task
    <3>1. Held(t)
      BY <1>1 DEF Inv, Holding
    <3> QED BY <1>1, <1>3, <3>1, ProgramReads DEF Held, InParts, Now, Done
  <2> QED BY <2>1 DEF EmptiesOnce
<1> QED BY <1>8, <1>9, <1>10, <1>11, <1>12, <1>14, <1>15 DEF Reconciles

(* What is written for an entry is one row, after the old ones are ended   *)
(* if there were any.                                                      *)
LEMMA EntryProvisions ==
  ASSUME NEW e \in ProvisionedEntry, NEW found \in SUBSET BOOLEAN,
         NEW i \in DOMAIN ReconcileEntry(e, found)
  PROVE  LET steps == ReconcileEntry(e, found) IN
         /\ steps[i].op # "read"
         /\ steps[i].op = "insert" =>
              /\ steps[i].domain = e.domain
              /\ \A j \in DOMAIN steps : steps[j].op = "insert" => j = i
              /\ found # {} => steps[1] = ExpireProvisioned(e.domain)
<1>1. CASE found = {e.match}
  BY <1>1 DEF ReconcileEntry
<1> DEFINE steps == ReconcileEntry(e, found)
           expire == ExpireProvisioned(e.domain)
           overrule == End({e.domain}, Overruled)
           upsert == Upsert(e.domain)
           insert == Insert(e.domain, "provisioned", e.match)
           log == Log(e.domain, "provisioned", e.match)
<1>4. i \in DOMAIN steps
  OBVIOUS
<1>5. /\ expire.op = "end" /\ overrule.op = "end" /\ upsert.op = "upsert"
      /\ insert.op = "insert" /\ insert.domain = e.domain /\ log.op = "upsert"
  BY DEF ExpireProvisioned, End, Upsert, Log, Insert
<1>2. CASE found # {e.match} /\ found = {}
  <2>1. steps = <<overrule, upsert, insert, log>>
    BY <1>2 DEF ReconcileEntry
  <2> HIDE DEF steps, expire, overrule, upsert, insert, log
  <2>2. steps[i].op # "read" /\ (steps[i].op = "insert" => i = 3 /\ steps[i] = insert)
    BY <1>4, <1>5, <2>1
  <2>3. \A j \in DOMAIN steps : steps[j].op = "insert" => j = 3
    BY <1>5, <2>1
  <2> QED BY <1>2, <1>5, <2>2, <2>3 DEF steps
<1>3. CASE found # {e.match} /\ found # {}
  <2>1. steps = <<expire, overrule, upsert, insert, log>>
    BY <1>3 DEF ReconcileEntry
  <2> HIDE DEF steps, expire, overrule, upsert, insert, log
  <2>2. /\ steps[i].op # "read" /\ (steps[i].op = "insert" => i = 4 /\ steps[i] = insert)
        /\ steps[1] = expire
    BY <1>4, <1>5, <2>1
  <2>3. \A j \in DOMAIN steps : steps[j].op = "insert" => j = 4
    BY <1>5, <2>1
  <2> QED BY <1>5, <2>2, <2>3 DEF steps, expire
<1> QED BY <1>1, <1>2, <1>3

(* A part of a reconcile begins. *)
LEMMA PartReconciles ==
  ASSUME Inv, NEW t \in Txs, Reconciles(t), NEW steps, RunPart(t, steps), IsThrough(t),
         task[t] = "reconcile",
         plan'[t].found = plan[t].found, Entries(t)' \subseteq Entries(t),
         \A i, j \in DOMAIN plan'[t].entries :
           plan'[t].entries[i].domain = plan'[t].entries[j].domain => i = j,
         \A i \in DOMAIN steps :
           /\ steps[i].op # "read"
           /\ steps[i].op = "upsert" => HasRead(t) \/ steps[i].log = {},
         \A i \in DOMAIN steps : steps[i].op = "insert" =>
           /\ \E e \in Entries(t) \ Entries(t)' :
                /\ steps[i].domain = e.domain /\ e.domain \in Domains
                /\ e.domain \notin {f.domain : f \in Entries(t)'}
                /\ plan[t].found[e.domain] # {} => steps[1] = ExpireProvisioned(e.domain)
           /\ \A j \in DOMAIN steps : steps[j].op = "insert" => j = i
  PROVE  Reconciles(t)'
<1>1. /\ prog'[t] = steps /\ at'[t] = 1 /\ phase'[t] = "begin"
      /\ status' = status /\ task' = task /\ UNCHANGED data /\ t \in Open
  BY DEF RunPart, IsThrough, Inv, Typed, TypeOK
<1>2. /\ Committed' = Committed /\ Open' = Open /\ ensured' = ensured /\ rows' = rows
      /\ ended' = ended /\ events' = events /\ seen' = seen
  BY <1>1 DEF Committed, Open, data
<1>3. \A d : /\ WasThere(t, d)' = WasThere(t, d) /\ Wrote(t, d)' = Wrote(t, d)
             /\ Cleared(t, d)' <=> Cleared(t, d)
  BY <1>2 DEF WasThere, Wrote, Cleared, IsEnded, SeesAs
<1>4. HasRead(t)' <=> HasRead(t)
  BY <1>2 DEF HasRead, SourceFound
<1>5. PlansOnce(t)'
  BY <1>1, <1>2, <1>3, <1>4 DEF Reconciles, PlansOnce
<1>6. ClearsFirst(t)'
  <2> SUFFICES ASSUME NEW i \in DOMAIN steps, steps[i].op = "insert",
                      NEW d, d = steps[i].domain
               PROVE  /\ HasRead(t) /\ d \notin {e.domain : e \in Entries(t)'}
                      /\ Wrote(t, d) = {}
                      /\ \A j \in DOMAIN steps : steps[j].op = "insert" => j = i
                      /\ Cleared(t, d) \/ Clearing(t, d)'
    BY <1>1, <1>2, <1>3, <1>4 DEF ClearsFirst, Provisions
  <2>1. PICK e \in Entries(t) :
          /\ d = e.domain /\ d \in Domains
          /\ d \notin {f.domain : f \in Entries(t)'}
          /\ plan[t].found[d] # {} => steps[1] = ExpireProvisioned(d)
    OBVIOUS
  <2>2. PlansOnce(t)
    BY <1>1 DEF Reconciles
  <2>3. steps[1] = ExpireProvisioned(d) => Clearing(t, d)'
    BY <1>1 DEF Clearing, ExpireProvisioned, End
  <2> QED BY <2>1, <2>2, <2>3 DEF PlansOnce
<1>7. SeenBefore(t)'
  BY <1>1, <1>2 DEF Reconciles, SeenBefore
<1>8. WritesAlone(t)' /\ LogsAfter(t)'
  BY <1>2, <1>3, <1>4 DEF Reconciles, WritesAlone, LogsAfter
<1>9. ReadsOnce(t)' /\ EmptiesOnce(t)'
  BY <1>1 DEF ReadsOnce, EmptiesOnce
<1>10. LogsWhatItRead(t)'
  BY <1>1, <1>4 DEF LogsWhatItRead
<1> QED BY <1>5, <1>6, <1>7, <1>8, <1>9, <1>10 DEF Reconciles

LEMMA NextEntryReconciles ==
  ASSUME Inv, NEW t \in Txs, Reconciles(t), NextEntry(t)
  PROVE  Reconciles(t)'
<1> DEFINE entries == plan[t].entries
           e == Head(entries)
           steps == ReconcileEntry(e, plan[t].found[e.domain])
<1>1. /\ IsThrough(t) /\ entries # <<>> /\ plan[t] \in Plan /\ entries \in Seq(ProvisionedEntry)
      /\ RunPart(t, steps)
  BY DEF NextEntry, Plan, Inv, Typed, TypeOK
<1>2. plan'[t].entries = Tail(entries) /\ plan'[t].found = plan[t].found
  BY DEF NextEntry, Plan, Inv, Typed, TypeOK
<1>3. e \in ProvisionedEntry /\ plan[t].found[e.domain] \in SUBSET BOOLEAN
  <2>1. e \in ProvisionedEntry
    BY <1>1
  <2> QED BY <1>1, <2>1 DEF Plan, ProvisionedEntry
<1>4. \A i, j \in DOMAIN entries : entries[i].domain = entries[j].domain => i = j
  BY <1>1 DEF Reconciles, PlansOnce, IsThrough
<1>5. /\ 1 \in DOMAIN entries /\ e = entries[1]
      /\ \A i \in DOMAIN Tail(entries) :
           i \in Nat \ {0} /\ i + 1 \in DOMAIN entries /\ Tail(entries)[i] = entries[i + 1]
  BY <1>1
<1> HIDE DEF entries, e, steps
<1>6. \A i, j \in DOMAIN Tail(entries) : Tail(entries)[i].domain = Tail(entries)[j].domain => i = j
  BY <1>4, <1>5
<1>7. /\ e \in Entries(t) /\ Entries(t)' \subseteq Entries(t)
      /\ e.domain \notin {f.domain : f \in Entries(t)'}
  <2>1. Entries(t)' = {Tail(entries)[i] : i \in DOMAIN Tail(entries)}
    BY <1>2 DEF Entries
  <2>2. Entries(t) = {entries[i] : i \in DOMAIN entries}
    BY DEF Entries, entries
  <2>3. \A f \in Entries(t)' : \E i \in DOMAIN entries : i # 1 /\ f = entries[i]
    <3>1. \A i \in Nat \ {0} : i + 1 # 1
      OBVIOUS
    <3> QED BY <1>5, <2>1, <3>1
  <2> QED BY <1>4, <1>5, <2>2, <2>3
<1>8. HasRead(t) /\ \A i \in DOMAIN steps : steps[i].op # "read"
  BY <1>1, <1>3, <1>7, EntryProvisions DEF steps, Reconciles, PlansOnce, IsThrough
<1>9. \A i \in DOMAIN steps : steps[i].op = "insert" =>
        /\ steps[i].domain = e.domain
        /\ \A j \in DOMAIN steps : steps[j].op = "insert" => j = i
        /\ plan[t].found[e.domain] # {} => steps[1] = ExpireProvisioned(e.domain)
  BY <1>3, EntryProvisions DEF steps
<1>10. e.domain \in Domains /\ e \notin Entries(t)'
  BY <1>3, <1>7 DEF ProvisionedEntry
<1>11. task[t] = "reconcile"
  BY <1>1 DEF entries, NoPlan, IsThrough, Inv, Holding, Held
<1> QED BY <1>1, <1>2, <1>6, <1>7, <1>8, <1>9, <1>10, <1>11, PartReconciles

LEMMA NextRemovedReconciles ==
  ASSUME Inv, NEW t \in Txs, Reconciles(t), NextRemoved(t)
  PROVE  Reconciles(t)'
<1>1. PICK d \in plan[t].removed :
        /\ RunPart(t, <<ExpireProvisioned(d), Upsert(d)>>)
        /\ plan' = [plan EXCEPT ![t].removed = @ \ {d}]
  BY DEF NextRemoved
<1>2. plan'[t].entries = plan[t].entries /\ plan'[t].found = plan[t].found /\ IsThrough(t)
  BY <1>1 DEF NextRemoved, Plan, Inv, Typed, TypeOK
<1>3. Entries(t)' = Entries(t)
  BY <1>2 DEF Entries
<1>4. \A i, j \in DOMAIN plan[t].entries :
        plan[t].entries[i].domain = plan[t].entries[j].domain => i = j
  BY <1>2 DEF Reconciles, PlansOnce, IsThrough
<1>5. \A i \in DOMAIN <<ExpireProvisioned(d), Upsert(d)>> :
        LET step == <<ExpireProvisioned(d), Upsert(d)>>[i] IN
        step.op = "end" \/ (step.op = "upsert" /\ step.log = {})
  <2>1. ExpireProvisioned(d).op = "end" /\ Upsert(d).op = "upsert" /\ Upsert(d).log = {}
    BY DEF ExpireProvisioned, End, Upsert
  <2> QED BY <2>1
<1>6. task[t] = "reconcile"
  BY <1>1, <1>2 DEF NoPlan, IsThrough, Inv, Holding, Held
<1> QED BY <1>1, <1>2, <1>3, <1>4, <1>5, <1>6, PartReconciles

(* A rebuild has its statements: it deletes everything, and then writes at *)
(* most one row for a domain.  What it found the source in was logged by a *)
(* transaction that is committed, and so is the source.                    *)
LEMMA ReadLogReconciles ==
  ASSUME Inv, ReconcileInv, NEW t \in Txs, ReadLog(t)
  PROVE  Reconciles(t)'
<1>0. PICK order \in Batches : \E latest \in [Range(order) -> events] :
        /\ \A d \in Range(order) : latest[d] \in Latest(t, d)
        /\ RunPart(t, RowsOf(order, latest))
  BY DEF ReadLog
<1>1. PICK latest \in [Range(order) -> events] :
        /\ \A d \in Range(order) : latest[d] \in Latest(t, d)
        /\ RunPart(t, RowsOf(order, latest))
  BY <1>0
<1> DEFINE steps == RowsOf(order, latest)
<1>2. /\ t \in Open /\ Held(t) /\ phase[t] = "begin" /\ at[t] \in DOMAIN prog[t]
      /\ prog[t][at[t]].op = "readlog" /\ plan' = plan /\ Reconciles(t)
  BY DEF ReadLog, IsNext, Now, Inv, Holding, ReconcileInv
<1>3. task[t] = "rebuild" /\ plan[t] = NoPlan
  BY <1>2, ProgramReads DEF Held, InParts
<1>4. at[t] = 1 /\ seen[t] = {} /\ ~ HasRead(t)
  BY <1>2, <1>3 DEF Reconciles, EmptiesOnce, HasRead
<1>5. order \in Seq(Domains) /\ IsInjective(order)
  BY ReadCommittedAssumption
<1>6. /\ prog'[t] = steps /\ at'[t] = 1 /\ phase'[t] = "begin" /\ task' = task
      /\ status' = status /\ UNCHANGED data
  BY <1>1, <1>2 DEF RunPart, Inv, Typed, TypeOK
<1> HIDE DEF steps
<1>7. /\ Committed' = Committed /\ Open' = Open /\ ensured' = ensured /\ rows' = rows
      /\ ended' = ended /\ events' = events /\ seen' = seen
  BY <1>6 DEF Committed, Open, data
<1>8. /\ \A d : Wrote(t, d)' = Wrote(t, d)
      /\ HasRead(t)' <=> HasRead(t)
      /\ SourceFound(t, Committed)' <=> SourceFound(t, Committed)
  BY <1>7 DEF Wrote, HasRead, SourceFound
<1>9. ASSUME NEW i \in DOMAIN steps
      PROVE  /\ steps[i].op \in {"end", "upsert", "insert"}
             /\ steps[i].op = "end" => i = 1
             /\ i = 1 => steps[i] = End(Domains, Sources)
             /\ steps[i].op = "insert" =>
                  /\ i \in Nat /\ i % 2 = 1 /\ i \div 2 \in DOMAIN order
                  /\ steps[i].domain = order[i \div 2]
                  /\ steps[i].src = latest[order[i \div 2]].src
             /\ steps[i].op = "upsert" => steps[i].log = {}
  <2>1. i \in 1..1 + 2 * Len(order)
    BY DEF steps, RowsOf
  <2>2. steps[i].op = "upsert" => steps[i].log = {}
    BY <2>1 DEF steps, RowsOf, End, Upsert, Insert
  <2> QED BY <1>5, <2>1, <2>2, RowsSteps DEF steps, Insert
<1>10. ASSUME NEW i \in DOMAIN steps, Provisions(t, i)', NEW d, d = steps[i].domain
       PROVE  /\ SourceFound(t, Committed) /\ d \in Domains
              /\ \A j \in DOMAIN steps : Provisions(t, j)' /\ steps[j].domain = d => j = i
              /\ 1 \in DOMAIN steps
  <2>1. /\ steps[i].op = "insert" /\ steps[i].src = "provisioned"
        /\ i \div 2 \in DOMAIN order /\ d = order[i \div 2] /\ d \in Domains
        /\ steps[i].src = latest[d].src /\ i \in Nat /\ i % 2 = 1
    BY <1>5, <1>6, <1>9, <1>10 DEF Provisions
  <2>2. latest[d] \in Latest(t, d) /\ latest[d].src = "provisioned"
    BY <1>1, <2>1 DEF Range
  <2>3. latest[d] \in events /\ latest[d].by \in Committed \union {t}
    BY <2>2 DEF Latest, SeesAs
  <2>4. latest[d].by \in Txs
    BY <2>2, <2>3 DEF ReconcileInv
  <2>5. HasRead(latest[d].by) /\ SeenBefore(latest[d].by)
    BY <2>2, <2>3, <2>4 DEF ReconcileInv, Reconciles, LogsAfter
  <2>6. latest[d].by \in Committed
    BY <1>4, <2>3, <2>5
  <2>7. SourceFound(t, Committed)
    BY <2>5, <2>6 DEF HasRead, SourceFound, SeenBefore
  <2>8. ASSUME NEW j \in DOMAIN steps, Provisions(t, j)', steps[j].domain = d
        PROVE  j = i
    <3>1. /\ j \div 2 \in DOMAIN order /\ d = order[j \div 2] /\ j \in Nat /\ j % 2 = 1
      BY <1>6, <1>9, <2>8 DEF Provisions
    <3>2. i \div 2 = j \div 2
      BY <1>5, <2>1, <3>1 DEF IsInjective
    <3>3. i = 2 * (i \div 2) + 1 /\ j = 2 * (j \div 2) + 1
      BY <2>1, <3>1
    <3> QED BY <3>2, <3>3
  <2>9. 1 \in DOMAIN steps
    BY <1>5 DEF steps, RowsOf
  <2> QED BY <2>1, <2>7, <2>8, <2>9
<1>11. ClearsFirst(t)'
  <2> SUFFICES ASSUME NEW i \in DOMAIN steps, Provisions(t, i)', NEW d, d = steps[i].domain
               PROVE  /\ Entries(t)' = {} /\ Wrote(t, d) = {}
                      /\ \A j \in DOMAIN steps : Provisions(t, j)' /\ steps[j].domain = d => j = i
                      /\ ToEmpty(t)' /\ SourceFound(t, Committed) /\ Clearing(t, d)'
    BY <1>6, <1>8 DEF ClearsFirst
  <2>1. Entries(t)' = {}
    BY <1>2, <1>3 DEF Entries, NoPlan
  <2>2. Wrote(t, d) = {}
    BY <1>2, <1>4 DEF Reconciles, WritesAlone, Wrote, IsProvisioned
  <2>3. steps[1] = End(Domains, Sources) /\ d \in Domains
    BY <1>9, <1>10
  <2>4. Clearing(t, d)' /\ ToEmpty(t)'
    BY <1>3, <1>6, <2>3 DEF Clearing, ToEmpty, End, Sources
  <2> QED BY <1>10, <2>1, <2>2, <2>4
<1>12. ReadsOnce(t)' /\ EmptiesOnce(t)' /\ LogsWhatItRead(t)'
  BY <1>3, <1>4, <1>6, <1>7, <1>9 DEF ReadsOnce, EmptiesOnce, LogsWhatItRead
<1>13. PlansOnce(t)'
  BY <1>2, <1>3 DEF PlansOnce, Entries, NoPlan
<1>14. SeenBefore(t)' /\ WritesAlone(t)' /\ LogsAfter(t)'
  BY <1>2, <1>4, <1>6, <1>7 DEF Reconciles, SeenBefore, WritesAlone, LogsAfter
<1> QED BY <1>11, <1>12, <1>13, <1>14 DEF Reconciles

LEMMA ReconcileInit == Init => ReconcileInv
<1> SUFFICES ASSUME Init PROVE ReconcileInv
  OBVIOUS
<1>1. \A t \in Txs : t \notin Open /\ seen[t] = {}
  BY DEF Init, Open
<1>2. \A r \in rows \union events : r.src # "provisioned"
  BY DEF Init
<1> QED BY <1>1, <1>2 DEF ReconcileInv, Reconciles, SeenBefore, WritesAlone, LogsAfter

LEMMA ReconcileStep ==
  ASSUME KeyedLists, Inv, ReconcileInv, [Next]_vars
  PROVE  ReconcileInv'
<1>1. CASE UNCHANGED vars
  <2>1. /\ status' = status /\ prog' = prog /\ at' = at /\ phase' = phase /\ plan' = plan
        /\ mine' = mine /\ seen' = seen /\ ensured' = ensured /\ ended' = ended /\ rows' = rows
        /\ task' = task /\ events' = events
    BY <1>1 DEF vars, control, data
  <2>2. \A u \in Txs : Undisturbed(u)
    BY <2>1 DEF Undisturbed, Committed
  <2> QED BY <2>1, <2>2, FactsKept DEF ReconcileInv
<1>2. ASSUME NEW t \in Txs, Begin(t) \/ Step(t) \/ Commit(t) \/ Rollback(t)
      PROVE  ReconcileInv'
  <2>1. Reconciles(t)'
    BY <1>2, BeginReconciles, CommitReconciles, RollbackReconciles, TakingReconciles,
       EmptyingReconciles, EndingReconciles, InsertReconciles, ReadReconciles,
       NextEntryReconciles, NextRemovedReconciles, ReadLogReconciles
       DEF ReconcileInv, Step
  <2>2. \A u \in Txs \ {t} : Reconciles(u)'
    BY <1>2, OthersUndisturbed, FactsKept DEF ReconcileInv
  <2>3. \A r \in (rows \union events)' : r \in rows \union events \/ r.by = t
    BY <1>2 DEF Begin, Step, Commit, Rollback, EnsureRow, GetRow, UpsertDomain, InsertRow,
                BeginEnd, EndRow, EndDone, ReadActive, NextEntry, NextRemoved, ReadLog, RunPart, data
  <2> QED BY <2>1, <2>2, <2>3 DEF ReconcileInv
<1> QED BY <1>1, <1>2 DEF Next

(* Of two rows that are both active, the writer of neither saw the other's *)
(* when it read or emptied the table, and so neither of them made the      *)
(* source row that each of them had found.                                 *)
LEMMA OnlyOverlapping ==
  ASSUME Inv, ReconcileInv
  PROVE  DuplicatesOverlap
<1> SUFFICES ASSUME NEW r \in rows, NEW s \in rows, r # s, r.domain = s.domain,
                    r.src = "provisioned", s.src = "provisioned",
                    r.by \in Committed, s.by \in Committed,
                    ~ IsEnded(r, Past), ~ IsEnded(s, Past)
             PROVE  /\ r.by \notin seen[s.by]
                    /\ [key |-> "provisioned", by |-> r.by] \notin ensured
  BY DEF DuplicatesOverlap
<1>1. r.by \in Txs /\ s.by \in Txs
  BY DEF ReconcileInv
<1>2. Wrote(s.by, s.domain) = {s} /\ Cleared(s.by, s.domain) /\ HasRead(s.by)
  BY <1>1 DEF ReconcileInv, Reconciles, WritesAlone
<1>3. r.by # s.by
  BY <1>2 DEF Wrote, IsProvisioned
<1>4. r.by \notin seen[s.by]
  <2> SUFFICES ASSUME r.by \in seen[s.by] PROVE FALSE
    OBVIOUS
  <2>1. IsEnded(r, s.by)
    BY <1>2 DEF Cleared, WasThere, IsProvisioned
  <2> QED BY <2>1 DEF IsEnded, SeesAs
<1>5. PICK e \in ensured : e.key = "provisioned" /\ e.by \in seen[s.by] \union {s.by}
  BY <1>2 DEF HasRead, SourceFound
<1>6. ASSUME [key |-> "provisioned", by |-> r.by] \in ensured
      PROVE  FALSE
  <2>1. e.by = r.by
    BY <1>5, <1>6 DEF Inv, Keyed, OneRowPerKey
  <2> QED BY <1>3, <1>4, <1>5, <2>1
<1> QED BY <1>4, <1>6

(* Two provisioned rows of one domain are active at once only if the       *)
(* transactions that wrote them ran at the same time, and neither was the  *)
(* first reconcile of all (reconcile_provisioned_classifications, whose    *)
(* lists name a domain once, and rebuild_projections_from_events, which    *)
(* writes the rows anew that it found in the log, with any transactions    *)
(* of either and of the others side by side).                              *)
THEOREM DuplicatesOnlyOverlapping ==
  ASSUME KeyedLists
  PROVE  Spec => []DuplicatesOverlap
<1>1. Init => Inv /\ ReconcileInv
  BY TypedInit, KeyedInit, HoldingInit, ReconcileInit DEF Inv
<1>2. Inv /\ ReconcileInv /\ [Next]_vars => (Inv /\ ReconcileInv)'
  BY InvStep, ReconcileStep
<1>3. Inv /\ ReconcileInv => DuplicatesOverlap
  BY OnlyOverlapping
<1> QED BY <1>1, <1>2, <1>3, PTL DEF Spec
=============================================================================
