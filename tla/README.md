# A TLA+ model of dns-smart-block

dns-smart-block watches the queries of a DNS server, lets an LLM classify each
domain, and serves blocklists made of what it was told. This directory models
the part that decides and remembers: the queue processor, the admin API, the
PostgreSQL tables and the JetStream consumer they share, the log processor that
feeds it, and the transactions inside PostgreSQL. TLC checks the model on
small instances and TLAPS proves all but one of its safety properties for every
instance.

    cd tla
    tlc -workers 2 -config QueueProcessor_retry.cfg MCQueueProcessor.tla
    tlc -workers 2 -config System_admin.cfg MCSystem.tla
    tlc -workers 2 -config Feedback.cfg MCFeedback.tla
    tlc -workers 2 -config ReadCommitted.cfg MCReadCommitted.tla
    tlapm QueueProcessorProofs.tla
    tlapm SystemProofs.tla

## The system

| component | state it keeps | operations that change it |
|---|---|---|
| storage, `common/src/db` | tables `domains`, `domain_classification_events` (the log), `domain_classifications` (the projection), `provisioned_pattern_rules`, `classification_sources`, `prompts` | one function per transaction in `models.rs` and `operations.rs` |
| queue processor, `queue-processor/src/main.rs` | the message in hand, the states it read, the compiled pattern rules | fetch, process_domain, ack |
| admin API, `blocklist-server/src/server.rs` | none between requests; within one, what it read | classify, expire, reconcile, requeue (three), reprojection |
| public API, same file | none | none: the blocklist is a query |
| JetStream stream and durable consumer | messages, who has which, what is acknowledged | publish, deliver, AckWait, ack |
| log processor | the lines of its source it has yet to read; nothing that outlives it | reads a log file or the output of a command, publishes a domain and perhaps its address per accepted line; ends with its stream and is restarted |
| classifier subprocess, `classifier/src` | none beyond one run; two pipes to the queue processor | fetches a page, asks Ollama, prints a verdict |
| CLI, admin UI, metrics, NixOS module | none that decisions rest on | the CLI is a client of the admin API; the module restarts services |

How they meet. The log processor and the requeue handlers publish domains on a
NATS subject that a JetStream stream captures. The log that the log processor
reads is written by the DNS server, which the classifier may ask for the pages it
fetches: the services are a loop. Queue processors share one
durable pull consumer. For a domain a processor reads the state of every
classification type from the projection and the log in one query, then takes one
of three paths: a pattern rule, an excluded suffix, or the classifiers, unless a
row of type "all" overrides them. Everything it learns goes to the log first and
then, in another transaction, to the projection. Administrators write to the same
tables at any moment. The blocklist of a type is a query over the valid rows of
the projection: blocked if *any* valid row of the type says match, or if there is
none and an "all" row says so.

What makes it hard:

- a classifier runs for minutes between the reads a processor decided on and its
  writes; admin requests, reconciles, rebuilds and other processors fit between;
- log and projection are written in two transactions, and a database call can
  fail or the process can die between any two;
- the message is acknowledged after all the work, so AckWait can run out and the
  work be done twice; and it is acknowledged whatever happened;
- reconciling patterns is a sequence of transactions without a transaction;
- five sources of rows (LLM, admin, excluded suffix, provisioned, pattern)
  share the table, each displacing only some of the others;
- two transactions may run at once under READ COMMITTED: they wait for each
  other's rows, and each statement sees what was committed when it began;
- the log processor's source may end, complain or give bytes that are not text,
  and what the classifier asks the DNS server comes back as a new domain;
- rows end by TTL, by an expiry, by a reconcile and by a rebuild from the log.

What makes each part correct:

- *log processor and loop*: it goes back to watching, a file's lines are queued,
  and without clients the queue drains;
- *transactions*: get-or-create finds one row, verdicts are not lost to deadlocks,
  contradictory provisioned rows come only from reconciles and rebuilds that overlap;
- *storage*: every domain of the log or the projection is in `domains`; every row
  is explained by the log; the blocklist rests on recorded evidence;
- *queue processor*: no contradictory LLM rows, an outcome on record for every
  type before the ack, every message settles;
- *consumer*: one domain at a time with `max_ack_pending` 1; with the processors,
  an at-least-once work queue;
- *classifier run*: the verdict returned is the one made and printed, and the run
  ends unless the LLM never answers;
- *admin API*: what a file declares ends up in force and applied, provisioned rows are
  unique, admin decisions survive, expiry lasts, an error is listed until something
  takes its place or its domain is tried again, the past of a blocklist does not
  change.

`PROJECT.json` lists all components with what is left out, and every hazard with
its line in the source and the properties that cover it.

## The modules

| module | models | by |
|---|---|---|
| `Database` | `common/src/db`, `migrations` | the tables as sets of records, the queries as operators, one action per write transaction; the properties of the tables |
| `JetStream` | the consumer (external) | `Send`, `Deliver`, `AckWaitExpires`, `Acknowledge` |
| `Bounds` | nothing in the code | how often each kind of fault or request may happen: `Limits` is a set of mixes, and a behaviour stays within one of them |
| `QueueProcessor` | `queue-processor/src/main.rs` | EXTENDS the three; one action per database call or subprocess outcome of each processor |
| `AdminServer` | the handlers of `server.rs` and the operations they run | EXTENDS the first three; one action per transaction of each handler |
| `System` | both services on one database and one stream | interleaves the two next-state relations |
| `ClassifierRun` | `run_classifier` and the subprocess of `classifier/src` | the child's steps, two bounded pipes, the runner's two readers |
| `WorkQueue` | nothing line by line | the abstract promise of stream and processors; `QueueProcessor!WQ` is the refinement mapping |
| `LogProcessor` | `log-processor/src` | one action per line, failure and end of the stream |
| `Feedback` | what closes the loop: the DNS server's log, the stream, `fetch_domain`'s queries | EXTENDS `LogProcessor`; one worker that takes, fetches, follows redirects and answers |
| `ReadCommitted` | the transactions of `common/src/db` | each a sequence of statements; one action per statement or part of one that may wait |
| `MCQueueProcessor`, `MCSystem`, `MCFeedback`, `MCReadCommitted` | | instances for TLC: limits, requests, symmetry |
| `DatabaseProofs`, `QueueProcessorProofs`, `SerialProofs`, `WorkQueueProofs`, `SystemProofs`, `ClassifierRunProofs`, `ReadCommittedProofs`, `FeedbackProofs` | | proofs |

### State

`Database`: `today` is the clock in days, the unit of TTLs. `txid` counts the
transactions and stands for `created_at`: every "latest" query in the code orders
by it. `events` and `rows` are sets of records with the columns decisions depend
on. A verdict is a match flag, a confidence band and a source; the bands are
`low` (below `min_confidence`), `enough`, and `out` (above 1, which `run_classifier`
lets through and the CHECK on the table refuses). A rule holds the set of domains
its regex covers; a regex that does not compile covers none.

`QueueProcessor`: `pc[p]` is the place in the loop, `current[p]` the message,
`todo[p]` the types that were not Current when the states were read (the code
skips Current types on each path, so they are dropped at once), `matched[p]` the
rule found, `job[p]` the running classifier, `compiled[p]` the rules read at start.

| action | code in `queue-processor/src/main.rs` |
|---|---|
| `Start` | connect, load and compile the pattern rules, 603-661 |
| `Fetch`, `Receive` | the pull stream and `messages.next()`, 631-675; malformed payloads, 709-716 |
| `ReadStates` | `domain_states` and the choice of the path, 241-281 |
| `ApplyPattern`, `ApplyExclude` | one transaction per type, 252-276 and 281-314 |
| `ReadOverride` | `fetch_all_override` and the skip it causes, 316-364 |
| `PromptUnreadable`, `StartClassifier` | 385-409, 411-434 |
| `ClassifierSucceeds`, `ClassifierFails` | the transaction of the classified event, 435-483; the error event, 520-543 |
| `StoreVerdict`, `StoreRefused` | `classification_store`, 492-504 |
| `DatabaseFails` | any `.await?`: process_domain returns, the message is acknowledged |
| `Ack`, `AckFails` | 704-716 |
| `Crash` | the process dies and loses its state; systemd restarts it |

The order in which the types of one domain are processed follows a query
without ORDER BY, so the model takes any order.

`AdminServer`: `hpc[h]` is the place in a handler and the other variables its
locals. A reconcile is `Reconcile` (one transaction for the exact entries), then
`ReadRules`, per entry `SkipEntry` or `ExpireChangedRule`/`NewEntry`, `CommitRule`,
`ReadDomains` and one `ApplyRule` per domain, and last `ExpireUndeclaredRule`. An
admin pattern takes the same steps from `CommitRule` on. `ReconcileFile` is the first
step for one file. `HandlerAborts` ends a
handler between any two transactions: a call fails, the client hangs up (axum
drops the future) or the server dies. A rebuild is two steps, `RebuildRead` and
`RebuildWrite`, because the code reads before it begins its transaction.

`ClassifierRun` is what `QueueProcessor` leaves open at "running". `child` is the
place in `run_classification`, `attempt` the failed requests for the page, `stdout`
and `stderr` the units in the pipes, `buf` what the runner has read and `atEnd` the
pipes it has finished. A child logs any number of units after each step and blocks
on a full pipe; it can be killed anywhere. Both programs write UTF-8 only, so the
readers' decoding errors do not occur. Its outcomes are those of
`ClassifierSucceeds` and `ClassifierFails`, or none: the bad ones are one "error",
as `process_domain` treats them.

`WorkQueue` has an item `waiting`, `out` or `settled`, and what each worker works
on. Under `WQ` the items are the messages of the stream by their state and
`working` is `current`; every action of a processor that is not about its message
is a stutter. A worker may begin an item that was taken back or settled meanwhile:
the client library may hold a message that JetStream has given up on.

`LogProcessor`: `lp` is the process, `command` the command it started, `file` the
lines of a log file, `unread` the lines the running process has before it (in a
file or a pipe) and `queue` the messages in the stream. A line is a name and what
the regular expressions find in it.

| action | code in `log-processor/src` |
|---|---|
| `Start` | `main.rs` 40-77: parser, publisher and source; a file is opened at its beginning |
| `ReadLine` | the loop, `main.rs` 79-107, with `parse_log_line` |
| `PublishFails` | `main.rs` 94-99: logged, and the line is gone |
| `StreamEnds` | `log_source.rs` 38-52, 84-98: end of the input or an undecodable line, after which `main` returns |
| `CommandEnds` | the command exits, or writes to the stderr nobody holds the other end of |
| `Exit` | systemd stops what is left of the unit and starts it again after 5 s |

`Feedback` adds `worker`, the place of the one queue processor and its classifier,
its message, the `host` that its fetch has come to by how many `hops`, and `state`,
the `DomainState` of each name. `Resolve` is a query to the DNS server, which logs it
unless a cache before it answers. `Connect` makes one for any host but the
message's own domain, and for that one when the message has no address;
`FetchDomain` connects to the domain, `FollowRedirect` to the next host, at most
`MaxRedirects` times (10 in the code), and `FetchEnds` comes with a page or a failure.
The tables are reduced to the state of each domain here, and a copy of a message
that is in the queue already is left out: what the loop does is a matter of which
messages there are, and a further copy finds what the first one left.

`ReadCommitted`: each transaction in `Txs` runs one of `Programs`, a sequence of
statements in the order of the source: `ensure` (an INSERT that waits on the unique
index, then a SELECT), `upsert` of a domains row, `insert` of a row, `end` (an UPDATE
or DELETE: the rows it saw first, taken one by one in any order), `read` and
`readlog`. A reconcile runs the statements of one entry after the other, as its loop
does. A rebuild reads the "classified" events (`events`), deletes what it sees, and
inserts each row with the source and the value of its event, so a provisioned row
is one again. Only the order of the log is left open: an event has the time at which
its transaction began, so any of those it sees may be the latest of its domain.
What a rebuild inserts counts as active, though its TTL may be over, and it does
not wait for rows that had ended before. `seen` is what had committed when a
reconcile read the active rows or a rebuild began to delete. `holder`, `ensured` and `ended` name the transaction that did something, so that
what is visible to whom (`SeesAs`) and who waits for whom (`Blockers`) can be read
off. Foreign keys add no waiting: they take the weakest row lock, which an update
of other columns does not conflict with.

Three abstractions to know. In all modules but `ReadCommitted` a transaction is one
step; `ReadCommitted` in turn has only what transactions wait for and see, not
what the rest of the system makes of it. The entries of a provisioned file are sets
with one entry per key (in `ReadCommitted` a list). Confidence and reasoning of
provisioned entries are represented by the match flag, the value a changed entry
changes.

## What is checked

`QueueProcessor_retry`, `ClassifierRun` and `Feedback` run under their `FairSpec`;
the others check safety and need no fairness. Deadlock is not checked: with the
faults and requests used up and every message settled the system has nothing left
to do, a run of the classifier ends, and transactions that wait for each other are
what `VerdictsSurvive` is about.

| run | instance | shows |
|---|---|---|
| `QueueProcessor_retry` | 1 processor, 2 classifiers, 1 message, possibly malformed; 1 crash, 1 late ack | `TypeOK`, `OneValidLlmVerdict`, `AckedIsSettled`, `MessagesSettle` |
| `QueueProcessor_shared` | 2 processors, 2 messages, an ordinary, an excluded and a pattern-covered domain, `max_ack_pending` 1; 1 each of crash, failing call, unreadable prompt, out-of-range confidence, day | `DomainsKnown`, `RowsExplained`, `BlockedOnEvidence`, `SerialProcessing`, `OneValidLlmVerdict`, and the refinement `IsWorkQueue` |
| `System_admin` | 2 domains, 3 files; within either limit: 2 reconciles, verdict, pattern, abort, day; or a reconcile, 2 expiries, verdict, pattern, day | `SystemTypeOK`, `ProvisionedUnique`, `ExpiryHolds`, `AdminPreserved`, `DeclaredRules`, `RetroactiveUnlessCut`, `PastIsFixed` |
| `System_processor` | a processor and two handlers on one domain, 2 messages, 2 files that contradict each other; within one of four limits: a requeue with expiry, verdict, crash and abort; a rebuild beside failing calls, a refused verdict and a pattern; a rebuild, 3 reconciles, an expiry, a verdict and a day; 2 rebuilds, 2 reconciles and the processor | `RowsExplained`, `FailuresFollowedUp`, `ProvisionedUnique`, `DeclaredEntries` |
| `Feedback` | a file of 2 lines, or a command with a pipe of 1, with and without `ip_pattern`; 2 domains that redirect to each other, one that does not redirect, and a name that is no domain; a fetch follows 2 redirects; one query, within one of four limits: a day; a requeue; a crash and a garbled line; a lost publication | `FeedbackTypeOK`, `QueueDrains`, `StaysWatching`, `FileIsRead` |
| `ReadCommitted` | 3 transactions, each any of the programs, on 2 domains; requeues and rebuilds in any order, lists of 0, 1 and 2 entries | `TypeOK`, `OneRowPerKey`, `EnsureFinds`, `VerdictsSurvive`, `DuplicatesOverlap` |
| `ClassifierRun` | pipes of 2 units, an output of 3, up to 3 units of log per step | `TypeOK`, `AnswerIsResult`, `RunEnds` |

The bounds. One domain and one type are enough for most of what goes wrong,
because rows of different domains or types never meet in a query, except through
"all" (present wherever requests name it) and through the patterns (two domains,
patterns that cover one or both). Two classifiers are there where one type's
failure could affect the next, and two processors where they could overlap. Two
reconciles are the least in which one finds what another left and changes it; with a
rebuild among them a third finds what the rebuild made of the two. The
TTL is 1 day and at most one day passes, so a row is seen before and after its
end. Output and log of the classifier exceed a pipe by one unit, the least that
blocks a writer. Three transactions on two domains are enough for a circle of two
with a third that might be drawn in, and for a reconcile that begins after one of
two others; larger circles are what the theorem is for. A file of two lines is the
least in which one comes after a garbled one, and the queries of a fetch still
find room in it; the room in a pipe is regained, so with a command nothing stops a
loop. One query is enough for a loop,
because each fetch makes the next ones. Two hosts are the smallest circle of redirects,
two redirects lead once around it, and a third host is outside of it. `Forever` is 100 days, out of reach of the clock. Symmetry is used for model
values only, in safety runs.

Every property has a mutant in `PROJECT.json`: a definition marked `Bug:` in its
comment and standing before the one it would replace, with which TLC finds the
property violated. No specification uses these definitions (apart from
`ClassifiedEvents`, which is a part of `LatestClassifiedEvents` and, in its place,
the bug of keeping every event).

### Fairness

`FairSpec` assumes weak fairness of what the code does by itself once it can: a
processor is restarted (`Restart = "always"`), its client pulls, its loop and
database calls go on, and the message of a processor that is gone or forgot it is
redelivered (`AckWait`). It does not assume that a classifier ever answers:
`run_classifier` waits without a time limit. `MessagesSettle` therefore says that
each message is acknowledged *or* some classifier runs for ever. Faults are
finitely many by their bounds; they need no fairness.

`ClassifierRun!FairSpec` assumes that the child goes on (its requests for the page
have a time limit and its retries end) and that each reader reads what is there. It
assumes nothing of Ollama, whose client has no time limit; `RunEnds` says the run
returns unless the child waits for it for ever.

`Feedback!FairSpec` assumes that the log processor is restarted (`Restart = "always"`),
that it reads on, and that the worker takes messages and goes on with its fetch. It
assumes nothing of the command, which need not write, nor of the LLM: `QueueDrains`
allows for a worker that waits for an answer for ever. It is about commands: a
file is published again at every restart, and then the queue need not drain. It also
allows for domains that are fetched again and again without a verdict that is
stored, if their own fetches can bring them back: their messages have no address, or
their redirects lead back to them through other hosts. Then nothing in the code stops
the loop. `StaysWatching` needs no assumption that the source lasts.

### Where the code and its text disagree

Five runs are expected to be violated. Each checks a sentence of the repository;
`PROJECT.json` quotes it.

- `QueueProcessor_outofrange`: "Errors are recorded in the database", and one
  classifier's failure does not stop the others. A confidence above 1 does: the
  other types get no event and the message is acknowledged.
- `System_in_flight`: provisioned rules take precedence over LLM results. Not over
  one that was being computed when the rule was reconciled.
- `System_interrupted`: a reconcile is safe to repeat. After an interrupted one
  a rule stays unapplied. `RetroactiveUnlessCut`, which `System_admin` checks, says
  that this needs an interruption: in every state each rule in force has been applied
  to each domain that was there before it, or a handler that is at work has it in
  hand, as long as no request was cut short and no expiry, rebuild or old age ended
  rows.
- `System_changed_pattern`: a changed pattern reclassifies its domains. The old
  value's permanent rows stay valid.
- `System_low_confidence`: `min_confidence` is the threshold to block. A rebuild
  blocks on verdicts below it.

The model shows more of what the text does not say, for which there is no run: a
rebuild also restores verdicts that `/expire` ended, gives permanent rows a TTL
(`LatestClassifiedEvents`, `RowFromEvent`) and deletes the rows of verdicts committed
between its read of the log and its transaction (`RebuildRead`, `RebuildWrite`), for
all that `CONTRIBUTING.org:51-53` says of rebuilding the table at any time; an "all" row committed after
`ReadOverride` does not stop the classifiers (`queries.rs:8-10` says such domains
never reach the LLM); an admin's "no match" does not unblock a domain while a
positive LLM row of the type is valid (`IsBlocked`); the processor applies a
pattern rule to every type (`ApplyPattern`), where the reconcile applies it to its
own (`ApplyRule`). An error of the LLM step can be recorded with the type
`DomainFetchTimeoutError`, `DomainFetchError` or `MetadataSerializationError`, and
an error of the fetch never is (`to_error_type`, `FetchFails`). Overlapping
reconciles, and a rebuild beside a reconcile, may leave two valid provisioned rows of
one key (`DuplicatesOverlap` says when), of which later reconciles see either. A
reconcile that withdraws an entry also withdraws an error of its type from /errors,
by an "expired" event that names the type, and so does a failing database call that
ends a retry after its "classifying" event (`FailuresFollowedUp`). A pattern takes a domain before
its rows, an expiry, a reconcile and a rebuild the other way round: PostgreSQL may
undo one of the two, for instance the pattern in the middle of a retroactive
application, which then stays half applied as in `System_interrupted`. A line of a
log file that is not UTF-8 ends the stream at every restart, so the lines after it
are never queued (`IsReadable`); and every restart publishes the file again from
its start. Without `ip_pattern`, or after a requeue, a domain whose verdicts are
below `min_confidence` can queue itself through its own fetches (`QueueDrains`
names this case), and hosts that redirect to each other can do so even with addresses
(`a` and `b` of the run `Feedback`). The comment of `DomainRequeue`
(`models.rs:644-646`) says its event tells the log processor not to queue the
domain; the log processor never reads the database. A rebuild rewrites the past of
the blocklists, which `README.org` offers to look at (`PastIsFixed` excepts it).
Label gauges of `metrics.rs` are never reset, so a type without valid rows keeps
its last count. The comment at `web_classify.rs:103` gives delays of 500ms, 1s and
2s; three attempts have two delays. `README.org` shows `/reprojection` with a JSON
body; the handler reads the query string, so the body is ignored and the TTL is
10.

## What is proved

Every safety invariant and every action property that a passing run checks, except
`FailuresFollowedUp`, and the refinement of `WorkQueue`. The theorems hold for any sets of processors, handlers,
domains, classifiers, messages, files and transactions and for any bounds, from the
named assumptions in the modules, which TLC evaluates: `ClassifiersAssumption`,
`TtlAssumption`, `InitialRulesAssumption`, `JetStreamAssumption`,
`LimitsAssumption`, `PipesAssumption`, `KindsAssumption`, `PayloadsAssumption`,
`AdminKindsAssumption`, `RequestsAssumption`, `LogProcessorAssumption`,
`RedirectAssumption`, `ReadCommittedAssumption`. All but three give a constant its
type or say that an environment step is counted. `ClassifiersAssumption` also says
that no classifier is called "all" (`Config::validate`) or nothing;
`InitialRulesAssumption` that the rules there before are as the admin API made them;
`RequestsAssumption` that a file names an exact (domain, type) once.

| theorem | states |
|---|---|
| `QueueProcessorProofs!Invariance` | `Spec => []IInv` |
| `QueueProcessorProofs!TypeCorrect` | `Spec => []TypeOK` |
| `QueueProcessorProofs!DomainsAlwaysKnown` | `Spec => []DomainsKnown` |
| `QueueProcessorProofs!RowsAlwaysExplained` | `Spec => []RowsExplained` |
| `QueueProcessorProofs!BlockedOnlyOnEvidence` | `Spec => []BlockedOnEvidence` |
| `SerialProofs!SerialisedByAckPending` | `Spec => []SerialProcessing` |
| `SerialProofs!OneVerdictAtATime` | `Spec => [](OneAtATime => OneValidLlmVerdict)` |
| `SerialProofs!AckedHasOutcomes` | `Spec /\ []Undisturbed => AckedIsSettled` |
| `WorkQueueProofs!WorkQueueImplemented` | `Spec => IsWorkQueue` |
| `SystemProofs!SystemInvariance` | `SystemSpec => []SysInv` |
| `SystemProofs!SystemTypes` | `SystemSpec => []SystemTypeOK` |
| `SystemProofs!SystemRowsExplained` | `SystemSpec => []RowsExplained` |
| `SystemProofs!SystemDomainsKnown` | `SystemSpec => []DomainsKnown` |
| `SystemProofs!PastStaysFixed` | `SystemSpec => PastIsFixed` |
| `SystemProofs!AdminIsPreserved` | `SystemSpec => AdminPreserved` |
| `SystemProofs!ProvisionedIsUnique` | `SystemSpec => []ProvisionedUnique` |
| `SystemProofs!DeclaredInForce` | `SystemSpec => DeclaredEntries` |
| `SystemProofs!ExpiryIsKept` | `SystemSpec => []ExpiryHolds` |
| `SystemProofs!RulesAreRetroactive` | `SystemSpec => []RetroactiveUnlessCut` |
| `SystemProofs!DeclaredInTheEnd` | `ASSUME KeyedInputs PROVE SystemSpec /\ []OneReconcile => DeclaredRules` |
| `ReadCommittedProofs!TypeCorrect` | `Spec => []TypeOK` |
| `ReadCommittedProofs!KeysUnique` | `Spec => []OneRowPerKey` |
| `ReadCommittedProofs!KeysEnsured` | `Spec => []EnsureFinds` |
| `ReadCommittedProofs!VerdictsNeverLost` | `Spec => []VerdictsSurvive` |
| `ReadCommittedProofs!DuplicatesOnlyOverlapping` | `ASSUME KeyedLists PROVE Spec => []DuplicatesOverlap` |
| `ClassifierRunProofs!AnswerIsAlwaysResult` | `Spec => []AnswerIsResult` |
| `ClassifierRunProofs!TypeCorrect` | `Spec => []TypeOK` |
| `FeedbackProofs!FeedbackTypes` | `Spec => []FeedbackTypeOK` |

*The invariant `IInv`.* `RowsExplained` is not inductive: a row is written by
`StoreVerdict`, and only the processor knows that the event it needs was written
one step earlier. `CoreInv` adds what a processor knows (`StoreLogged`: at "store",
the log has the classified event of its job, and the confidence is not low; and
`Engaged`: a processor past "received" holds a message whose payload is a
domain). `IInv` is `CoreInv` and that every row was confident when written
(`RowsConfident`), from which, with `RowsExplained`, `BlockedOnEvidence` follows; a
rebuild breaks it (`System_low_confidence`), so the invariant of `System` contains
`CoreInv` only. `DatabaseProofs` proves once for each transaction what it preserves
of the tables (`DbInv`), without mentioning processors; `QueueProcessorProofs` has a
step per action that cites the lemma of the transaction the action runs.

*Serial processing.* `SerialProcessing` follows from where a message can
be: with `max_ack_pending` 1 and no late ack at most one message is delivered and
not acknowledged, each message that a processor holds is that one, and only one
processor holds it. `SerialInv` states these and is shown to be preserved by
every action; the cardinality bound comes last.

*One verdict.* `OneAtATime` says that there is one processor, or that
`SerialProcessing`'s hypothesis holds. Two parts make `OneValidLlmVerdict` inductive.
`VerdictInv` holds always: rows of one key end in the order they were written
(`NewerOutlast`), so when the newest has run out all have, and what a processor
runs was not Current when it read. `AloneInv` holds while one processor is busy: a
type that is still to do has no valid LLM row (`DueHaveNone`), since nobody else can
write one. `LatestIsNewest` provides the newest row: a set of numbered records that
is not empty has a greatest one, by well-foundedness of the numbers below
`txid`. Rules are out of the way: a pattern row is permanent and of another source.
What is expired and rebuilt belongs to the admin API and is not in this specification.

*Outcomes before the ack.* `AckedHasOutcomes` needs more of the environment, and says
so: in every state of the behaviour one domain at a time is processed, no database
call has failed and no confidence was out of range (`Undisturbed`). Crashes, late acks
of a single processor, unreadable prompts, classifiers that fail and days that
pass are all allowed. Each of the two other faults makes `process_domain` return with
types undone, and the message is acknowledged; `QueueProcessor_outofrange` shows it.
`SettleInv` says where the outcome of a type is at each place of the loop: a type
is due, or has an event or row on record (`DoneSettled`), and what was Current when
the states were read stays settled when it runs out (`CurrentSettled`).

*The refinement.* `WorkQueueImplemented` maps `Init` to `WQInit` and each action to a
step of the queue or a stutter. `HandInv` is what this needs beyond `IInv`: a worker
begins only when it has nothing, so a processor that is down or idle has no current
message, and only what was enqueued, so what a client holds was published.

*Both services.* `SystemProofs` first says what a step can write, whoever takes it:
which rows and events it may add, end or remove (`OrdinaryWrite`, `Appends` and the
lemmas that prove them of processors and of each handler action). Most properties
then need no word on handlers. Four need an invariant of their own.
`OnceInv` (for `ProvisionedUnique`): of a key one provisioned row at most is
unexpired, and the rows a rebuild has computed hold one row per key. `DeclaredEntries`
needs it too: where two rows of a key were left, a reconcile would skip an entry that
agrees with one of them. Both hold for transactions that do not overlap, as those of
`System` do not; what becomes of overlapping ones is shown in `ReadCommitted` only,
where duplicates do occur. `ExpiryInv` (for
`ExpiryHolds`): without a rebuild every row has begun, so an expiry ends it, and an
unexpired row that no classifier wrote has an event that no later expiry of its
domain follows. `RulesInv` and `RetroactiveInv` (for
`RetroactiveUnlessCut`): a rule is in force from the transaction that makes it, the
domains it reaches are those before it, and until it has been applied to one of them
some handler is on its way there. `DeclaredInv` (for `DeclaredRules`): what a
reconcile has in hand (`plan`, `known`) against the rules in the table, at each place
in its loop (`RunInv`). It has two hypotheses. `KeyedInputs`: a file, and the
rules it finds, name a pattern once per type; otherwise an entry expires what
another one made. `OneReconcile`: reconciles do not overlap. The module
`nix/nixos-module.nix` runs `domain reconcile` from one oneshot service, and nothing
else in the repository does; without it two files fight and neither wins. Runs that
were cut short are not excluded.

*The transactions.* The invariant of `ReadCommittedProofs` says that whatever an
open transaction has (a key, a domain, an ended row) was taken by a statement of its
program before the one it is at. `KeysUnique` and `KeysEnsured` rest on `Keyed`: an
insert is only made when nobody visible or open has made it. For
`VerdictsNeverLost`, that and the order of the statements in each program say who can
be waiting for whom. An LLM verdict waits at
its two keys and then at its domain, and what it has by then only other LLM verdicts
want, at an earlier key, where they have less. An exclusion or an admin's decision
has its domain before anything else, and an exclusion that waits for a suffix waits
for one that waits for nobody. So whoever waits for a verdict is not waited for by
those it waits for: the proof exhibits, for each place where it can wait, a set of
transactions that contains all it waits for, directly or through others, and not
itself. One key of each kind stands for all: no transaction takes two.

*Overlapping reconciles and rebuilds.* `ReconcileInv` follows one reconcile from its
read to its last row. It reads once, after it found or made the provisioned source (`ReadsOnce`,
`SeenBefore`), so the maker of the source is itself or somebody it saw. What was
committed when it read is, for each domain it writes to, ended or about to be: it
found no active row, or it expires the rows first (`PlansOnce`, `ClearsFirst`). So
when it writes, no active row of a writer it saw is left (`WritesAlone`). A
rebuild deletes once, all active rows that it sees, and that before it writes any
(`EmptiesOnce`), so it too leaves none of a writer that had committed by then; and a
provisioned row it writes is from an event of a committed transaction which had found
or made the source (`LogsAfter`), so its maker is somebody it saw. That others
end, insert or roll back meanwhile takes nothing away (`FactsKept`). `KeyedLists` is
the hypothesis that a list names a domain once: of two entries for one domain both are
inserted, by one transaction.

*The run of a classifier.* `AnswerIsResult` rests on `Conserved`, what was printed
is in the pipe or has been read, and `EndIsEnd`, the end of stdout is seen only
after the child has ended and the pipe is empty. All steps of `run_classification`
share one lemma, since none of them touches stdout.

*The loop.* `FeedbackTypeOK` bounds what is unread by the room of the source, and
that is not inductive: a line is appended to a file and to what its reader has
before it under one check of the file's room. `ReadsFromFile` says that the reader
never has more before it than the file holds; `WorksOnMessage` that a busy worker
has a message, and one that follows redirects a host to follow them from.

Only model-checked: the liveness properties `MessagesSettle`, `RunEnds`,
`QueueDrains`, `StaysWatching` and `FileIsRead`, which rest on fairness and so on
ENABLED, out of the prover's reach; `FailuresFollowedUp`, whose invariant would have
to follow each retry through the stream and the processor; and the five violations,
which are about single behaviours. Where a theorem has a hypothesis and the run has none
(`OneAtATime`, `Undisturbed`, `OneReconcile`, `KeyedInputs`, `KeyedLists`), the
instances of the run satisfy it by their constants and limits.

## What is not modelled

The text of domains, prompts, log lines and verdicts; `users`;
`dns_nxdomain_classify` and the log processor's `db.rs` and `dnsdist.rs`, which
have no callers; stream retention; transactions at other levels than READ COMMITTED;
what the classifier reads in a page; metrics and pages. Two things were looked at and
left out because the code promises too little: the order of `created_at` (the start
of a transaction) against the order of commits, and the metrics, on which nothing
depends.

## Plan

Done: `Database`, `JetStream`, `QueueProcessor`, `AdminServer`, `System`,
`ClassifierRun`, `WorkQueue`, `LogProcessor`, `Feedback`, `ReadCommitted`, and the
proofs of their safety properties but one. Left:

1. A proof of `FailuresFollowedUp`; and `RowsConfident` for `System` without rebuilds: the processors and the admin API
   together block on recorded evidence as long as nobody rebuilds.
2. The steps from which the liveness properties follow, as action properties: what
   a redelivered message keeps, what each step of a run of the classifier uses up.
3. A refinement of `Database` by the committed transactions of `ReadCommitted`, for
   the transactions whose effects do not depend on what runs beside them.
