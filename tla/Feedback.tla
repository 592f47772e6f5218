------------------------------ MODULE Feedback ------------------------------
(***************************************************************************)
(* The loop that the services close through the DNS server: the log        *)
(* processor queues what the server logs, the classifier asks the server   *)
(* for the pages it fetches, and the server logs that too.  What stops the *)
(* loop is a Current verdict, or an address in the message: the classifier *)
(* connects to it and asks nobody.  One worker (max_ack_pending is 1) and  *)
(* one classifier; domains that a rule or an excluded suffix decides are   *)
(* left out, they never get to a fetch.                                    *)
(***************************************************************************)
EXTENDS LogProcessor

CONSTANTS
  Redirect,      \* Redirect[n]: the host n's page redirects to, n itself if none
  MaxRedirects   \* redirects to other hosts that a fetch follows, at most

ASSUME RedirectAssumption == Redirect \in [Names -> Names] /\ MaxRedirects \in Nat

VARIABLES
  worker,      \* where the queue processor and its classifier are
  msg,         \* the message it works on
  host,        \* the host its fetch has come to
  hops,        \* the redirects to other hosts that took it there
  state        \* state[n]: the DomainState of n

workerVars == <<worker, msg, host, hops, state>>
vars == <<lpVars, workerVars, used>>

NoHost == "none"
NoMessage == [domain |-> NoHost, ip |-> FALSE]

FeedbackTypeOK ==
  /\ LogProcessorTypeOK
  /\ BoundsTypeOK
  /\ worker \in {"idle", "fetch", "redirect", "ask"}
  /\ msg \in DomainMessage \union {NoMessage}
  /\ host \in Names \union {NoHost}
  /\ hops \in 0..MaxRedirects
  /\ state \in [Names -> {"Missing", "Error", "Expired", "Current"}]

Init ==
  /\ LogProcessorInit /\ BoundsInit
  /\ worker = "idle" /\ msg = NoMessage /\ host = NoHost /\ hops = 0
  /\ state = [n \in Names |-> "Missing"]

-----------------------------------------------------------------------------
(* A query for n: the server logs it, unless a cache before it answers. *)
Resolve(n) ==
  \/ \E k \in {"address", "resolved", "cached"} : Log([name |-> n, kind |-> k])
  \/ UNCHANGED <<file, unread>>

ClientAsks(n) ==
  /\ Spend("query")
  /\ Resolve(n)
  /\ UNCHANGED <<config, lp, command, queue, workerVars>>

LineGarbled ==
  /\ Spend("garbled")
  /\ Log([name |-> CHOOSE n \in Names : TRUE, kind |-> "garbled"])
  /\ UNCHANGED <<config, lp, command, queue, workerVars>>

(* The admin API queues an errored domain, and has no address for it. *)
Requeue(n) ==
  /\ state[n] = "Error"
  /\ Spend("requeue")
  /\ queue' = queue \union {[domain |-> n, ip |-> FALSE]}
  /\ UNCHANGED <<config, sourceVars, workerVars>>

DayPasses ==
  /\ Spend("day")
  /\ state' = [n \in Names |-> IF state[n] = "Current" THEN "Expired" ELSE state[n]]
  /\ UNCHANGED <<lpVars, worker, msg, host, hops>>

-----------------------------------------------------------------------------
(* process_domain *)

Take(m) ==
  /\ worker = "idle" /\ m \in queue
  /\ queue' = queue \ {m}
  /\ IF state[m.domain] = "Current"
       THEN UNCHANGED <<worker, msg>>
       ELSE worker' = "fetch" /\ msg' = m
  /\ UNCHANGED <<config, sourceVars, host, hops, state, used>>

(* Bug: the address in the message is not used. *)
FetchByName ==
  /\ worker = "fetch"
  /\ Resolve(msg.domain)
  /\ worker' = "redirect" /\ host' = msg.domain
  /\ UNCHANGED <<config, lp, command, queue, msg, hops, state, used>>

(* A host of the fetch is connected to.  The address in the message is     *)
(* used for the domain's own name, whenever it comes up; any other name is *)
(* looked up.  A retry may ask for the same names again.                   *)
Connect(n) ==
  IF n = msg.domain /\ msg.ip THEN UNCHANGED <<file, unread>> ELSE Resolve(n)

FetchDomain ==
  /\ worker = "fetch"
  /\ Connect(msg.domain)
  /\ worker' = "redirect" /\ host' = msg.domain
  /\ UNCHANGED <<config, lp, command, queue, msg, hops, state, used>>

FollowRedirect ==
  /\ worker = "redirect"
  /\ Redirect[host] # host /\ hops < MaxRedirects
  /\ Connect(Redirect[host])
  /\ host' = Redirect[host] /\ hops' = hops + 1
  /\ UNCHANGED <<config, lp, command, queue, worker, msg, state, used>>

(* A page at last, or the fetch fails, which it may at any host: the LLM   *)
(* is asked in either case.                                                *)
FetchEnds ==
  /\ worker = "redirect"
  /\ worker' = "ask" /\ host' = NoHost /\ hops' = 0
  /\ UNCHANGED <<lpVars, msg, state, used>>

Answer(s) ==
  /\ worker = "ask"
  /\ worker' = "idle" /\ msg' = NoMessage
  /\ state' = [state EXCEPT ![msg.domain] = s]
  /\ UNCHANGED <<lpVars, host, hops, used>>

(* A confident verdict is stored.  Without one nothing is: an older row    *)
(* stays Expired, otherwise the last event says what the state is, an      *)
(* error or a verdict of too little confidence.                            *)
Conclusive == Answer("Current")

(* Bug: the state of a domain that failed has another name. *)
InconclusiveMisnamed ==
  /\ worker = "ask"
  /\ \E s \in IF state[msg.domain] = "Expired" THEN {"Expired"} ELSE {"Missing", "Errored"} :
       Answer(s)

Inconclusive ==
  /\ worker = "ask"
  /\ \E s \in IF state[msg.domain] = "Expired" THEN {"Expired"} ELSE {"Missing", "Error"} :
       Answer(s)

-----------------------------------------------------------------------------
WorkerGoesOn ==
  (\E m \in queue : Take(m)) \/ FetchDomain \/ FollowRedirect \/ FetchEnds

Next ==
  \/ LogProcessorStep /\ UNCHANGED workerVars
  \/ \E n \in Names : ClientAsks(n) \/ Requeue(n)
  \/ LineGarbled \/ DayPasses
  \/ WorkerGoesOn \/ Conclusive \/ Inconclusive

Spec == Init /\ [][Next]_vars

(* systemd restarts the log processor (Restart=always); the LLM may never  *)
(* answer.                                                                 *)
Fairness ==
  /\ WF_vars(Start /\ UNCHANGED workerVars)
  /\ WF_vars((ReadLine \/ StreamEnds) /\ UNCHANGED workerVars)
  /\ WF_vars(WorkerGoesOn)

FairSpec == Spec /\ Fairness
-----------------------------------------------------------------------------
Quiet == queue = {} /\ unread = <<>> /\ worker = "idle"

(* The redirects that begin at n come back to it: it is in every set that  *)
(* holds the host they lead to next and is closed under them.              *)
LeadsBack(n) ==
  /\ Redirect[n] # n
  /\ \A S \in SUBSET Names :
       Redirect[n] \in S /\ (\A m \in S : Redirect[m] \in S) => n \in S

(* A domain does not queue itself for ever through the fetches it causes.  *)
(* Where the log is the output of a command and the clients stop asking,   *)
(* the system comes to rest (a file is published again at every restart,   *)
(* and then it need not), or waits for an LLM that does not answer.  It    *)
(* goes on only while there are domains that are fetched, again and again, *)
(* without a verdict that is stored, and whose own fetches can bring them  *)
(* back: because their messages have no address, or because redirects      *)
(* through other hosts lead back to them.                                  *)
QueueDrains ==
  config.command =>
    \/ <>[]Quiet
    \/ <>[](worker = "ask")
    \/ []<><<Inconclusive /\ (~ msg.ip \/ LeadsBack(msg.domain))>>_vars

(* Whatever its command, its lines or its publisher do, the log processor  *)
(* does not stay with a source that gives no lines.                        *)
StaysWatching == []<>IsLive

IsReadable(n) ==
  /\ ~ config.command
  /\ \E i \in DOMAIN file :
       /\ \E m \in ParseLogLine(file[i]) : m.domain = n
       /\ \A j \in 1..i : file[j].kind # "garbled"

IsQueued(n) == \E m \in queue : m.domain = n

(* A line in a log file is queued, whenever it was written and however     *)
(* often the log processor was down, unless some line before it cannot be  *)
(* decoded.                                                                *)
FileIsRead == \A n \in Names : IsReadable(n) ~> IsQueued(n)
=============================================================================
