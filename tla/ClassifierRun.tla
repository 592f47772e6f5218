--------------------------- MODULE ClassifierRun ---------------------------
(***************************************************************************)
(* One run of the classifier: run_classifier of the queue processor, the   *)
(* subprocess it starts, and the two pipes between them.  The child reads  *)
(* its prompt, fetches the page (best effort, three attempts), asks the    *)
(* LLM and prints its answer as JSON.  The runner reads both pipes at once *)
(* until they are closed and makes an answer of what it read.  What the    *)
(* page, the prompt and the reasoning say is left out.                     *)
(***************************************************************************)
EXTENDS Integers

CONSTANTS
  PipeCapacity,    \* units a pipe holds before its writer blocks
  OutputLength,    \* units of the JSON the child prints
  MaxLogLines      \* bound: units a child logs to stderr in one step

ASSUME PipesAssumption ==
  /\ PipeCapacity \in Nat \ {0} /\ OutputLength \in Nat \ {0} /\ MaxLogLines \in Nat

VARIABLES
  child,       \* where the subprocess is
  attempt,     \* requests for the page that failed
  page,        \* the metadata made of the fetch
  result,      \* what run_classification returned
  logs,        \* units to log before the child goes on
  printed,     \* units of the JSON written to stdout so far
  stdout,      \* units in the pipe
  stderr,
  runner,      \* where run_classifier is
  atEnd,       \* the pipes whose end it has read
  buf,         \* units of stdout it has read: stdout_buf
  answer       \* what it returned

childVars == <<child, attempt, page, result, logs, printed>>
pipeVars == <<stdout, stderr>>
runnerVars == <<runner, atEnd, buf, answer>>
vars == <<childVars, pipeVars, runnerVars>>

MaxAttempts == 3

ChildPlace == {"none", "prompt", "fetch", "body", "llm", "print", "exited"}
Result == {"none", "classified", "error"}

TypeOK ==
  /\ child \in ChildPlace
  /\ attempt \in 0..(MaxAttempts - 1)
  /\ page \in {"none", "metadata", "fetch_error"}
  /\ result \in Result
  /\ logs \in 0..MaxLogLines
  /\ printed \in 0..OutputLength
  /\ stdout \in 0..PipeCapacity
  /\ stderr \in 0..PipeCapacity
  /\ runner \in {"start", "reading", "returned"}
  /\ atEnd \subseteq {"stdout", "stderr"}
  /\ buf \in 0..OutputLength
  /\ answer \in Result

Init ==
  /\ child = "none"
  /\ attempt = 0
  /\ page = "none"
  /\ result = "none"
  /\ logs = 0
  /\ printed = 0
  /\ stdout = 0
  /\ stderr = 0
  /\ runner = "start"
  /\ atEnd = {}
  /\ buf = 0
  /\ answer = "none"

-----------------------------------------------------------------------------
(* The child *)

(* From place s to t, with what there is to log about it. *)
Step(s, t) ==
  /\ child = s /\ logs = 0
  /\ child' = t
  /\ logs' \in 0..MaxLogLines
  /\ UNCHANGED <<printed, pipeVars, runnerVars>>

ReadPrompt == Step("prompt", "fetch") /\ UNCHANGED <<attempt, page, result>>

PromptFails ==
  /\ Step("prompt", "print")
  /\ result' = "error"
  /\ UNCHANGED <<attempt, page>>

(* Bug: one attempt more than MaxAttempts. *)
AttemptFailsOnceMore ==
  /\ attempt < MaxAttempts
  /\ Step("fetch", "fetch")
  /\ attempt' = attempt + 1
  /\ UNCHANGED <<page, result>>

(* Only a request that gets no response is made again, and each has a      *)
(* time limit.                                                             *)
AttemptFails ==
  /\ attempt + 1 < MaxAttempts
  /\ Step("fetch", "fetch")
  /\ attempt' = attempt + 1
  /\ UNCHANGED <<page, result>>

Responds == Step("fetch", "body") /\ UNCHANGED <<attempt, page, result>>

BodyArrives ==
  /\ Step("body", "llm")
  /\ page' = "metadata"
  /\ UNCHANGED <<attempt, result>>

(* No client could be built, the last attempt failed, or the body of a     *)
(* response did: the LLM is asked about the name alone.                    *)
FetchFails ==
  /\ \/ Step("fetch", "llm") /\ attempt \in {0, MaxAttempts - 1}
     \/ Step("body", "llm")
  /\ page' = "fetch_error"
  /\ UNCHANGED <<attempt, result>>

(* Ollama's answer, good or not, whenever it comes: this client has no     *)
(* time limit.                                                             *)
OllamaAnswers ==
  /\ Step("llm", "print")
  /\ result' \in {"classified", "error"}
  /\ UNCHANGED <<attempt, page>>

(* A write to a full pipe blocks. *)
WriteLog ==
  /\ logs > 0 /\ stderr < PipeCapacity
  /\ logs' = logs - 1
  /\ stderr' = stderr + 1
  /\ UNCHANGED <<child, attempt, page, result, printed, stdout, runnerVars>>

PrintAnswer ==
  /\ child = "print" /\ logs = 0
  /\ printed < OutputLength /\ stdout < PipeCapacity
  /\ printed' = printed + 1
  /\ stdout' = stdout + 1
  /\ UNCHANGED <<child, attempt, page, result, logs, stderr, runnerVars>>

Exit ==
  /\ child = "print" /\ logs = 0 /\ printed = OutputLength
  /\ child' = "exited"
  /\ UNCHANGED <<attempt, page, result, logs, printed, pipeVars, runnerVars>>

(* The child is killed or panics, at any place and perhaps inside a write. *)
Killed ==
  /\ child \notin {"none", "exited"}
  /\ child' = "exited"
  /\ logs' = 0
  /\ UNCHANGED <<attempt, page, result, printed, pipeVars, runnerVars>>

-----------------------------------------------------------------------------
(* The runner *)

Spawn ==
  /\ runner = "start"
  /\ runner' = "reading"
  /\ child' = "prompt"
  /\ UNCHANGED <<attempt, page, result, logs, printed, pipeVars, atEnd, buf, answer>>

SpawnFails ==
  /\ runner = "start"
  /\ runner' = "returned"
  /\ answer' = "error"
  /\ UNCHANGED <<childVars, pipeVars, atEnd, buf>>

(* read_to_string: what is in the pipe, until there is nothing and nobody  *)
(* to write more.                                                          *)
ReadStdout ==
  /\ runner = "reading" /\ stdout > 0 /\ "stdout" \notin atEnd
  /\ buf' = buf + stdout
  /\ stdout' = 0
  /\ UNCHANGED <<childVars, stderr, runner, atEnd, answer>>

(* Bug: what is there when it looks is taken for all. *)
StdoutEmptied ==
  /\ runner = "reading" /\ stdout = 0 /\ printed > 0
  /\ "stdout" \notin atEnd
  /\ atEnd' = atEnd \union {"stdout"}
  /\ UNCHANGED <<childVars, pipeVars, runner, buf, answer>>

StdoutEnds ==
  /\ runner = "reading" /\ stdout = 0 /\ child = "exited"
  /\ "stdout" \notin atEnd
  /\ atEnd' = atEnd \union {"stdout"}
  /\ UNCHANGED <<childVars, pipeVars, runner, buf, answer>>

(* Bug: stderr is read when stdout is done with. *)
ReadStderrLast ==
  /\ runner = "reading" /\ stderr > 0 /\ "stdout" \in atEnd
  /\ stderr' = 0
  /\ UNCHANGED <<childVars, stdout, runnerVars>>

(* Line by line to the log of the processor, at the same time (join!). *)
ReadStderr ==
  /\ runner = "reading" /\ stderr > 0 /\ "stderr" \notin atEnd
  /\ stderr' = 0
  /\ UNCHANGED <<childVars, stdout, runnerVars>>

StderrEnds ==
  /\ runner = "reading" /\ stderr = 0 /\ child = "exited"
  /\ "stderr" \notin atEnd
  /\ atEnd' = atEnd \union {"stderr"}
  /\ UNCHANGED <<childVars, pipeVars, runner, buf, answer>>

(* Wait for the child, whatever its exit status, and parse: nothing read,  *)
(* JSON cut short and the child's own error are all errors.                *)
Return ==
  /\ runner = "reading" /\ atEnd = {"stdout", "stderr"} /\ child = "exited"
  /\ runner' = "returned"
  /\ answer' = IF buf = OutputLength /\ result = "classified" THEN "classified" ELSE "error"
  /\ UNCHANGED <<childVars, pipeVars, atEnd, buf>>

-----------------------------------------------------------------------------
Fetching == AttemptFails \/ Responds \/ BodyArrives \/ FetchFails

(* What the child does by itself; its requests for the page time out. *)
ChildGoesOn ==
  ReadPrompt \/ PromptFails \/ Fetching \/ WriteLog \/ PrintAnswer \/ Exit

Reading == ReadStdout \/ ReadStderr \/ StdoutEnds \/ StderrEnds \/ Return

Next ==
  \/ Spawn \/ SpawnFails
  \/ ChildGoesOn \/ OllamaAnswers \/ Killed
  \/ Reading

Spec == Init /\ [][Next]_vars

Fairness ==
  /\ WF_vars(Spawn \/ SpawnFails)
  /\ WF_vars(ChildGoesOn)
  /\ WF_vars(ReadStdout) /\ WF_vars(ReadStderr)
  /\ WF_vars(StdoutEnds) /\ WF_vars(StderrEnds) /\ WF_vars(Return)

FairSpec == Spec /\ Fairness
-----------------------------------------------------------------------------
(* A verdict comes back exactly when the child made one and printed all of *)
(* it: run_classifier reads no exit status and no timing, only what went   *)
(* through the pipe before the child ended, however it ended.              *)
AnswerIsResult ==
  runner = "returned" =>
    (answer = "classified" <=> result = "classified" /\ printed = OutputLength)

(* A run returns unless Ollama never answers: neither a page that cannot   *)
(* be fetched nor a pipe filled by the child's log stops it, since both    *)
(* pipes are read at once.                                                 *)
RunEnds == <>(runner = "returned") \/ <>[](child = "llm" /\ logs = 0)
=============================================================================
