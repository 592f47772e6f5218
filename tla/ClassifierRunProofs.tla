------------------------ MODULE ClassifierRunProofs ------------------------
(***************************************************************************)
(* What run_classifier returns, for pipes of any capacity and output and   *)
(* log of any length: nothing is lost between the child and its runner.    *)
(***************************************************************************)
EXTENDS ClassifierRun, TLAPS

(* What was printed is in the pipe or has been read. *)
Conserved == printed = buf + stdout

(* The end of stdout is seen when there is nothing left to come. *)
EndIsEnd == "stdout" \in atEnd => child = "exited" /\ stdout = 0

(* A child that was never started has done nothing, and the runner that    *)
(* started one returns after it has ended.                                 *)
NeverStarted == child = "none" => result = "none" /\ printed = 0 /\ runner # "reading"
Started == runner = "start" => child = "none"
OutlivesChild == runner = "returned" => child \in {"none", "exited"}

(* Nothing is logged outside of a child's life. *)
Quiet == child \in {"none", "exited"} => logs = 0

IInv ==
  /\ TypeOK
  /\ Conserved
  /\ EndIsEnd
  /\ NeverStarted
  /\ Started
  /\ OutlivesChild
  /\ Quiet
  /\ AnswerIsResult

-----------------------------------------------------------------------------
LEMMA InitIInv == Init => IInv
  BY PipesAssumption DEF Init, IInv, TypeOK, ChildPlace, Result, MaxAttempts, Conserved,
     EndIsEnd, NeverStarted, Started, OutlivesChild, Quiet, AnswerIsResult

(* A step of run_classification: it goes on from one place of a live child *)
(* to another, and its result is not yet known to the runner.              *)
LEMMA StepPreserves ==
  ASSUME IInv, NEW s \in ChildPlace \ {"none", "exited"},
         NEW t \in ChildPlace \ {"none", "exited"}, Step(s, t),
         attempt' \in 0..(MaxAttempts - 1),
         page' \in {"none", "metadata", "fetch_error"}, result' \in Result
  PROVE  IInv'
<1>1. /\ child = s /\ child' = t /\ logs' \in 0..MaxLogLines
      /\ UNCHANGED <<printed, stdout, stderr, runner, atEnd, buf, answer>>
  BY DEF Step, pipeVars, runnerVars
<1>2. TypeOK'
  BY <1>1 DEF IInv, TypeOK
<1>3. "stdout" \notin atEnd /\ runner = "reading"
  BY <1>1 DEF IInv, TypeOK, EndIsEnd, Started, OutlivesChild
<1> QED
  BY <1>1, <1>2, <1>3 DEF IInv, Conserved, EndIsEnd, NeverStarted, Started,
     OutlivesChild, Quiet, AnswerIsResult

LEMMA ChildPreserves ==
  ASSUME IInv, ChildGoesOn \/ OllamaAnswers \/ Killed PROVE IInv'
<1> USE PipesAssumption
<1>1. attempt \in 0..(MaxAttempts - 1) /\ page \in {"none", "metadata", "fetch_error"}
      /\ result \in Result
  BY DEF IInv, TypeOK
<1>2. CASE ReadPrompt
  BY <1>1, <1>2, StepPreserves DEF ReadPrompt, ChildPlace
<1>3. CASE PromptFails
  BY <1>1, <1>3, StepPreserves DEF PromptFails, ChildPlace, Result
<1>4. CASE AttemptFails
  BY <1>1, <1>4, StepPreserves DEF AttemptFails, ChildPlace, MaxAttempts
<1>5. CASE Responds
  BY <1>1, <1>5, StepPreserves DEF Responds, ChildPlace
<1>6. CASE BodyArrives
  BY <1>1, <1>6, StepPreserves DEF BodyArrives, ChildPlace
<1>7. CASE FetchFails
  BY <1>1, <1>7, StepPreserves DEF FetchFails, ChildPlace
<1>8. CASE OllamaAnswers
  BY <1>1, <1>8, StepPreserves DEF OllamaAnswers, ChildPlace, Result
<1>9. CASE WriteLog
  BY <1>9 DEF WriteLog, IInv, TypeOK, Conserved, EndIsEnd, NeverStarted, Started,
     OutlivesChild, Quiet, AnswerIsResult, runnerVars
<1>10. CASE PrintAnswer
  BY <1>10 DEF PrintAnswer, IInv, TypeOK, Conserved, EndIsEnd, NeverStarted, Started,
     OutlivesChild, Quiet, AnswerIsResult, runnerVars
<1>11. CASE Exit
  BY <1>11 DEF Exit, IInv, TypeOK, ChildPlace, Conserved, EndIsEnd, NeverStarted, Started,
     OutlivesChild, Quiet, AnswerIsResult, runnerVars, pipeVars
<1>12. CASE Killed
  BY <1>12 DEF Killed, IInv, TypeOK, ChildPlace, Conserved, EndIsEnd, NeverStarted, Started,
     OutlivesChild, Quiet, AnswerIsResult, runnerVars, pipeVars
<1> QED
  BY <1>2, <1>3, <1>4, <1>5, <1>6, <1>7, <1>8, <1>9, <1>10, <1>11, <1>12
  DEF ChildGoesOn, Fetching

LEMMA RunnerPreserves ==
  ASSUME IInv, Spawn \/ SpawnFails \/ Reading PROVE IInv'
<1> USE PipesAssumption DEF IInv, TypeOK, Conserved, EndIsEnd, NeverStarted, Started,
        OutlivesChild, Quiet, AnswerIsResult, childVars, pipeVars
<1>1. CASE Spawn
  BY <1>1 DEF Spawn, ChildPlace
<1>2. CASE SpawnFails
  BY <1>2 DEF SpawnFails, Result
<1>3. CASE ReadStdout
  BY <1>3 DEF ReadStdout
<1>4. CASE ReadStderr
  BY <1>4 DEF ReadStderr, runnerVars
<1>5. CASE StdoutEnds
  BY <1>5 DEF StdoutEnds
<1>6. CASE StderrEnds
  BY <1>6 DEF StderrEnds
<1>7. CASE Return
  <2>1. "stdout" \in atEnd
    BY <1>7 DEF Return
  <2>2. buf = printed
    BY <2>1
  <2> QED BY <1>7, <2>1, <2>2 DEF Return, Result
<1> QED BY <1>1, <1>2, <1>3, <1>4, <1>5, <1>6, <1>7 DEF Reading

LEMMA StutterPreserves == ASSUME IInv, UNCHANGED vars PROVE IInv'
  BY DEF IInv, vars, childVars, pipeVars, runnerVars, TypeOK, Conserved, EndIsEnd,
     NeverStarted, Started, OutlivesChild, Quiet, AnswerIsResult

(* What the runner has read is what the child has written, until the end. *)
THEOREM Invariance == Spec => []IInv
<1>1. IInv /\ [Next]_vars => IInv'
  <2> SUFFICES ASSUME IInv, [Next]_vars PROVE IInv'
    OBVIOUS
  <2> QED BY ChildPreserves, RunnerPreserves, StutterPreserves DEF Next
<1> QED BY InitIInv, <1>1, PTL DEF Spec

(* Every state of a run is of the declared types: no pipe holds more than  *)
(* its capacity, no more is read than printed, and there are three         *)
(* attempts to fetch the page.                                             *)
THEOREM TypeCorrect == Spec => []TypeOK
<1>1. IInv => TypeOK
  BY DEF IInv
<1> QED BY Invariance, <1>1, PTL

(* run_classifier returns a verdict exactly when the child made one and    *)
(* printed all of it.                                                      *)
THEOREM AnswerIsAlwaysResult == Spec => []AnswerIsResult
<1>1. IInv => AnswerIsResult
  BY DEF IInv
<1> QED BY Invariance, <1>1, PTL
=============================================================================
