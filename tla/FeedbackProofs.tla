--------------------------- MODULE FeedbackProofs ---------------------------
(***************************************************************************)
(* The types of the feedback loop, for any names, configurations and       *)
(* bounds.                                                                 *)
(***************************************************************************)
EXTENDS Feedback, TLAPS

(* A file always holds what its reader has yet to read, so a line that fits *)
(* the file fits what is unread.                                           *)
ReadsFromFile == ~ config.command => Len(unread) <= Len(file)

(* The worker has a message from when it takes it until it has answered,   *)
(* and is at some host while it fetches.                                   *)
WorksOnMessage ==
  /\ worker # "idle" => msg \in DomainMessage
  /\ worker = "redirect" => host \in Names

FeedbackInv == FeedbackTypeOK /\ ReadsFromFile /\ WorksOnMessage

-----------------------------------------------------------------------------
(* Sequences that grow and shrink at their ends *)

LEMMA Longer ==
  ASSUME NEW S, NEW s \in Seq(S), NEW x \in S
  PROVE  Append(s, x) \in Seq(S) /\ Len(Append(s, x)) = Len(s) + 1
  OBVIOUS

LEMMA Shorter ==
  ASSUME NEW S, NEW s \in Seq(S), s # <<>>
  PROVE  Tail(s) \in Seq(S) /\ Len(Tail(s)) = Len(s) - 1 /\ Len(s) \in Nat /\ Head(s) \in S
  OBVIOUS

LEMMA Nothing ==
  ASSUME NEW S
  PROVE  <<>> \in Seq(S) /\ Len(<<>>) = 0
  OBVIOUS

LEMMA SpendTyped ==
  ASSUME BoundsTypeOK, NEW k, Spend(k)
  PROVE  BoundsTypeOK'
<1>1. used' = [used EXCEPT ![k] = @ + 1] /\ used \in [Kinds -> Nat]
  BY DEF Spend, BoundsTypeOK
<1>2. CASE k \in Kinds
  BY <1>1, <1>2 DEF BoundsTypeOK
<1>3. CASE k \notin Kinds
  <2>1. used' = [j \in Kinds |-> used[j]]
    BY <1>1, <1>3
  <2> QED BY <1>1, <2>1 DEF BoundsTypeOK
<1> QED BY <1>2, <1>3

(* What is parsed of a line is a message, whatever the configuration. *)
LEMMA ParsedIsMessage ==
  ASSUME NEW l
  PROVE  ParseLogLine(l) \subseteq DomainMessage
BY DEF ParseLogLine

(* The file and what is unread of it. *)
LinesOK ==
  /\ file \in Seq(Line) /\ Len(file) <= MaxFile
  /\ unread \in Seq(Line) /\ Len(unread) <= Room
  /\ ReadsFromFile

LEMMA LogKeepsLines ==
  ASSUME LinesOK, NEW l \in Line, Log(l), config' = config
  PROVE  LinesOK'
<1>1. /\ Len(file) \in Nat /\ Len(unread) \in Nat /\ MaxFile \in Nat /\ MaxPipe \in Nat
  BY LogProcessorAssumption DEF LinesOK
<1>2. /\ Append(file, l) \in Seq(Line) /\ Len(Append(file, l)) = Len(file) + 1
      /\ Append(unread, l) \in Seq(Line) /\ Len(Append(unread, l)) = Len(unread) + 1
  BY Longer DEF LinesOK
<1>3. CASE config.command
  <2>1. Len(unread) < MaxPipe /\ file' = file /\ Room = MaxPipe /\ Room' = MaxPipe
    BY <1>3 DEF Log, HasRoom, Room
  <2>2. unread' = unread \/ unread' = Append(unread, l)
    BY DEF Log
  <2> QED BY <1>1, <1>2, <1>3, <2>1, <2>2 DEF LinesOK, ReadsFromFile
<1>4. CASE ~ config.command
  <2>1. Len(file) < MaxFile /\ file' = Append(file, l) /\ Room = MaxFile /\ Room' = MaxFile
    BY <1>4 DEF Log, HasRoom, Room
  <2>2. unread' = unread \/ unread' = Append(unread, l)
    BY DEF Log
  <2>3. Len(unread) <= Len(file)
    BY <1>4 DEF LinesOK, ReadsFromFile
  <2>4. unread' \in Seq(Line) /\ Len(unread') <= Len(unread) + 1
    BY <1>1, <1>2, <2>2 DEF LinesOK
  <2>5. Len(unread') <= Len(file') /\ Len(unread') <= MaxFile /\ Len(file') <= MaxFile
    BY <1>1, <1>2, <2>1, <2>3, <2>4
  <2> QED BY <1>2, <2>1, <2>4, <2>5 DEF LinesOK, ReadsFromFile
<1> QED BY <1>3, <1>4

LEMMA ResolveKeepsLines ==
  ASSUME LinesOK, NEW n \in Names, Resolve(n), config' = config
  PROVE  LinesOK'
<1>1. CASE UNCHANGED <<file, unread>>
  BY <1>1 DEF LinesOK, ReadsFromFile, Room
<1>2. ASSUME NEW k \in {"address", "resolved", "cached"}, Log([name |-> n, kind |-> k])
      PROVE  LinesOK'
  BY <1>2, LogKeepsLines DEF Line
<1> QED BY <1>1, <1>2 DEF Resolve

LEMMA StartKeepsLines ==
  ASSUME LinesOK, unread' = (IF config.command THEN <<>> ELSE file), UNCHANGED <<config, file>>
  PROVE  LinesOK'
<1>1. Len(file) \in Nat /\ MaxPipe \in Nat
  BY LogProcessorAssumption DEF LinesOK
<1> QED BY <1>1, Nothing DEF LinesOK, ReadsFromFile, Room

LEMMA TailKeepsLines ==
  ASSUME LinesOK, unread # <<>>, unread' = Tail(unread), UNCHANGED <<config, file>>
  PROVE  LinesOK' /\ Head(unread) \in Line
<1>1. Room \in Nat /\ Len(file) \in Nat
  BY LogProcessorAssumption DEF LinesOK, Room
<1> QED BY <1>1, Shorter DEF LinesOK, ReadsFromFile, Room

LEMMA ExitKeepsLines ==
  ASSUME LinesOK, Exit
  PROVE  LinesOK'
<1>1. Room \in Nat /\ Len(file) \in Nat
  BY LogProcessorAssumption DEF LinesOK, Room
<1> QED BY <1>1, Nothing DEF LinesOK, ReadsFromFile, Room, Exit

-----------------------------------------------------------------------------
LEMMA FeedbackInit == Init => FeedbackInv
<1> SUFFICES ASSUME Init PROVE FeedbackInv
  OBVIOUS
<1>1. LogProcessorTypeOK /\ ReadsFromFile
  BY LogProcessorAssumption, Nothing
     DEF Init, LogProcessorInit, LogProcessorTypeOK, ReadsFromFile, Room
<1>2. BoundsTypeOK
  BY DEF Init, BoundsInit, BoundsTypeOK
<1>3. hops \in 0..MaxRedirects
  BY RedirectAssumption DEF Init
<1> QED BY <1>1, <1>2, <1>3 DEF Init, FeedbackInv, FeedbackTypeOK, WorksOnMessage

(* The log processor's own steps. *)
LEMMA LogProcessorKeeps ==
  ASSUME FeedbackInv, LogProcessorStep, UNCHANGED workerVars
  PROVE  FeedbackInv'
<1>1. LinesOK /\ BoundsTypeOK /\ queue \subseteq DomainMessage /\ config \in Config
  BY DEF FeedbackInv, FeedbackTypeOK, LogProcessorTypeOK, LinesOK
<1>2. LinesOK' /\ BoundsTypeOK' /\ config' = config
  <2>1. CASE Start
    BY <1>1, <2>1, StartKeepsLines DEF Start, BoundsTypeOK
  <2>2. CASE ReadLine
    BY <1>1, <2>2, TailKeepsLines DEF ReadLine, BoundsTypeOK
  <2>3. CASE PublishFails
    BY <1>1, <2>3, TailKeepsLines, SpendTyped DEF PublishFails
  <2>4. CASE StreamEnds
    BY <1>1, <2>4, ExitKeepsLines DEF StreamEnds, Exit, BoundsTypeOK
  <2>5. CASE CommandEnds
    BY <1>1, <2>5 DEF CommandEnds, BoundsTypeOK, LinesOK, ReadsFromFile, Room
  <2>6. CASE LogProcessorCrashes
    BY <1>1, <2>6, ExitKeepsLines, SpendTyped DEF LogProcessorCrashes, Exit
  <2> QED BY <2>1, <2>2, <2>3, <2>4, <2>5, <2>6 DEF LogProcessorStep
<1>3. queue' \subseteq DomainMessage
  BY <1>1, ParsedIsMessage
     DEF LogProcessorStep, Start, ReadLine, PublishFails, StreamEnds, CommandEnds,
         LogProcessorCrashes, Exit
<1>4. lp' \in {"down", "reading"} /\ command' \in {"none", "running", "ended"}
  BY DEF LogProcessorStep, Start, ReadLine, PublishFails, StreamEnds, CommandEnds,
         LogProcessorCrashes, Exit, FeedbackInv, FeedbackTypeOK, LogProcessorTypeOK
<1>5. LogProcessorTypeOK'
  BY <1>1, <1>2, <1>3, <1>4 DEF LinesOK, LogProcessorTypeOK
<1> QED BY <1>2, <1>5 DEF LinesOK, FeedbackInv, FeedbackTypeOK, WorksOnMessage, workerVars

(* Steps that leave the log processor where it is, and may add to its log. *)
LEMMA OutsideKeeps ==
  ASSUME FeedbackInv, LinesOK', BoundsTypeOK', UNCHANGED <<config, lp, command>>,
         queue' \subseteq DomainMessage,
         worker' \in {"idle", "fetch", "redirect", "ask"},
         msg' \in DomainMessage \union {NoMessage}, worker' # "idle" => msg' \in DomainMessage,
         host' \in Names \union {NoHost}, worker' = "redirect" => host' \in Names,
         hops' \in 0..MaxRedirects,
         state' \in [Names -> {"Missing", "Error", "Expired", "Current"}]
  PROVE  FeedbackInv'
<1>1. LogProcessorTypeOK'
  BY DEF FeedbackInv, FeedbackTypeOK, LogProcessorTypeOK, LinesOK
<1> QED BY <1>1 DEF LinesOK, FeedbackInv, FeedbackTypeOK, WorksOnMessage

LEMMA EnvironmentKeeps ==
  ASSUME FeedbackInv,
         (\E n \in Names : ClientAsks(n) \/ Requeue(n)) \/ LineGarbled \/ DayPasses
  PROVE  FeedbackInv'
<1>1. LinesOK /\ BoundsTypeOK /\ queue \subseteq DomainMessage
  BY DEF FeedbackInv, FeedbackTypeOK, LogProcessorTypeOK, LinesOK
<1>2. ASSUME NEW n \in Names, ClientAsks(n)
      PROVE  FeedbackInv'
  <2>1. LinesOK' /\ BoundsTypeOK'
    BY <1>1, <1>2, ResolveKeepsLines, SpendTyped DEF ClientAsks
  <2> QED BY <1>2, <2>1, OutsideKeeps
          DEF ClientAsks, workerVars, FeedbackInv, WorksOnMessage, FeedbackTypeOK, LogProcessorTypeOK
<1>3. ASSUME NEW n \in Names, Requeue(n)
      PROVE  FeedbackInv'
  <2>1. LinesOK' /\ BoundsTypeOK'
    BY <1>1, <1>3, SpendTyped DEF Requeue, sourceVars, LinesOK, ReadsFromFile, Room
  <2>2. queue' \subseteq DomainMessage
    <3>1. [domain |-> n, ip |-> FALSE] \in DomainMessage
      BY DEF DomainMessage
    <3> QED BY <1>1, <1>3, <3>1 DEF Requeue
  <2> QED BY <1>3, <2>1, <2>2, OutsideKeeps
          DEF Requeue, sourceVars, workerVars, FeedbackInv, WorksOnMessage, FeedbackTypeOK
<1>4. CASE LineGarbled
  <2>1. PICK l \in Line : Log(l)
    <3>1. (CHOOSE n \in Names : TRUE) \in Names
      BY LogProcessorAssumption
    <3> QED BY <1>4, <3>1 DEF LineGarbled, Line
  <2>2. LinesOK' /\ BoundsTypeOK'
    BY <1>1, <1>4, <2>1, LogKeepsLines, SpendTyped DEF LineGarbled
  <2> QED BY <1>4, <2>2, OutsideKeeps
          DEF LineGarbled, workerVars, FeedbackInv, WorksOnMessage, FeedbackTypeOK, LogProcessorTypeOK
<1>5. CASE DayPasses
  <2>1. LinesOK' /\ BoundsTypeOK'
    BY <1>1, <1>5, SpendTyped DEF DayPasses, lpVars, sourceVars, LinesOK, ReadsFromFile, Room
  <2>2. state' \in [Names -> {"Missing", "Error", "Expired", "Current"}]
    BY <1>5 DEF DayPasses, FeedbackInv, FeedbackTypeOK
  <2> QED BY <1>1, <1>5, <2>1, <2>2, OutsideKeeps
          DEF DayPasses, lpVars, sourceVars, FeedbackInv, WorksOnMessage, FeedbackTypeOK
<1> QED BY <1>2, <1>3, <1>4, <1>5

LEMMA WorkerKeeps ==
  ASSUME FeedbackInv, WorkerGoesOn \/ Conclusive \/ Inconclusive
  PROVE  FeedbackInv'
<1>1. /\ LinesOK /\ BoundsTypeOK /\ queue \subseteq DomainMessage
      /\ worker \in {"idle", "fetch", "redirect", "ask"}
      /\ msg \in DomainMessage \union {NoMessage} /\ WorksOnMessage
      /\ host \in Names \union {NoHost} /\ hops \in 0..MaxRedirects /\ MaxRedirects \in Nat
      /\ state \in [Names -> {"Missing", "Error", "Expired", "Current"}]
  BY RedirectAssumption DEF FeedbackInv, FeedbackTypeOK, LogProcessorTypeOK, LinesOK
<1>2. ASSUME NEW m \in queue, Take(m)
      PROVE  FeedbackInv'
  <2>1. LinesOK' /\ BoundsTypeOK'
    BY <1>1, <1>2 DEF Take, sourceVars, LinesOK, ReadsFromFile, Room, BoundsTypeOK
  <2>2. worker' \in {"idle", "fetch", "redirect", "ask"} /\ msg' \in DomainMessage \union {NoMessage}
    BY <1>1, <1>2 DEF Take
  <2>3. worker' # "idle" => msg' \in DomainMessage
    BY <1>1, <1>2 DEF Take, WorksOnMessage
  <2> QED BY <1>1, <1>2, <2>1, <2>2, <2>3, OutsideKeeps DEF Take, sourceVars
<1>3. CASE FetchDomain \/ FollowRedirect
  <2>1. /\ msg \in DomainMessage /\ UNCHANGED <<config, lp, command, queue, msg, state, used>>
        /\ worker' = "redirect"
    BY <1>1, <1>3 DEF FetchDomain, FollowRedirect, WorksOnMessage
  <2>2. /\ host' \in Names /\ hops' \in 0..MaxRedirects
        /\ UNCHANGED <<file, unread>> \/ \E n \in Names : Resolve(n)
    <3>1. CASE FetchDomain
      BY <1>1, <2>1, <3>1 DEF FetchDomain, Connect, DomainMessage
    <3>2. CASE FollowRedirect
      <4>1. host \in Names /\ Redirect[host] \in Names
        BY <1>1, <3>2, RedirectAssumption DEF FollowRedirect, WorksOnMessage
      <4> QED BY <1>1, <3>2, <4>1 DEF FollowRedirect, Connect
    <3> QED BY <1>3, <3>1, <3>2
  <2>3. LinesOK'
    BY <1>1, <2>1, <2>2, ResolveKeepsLines DEF LinesOK, ReadsFromFile, Room
  <2>4. BoundsTypeOK'
    BY <1>1, <2>1 DEF BoundsTypeOK
  <2> QED BY <1>1, <2>1, <2>2, <2>3, <2>4, OutsideKeeps
<1>5. CASE FetchEnds
  <2>1. LinesOK' /\ BoundsTypeOK'
    BY <1>1, <1>5 DEF FetchEnds, lpVars, sourceVars, LinesOK, ReadsFromFile, Room, BoundsTypeOK
  <2> QED BY <1>1, <1>5, <2>1, OutsideKeeps DEF FetchEnds, lpVars, sourceVars, WorksOnMessage
<1>4. ASSUME NEW s \in {"Current", "Expired", "Missing", "Error"}, Answer(s)
      PROVE  FeedbackInv'
  <2>1. LinesOK' /\ BoundsTypeOK'
    BY <1>1, <1>4 DEF Answer, lpVars, sourceVars, LinesOK, ReadsFromFile, Room, BoundsTypeOK
  <2>2. state' \in [Names -> {"Missing", "Error", "Expired", "Current"}]
    BY <1>1, <1>4 DEF Answer
  <2> QED BY <1>1, <1>4, <2>1, <2>2, OutsideKeeps DEF Answer, lpVars, sourceVars
<1> QED BY <1>2, <1>3, <1>4, <1>5 DEF WorkerGoesOn, Conclusive, Inconclusive

(* Types, and with them the bounds on what waits in the log: what a        *)
(* process has yet to read of a file never exceeds the file (read_lines),  *)
(* and the worker has a message for all of process_domain.                 *)
THEOREM FeedbackTypes == Spec => []FeedbackTypeOK
<1>1. FeedbackInv /\ [Next]_vars => FeedbackInv'
  <2> SUFFICES ASSUME FeedbackInv, [Next]_vars PROVE FeedbackInv'
    OBVIOUS
  <2>1. CASE UNCHANGED vars
    BY <2>1 DEF vars, lpVars, sourceVars, workerVars, FeedbackInv, FeedbackTypeOK,
                LogProcessorTypeOK, BoundsTypeOK, ReadsFromFile, WorksOnMessage, Room
  <2> QED BY <2>1, LogProcessorKeeps, EnvironmentKeeps, WorkerKeeps DEF Next
<1>2. FeedbackInv => FeedbackTypeOK
  BY DEF FeedbackInv
<1> QED BY <1>1, <1>2, FeedbackInit, PTL DEF Spec
=============================================================================
