---------------------------- MODULE LogProcessor ----------------------------
(***************************************************************************)
(* log-processor/src: the loop that reads the lines of the DNS server's    *)
(* log, from a file or from the output of a command, makes a domain and    *)
(* perhaps an address of each and publishes them.  The process ends with   *)
(* its stream, and systemd starts it again.  A line is the name it is      *)
(* about and what the three regular expressions find in it.                *)
(***************************************************************************)
EXTENDS Sequences, Bounds

CONSTANTS
  Names,         \* names in the log, in lower case
  ValidNames,    \* those is_valid_domain accepts
  Configs,       \* the command lines to consider
  MaxFile,       \* bound: lines of a log file
  MaxPipe        \* bound: lines in the pipe of a command

Config == [command : BOOLEAN,      \* the source is "cmd:...", not a path
           filtered : BOOLEAN,     \* line_filter is set
           ipPattern : BOOLEAN]    \* ip_pattern is set

(* "address": resolved, with an address that ip_pattern captures;          *)
(* "resolved": with none, as for a type of record that has none; "cached": *)
(* an answer with an address that line_filter rejects; "garbled": not      *)
(* UTF-8.                                                                  *)
Line == [name : Names, kind : {"address", "resolved", "cached", "garbled"}]

(* resolved_ip is there, or not. *)
DomainMessage == [domain : Names, ip : BOOLEAN]

ASSUME LogProcessorAssumption ==
  /\ Names # {} /\ ValidNames \subseteq Names /\ Configs \subseteq Config
  /\ MaxFile \in Nat /\ MaxPipe \in Nat

VARIABLES
  config,
  lp,        \* the log processor
  command,   \* the command that is its source
  file,      \* the lines of the file that is its source
  unread,    \* the lines the running process has yet to read
  queue      \* messages in the stream; a copy of one that is there is left out

sourceVars == <<lp, command, file, unread>>
lpVars == <<config, sourceVars, queue>>

Room == IF config.command THEN MaxPipe ELSE MaxFile

LogProcessorTypeOK ==
  /\ config \in Config
  /\ lp \in {"down", "reading"}
  /\ command \in {"none", "running", "ended"}
  /\ file \in Seq(Line) /\ Len(file) <= MaxFile
  /\ unread \in Seq(Line) /\ Len(unread) <= Room
  /\ queue \subseteq DomainMessage

LogProcessorInit ==
  /\ config \in Configs
  /\ lp = "down" /\ command = "none"
  /\ file = <<>> /\ unread = <<>>
  /\ queue = {}

(* Empty lines and lines without a domain are not in the model. *)
ParseLogLine(l) ==
  {m \in DomainMessage :
     /\ m.domain = l.name /\ l.name \in ValidNames
     /\ config.filtered => l.kind # "cached"
     /\ m.ip = (config.ipPattern /\ l.kind # "resolved")}

(* The source can still give lines. *)
IsLive == lp = "reading" /\ (config.command => command = "running")

HasRoom == Len(IF config.command THEN unread ELSE file) < Room

(* The DNS server logs a query.  A command that starts at "now" does not   *)
(* show what was logged while it did not run.                              *)
Log(l) ==
  /\ HasRoom
  /\ file' = IF config.command THEN file ELSE Append(file, l)
  /\ unread' = IF IsLive THEN Append(unread, l) ELSE unread

(* Bug: a file is read from its end on, as tail does. *)
StartAtEnd ==
  /\ lp = "down"
  /\ lp' = "reading"
  /\ command' = IF config.command THEN "running" ELSE "none"
  /\ unread' = <<>>
  /\ UNCHANGED <<config, file, queue, used>>

(* A file is read from its beginning, at every start. *)
Start ==
  /\ lp = "down"
  /\ lp' = "reading"
  /\ command' = IF config.command THEN "running" ELSE "none"
  /\ unread' = IF config.command THEN <<>> ELSE file
  /\ UNCHANGED <<config, file, queue, used>>

(* The process is gone, and with it (systemd stops the whole unit) the     *)
(* command it started.                                                     *)
Exit ==
  /\ lp' = "down"
  /\ command' = "none"
  /\ unread' = <<>>
  /\ UNCHANGED <<config, file, queue>>

ReadLine ==
  /\ lp = "reading" /\ unread # <<>> /\ Head(unread).kind # "garbled"
  /\ unread' = Tail(unread)
  /\ queue' = queue \union ParseLogLine(Head(unread))
  /\ UNCHANGED <<config, lp, command, file, used>>

(* Logged, and the line is dropped. *)
PublishFails ==
  /\ lp = "reading" /\ unread # <<>> /\ Head(unread).kind # "garbled"
  /\ ParseLogLine(Head(unread)) # {}
  /\ Spend("lost")
  /\ unread' = Tail(unread)
  /\ UNCHANGED <<config, lp, command, file, queue>>

(* Bug: only a file has an end. *)
StreamEndsOfFile ==
  /\ lp = "reading"
  /\ IF unread = <<>> THEN ~ config.command ELSE Head(unread).kind = "garbled"
  /\ Exit
  /\ UNCHANGED used

(* The end of the file or of the command's output, or a line that cannot   *)
(* be decoded: next_line's error ends the stream too.                      *)
StreamEnds ==
  /\ lp = "reading"
  /\ IF unread = <<>>
       THEN config.command => command = "ended"
       ELSE Head(unread).kind = "garbled"
  /\ Exit
  /\ UNCHANGED used

(* The command exits, or complains: its stderr is a pipe whose reading end *)
(* went with the Child that into_stream drops, so a write to it kills it.  *)
CommandEnds ==
  /\ command = "running"
  /\ command' = "ended"
  /\ UNCHANGED <<config, lp, file, unread, queue, used>>

LogProcessorCrashes ==
  /\ lp = "reading"
  /\ Spend("crash")
  /\ Exit

LogProcessorStep ==
  \/ Start \/ ReadLine \/ PublishFails \/ StreamEnds
  \/ CommandEnds \/ LogProcessorCrashes
=============================================================================
