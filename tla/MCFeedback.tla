------------------------------ MODULE MCFeedback ------------------------------
(* Instances of Feedback for TLC. *)
EXTENDS Feedback, TLC

MCKinds == {"crash", "lost", "garbled", "query", "requeue", "day"}

Limit(crash, lost, garbled, query, requeue, day) ==
  ("crash" :> crash) @@ ("lost" :> lost) @@ ("garbled" :> garbled) @@
  ("query" :> query) @@ ("requeue" :> requeue) @@ ("day" :> day)

(* A client asks for one name; and a day goes by, an errored domain is     *)
(* requeued, the log processor crashes and a line is garbled, or a         *)
(* publication is lost.                                                    *)
FeedbackLimits ==
  { Limit(0, 0, 0, 1, 0, 1), Limit(0, 0, 0, 1, 1, 0),
    Limit(1, 0, 1, 1, 0, 0), Limit(0, 1, 0, 1, 0, 0) }

(* A file, and a command with and without an ip_pattern. *)
MCConfigs ==
  {[command |-> c, filtered |-> TRUE, ipPattern |-> i] : c \in BOOLEAN, i \in BOOLEAN}
    \ {[command |-> FALSE, filtered |-> TRUE, ipPattern |-> FALSE]}

(* The hosts a and b redirect to each other, c does not.  The clients also *)
(* ask for a name that is no domain.                                       *)
Mutual == ("a" :> "b") @@ ("b" :> "a") @@ ("c" :> "c") @@ ("local" :> "local")
=============================================================================
