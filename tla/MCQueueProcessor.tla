-------------------------- MODULE MCQueueProcessor --------------------------
(* Instances of QueueProcessor for TLC. *)
EXTENDS QueueProcessor, TLC

MCKinds == {"seen", "crash", "dbfail", "late", "day", "badprompt", "outofrange"}

(* A domain may be seen as often as there are messages. *)
Budget(crash, dbfail, late, day, badprompt, outofrange) ==
  ("seen" :> MaxMessages) @@ ("crash" :> crash) @@ ("dbfail" :> dbfail) @@ ("late" :> late) @@
  ("day" :> day) @@ ("badprompt" :> badprompt) @@ ("outofrange" :> outofrange)

(* One processor that crashes and acknowledges late. *)
RetryLimits == {Budget(1, 0, 1, 0, 0, 0)}

(* Two processors on one consumer, every failure of a database call or of  *)
(* a classifier, and a crash.                                              *)
SharedLimits == {Budget(1, 1, 0, 1, 1, 1)}

(* A verdict whose confidence is above 1, and nothing else that goes wrong. *)
OutOfRangeLimits == {Budget(0, 0, 0, 0, 0, 1)}

(* A rule that covers y1. *)
OneRule ==
  {[id |-> 0, covers |-> {"y1"}, ctype |-> "c1", match |-> TRUE, src |-> "provisioned_pattern"]}

ClassifierSymmetry == Permutations(Classifiers)
ProcessorSymmetry == Permutations(Processors)
=============================================================================
