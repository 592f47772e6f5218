------------------------------ MODULE MCSystem ------------------------------
(* Instances of System for TLC. *)
EXTENDS System, TLC

MCSystemKinds ==
  {"seen", "crash", "dbfail", "late", "day", "badprompt", "outofrange",
   "classify", "pattern", "expire", "reconcile", "requeue", "rebuild", "abort"}

(* The kinds of step in f as often as it says, the others never. *)
Only(f) == f @@ [k \in MCSystemKinds |-> 0]

-----------------------------------------------------------------------------
(* Requests *)

Exact(d, t, m) == [domain |-> d, ctype |-> t, match |-> m]
Pattern(S, t, m) == [covers |-> S, ctype |-> t, match |-> m]
File(exact, patterns) == [exact |-> exact, patterns |-> patterns]
AdminSays(d, t, m, ttl) == [domain |-> d, ctype |-> t, match |-> m, ttl |-> ttl]

(* Three versions of a provisioned file: a value changes, an entry goes,   *)
(* an entry moves from exact to pattern, and one regex does not compile.   *)
ChangingFiles ==
  { File({Exact("d1", "c1", TRUE), Exact("d2", "c1", FALSE)},
         {Pattern({"d1", "d2"}, "c1", FALSE)}),
    File({Exact("d1", "c1", FALSE)},
         {Pattern({"d1", "d2"}, "c1", TRUE), Pattern({"d2"}, "all", FALSE)}),
    File({}, {Pattern({}, "c1", TRUE), Pattern({"d2"}, "all", FALSE)}) }

ChangingVerdicts == {AdminSays("d1", "c1", TRUE, 1)}
ChangingPatterns == {Pattern({"d1"}, "c1", TRUE)}

ReconcileLimit ==
  Only(("reconcile" :> 2) @@ ("classify" :> 1) @@ ("pattern" :> 1) @@ ("abort" :> 1) @@ ("day" :> 1))

ExpireLimit ==
  Only(("reconcile" :> 1) @@ ("expire" :> 2) @@ ("classify" :> 1) @@ ("pattern" :> 1) @@ ("day" :> 1))

(* Runs that are cut short, and expiries among other requests. *)
AdminLimits == {ReconcileLimit, ExpireLimit}

-----------------------------------------------------------------------------
(* A processor and two handlers at work on one domain. *)

OneVerdict == {AdminSays("d1", "all", FALSE, 1)}
OnePattern == {Pattern({"d1"}, "c1", TRUE)}

ContradictingFiles ==
  { File({Exact("d1", "c1", TRUE)}, {}), File({Exact("d1", "c1", FALSE)}, {}) }

RequeueLimit ==
  Only(("seen" :> 1) @@ ("requeue" :> 1) @@ ("expire" :> 1) @@ ("classify" :> 1)
         @@ ("abort" :> 1) @@ ("crash" :> 1))

(* A rebuild beside a processor whose calls fail. *)
RebuildFailuresLimit ==
  Only(("seen" :> 2) @@ ("rebuild" :> 1) @@ ("pattern" :> 1) @@ ("dbfail" :> 1)
         @@ ("outofrange" :> 1))

(* Reconciles of files that contradict each other, before, between and     *)
(* after the two steps of a rebuild, and of two.                           *)
RebuildRaceLimit ==
  Only(("rebuild" :> 1) @@ ("reconcile" :> 3) @@ ("expire" :> 1) @@ ("classify" :> 1) @@ ("day" :> 1))

RebuildTwiceLimit == Only(("seen" :> 1) @@ ("rebuild" :> 2) @@ ("reconcile" :> 2))

OneDomainLimits ==
  {RequeueLimit, RebuildFailuresLimit, RebuildRaceLimit, RebuildTwiceLimit}

HandlerSymmetry == Permutations(Handlers)

-----------------------------------------------------------------------------
(* The smallest instances in which the code departs from its text. *)

OneFile == {File({Exact("d1", "c1", FALSE)}, {})}

InFlightLimits == {Only(("seen" :> 1) @@ ("reconcile" :> 1))}
InterruptedLimits == {Only(("reconcile" :> 2) @@ ("abort" :> 1))}
ChangedPatternLimits == {Only("reconcile" :> 2)}
LowConfidenceLimits == {Only(("seen" :> 1) @@ ("rebuild" :> 1))}

KnownDomain == Exact("d1", "all", FALSE)
PatternFile == {File({KnownDomain}, {Pattern({"d1"}, "c1", TRUE)})}
TogglingFiles ==
  PatternFile \union {File({KnownDomain}, {Pattern({"d1"}, "c1", FALSE)})}
=============================================================================
