------------------------------- MODULE MCZeroJob -------------------------------
\* Instances of ZeroJob for TLC: name 1 is an action, 2 a reusable workflow's
\* repository, 3 a name of the same account, 4 of another.
EXTENDS ZeroJob

Pinned(n, f) == [to |-> n, call |-> f, pin |-> [sha |-> TRUE, ref |-> n]]

Tree(present, uses) == [present |-> present, files |-> uses @@ NoFiles]

Trees ==
  1 :> Tree({1}, 1 :> <<Pinned(1, NoFile), Pinned(2, 1)>>)
    @@ 2 :> Tree({1, 2}, 1 :> <<Pinned(4, 1)>> @@ 2 :> <<Pinned(1, NoFile)>>)

Locks ==
  1 :> [status |-> "CoverageMismatch", bad |-> {1}]
    @@ 2 :> [status |-> "Malformed", bad |-> {}]

Valid == [status |-> "Verified", bad |-> {}]
Listing(allowed, patterns, verified) ==
  [allowed |-> allowed, list |-> [patterns |-> patterns, github |-> TRUE, verified |-> verified]]

SomePolicies ==
  {Listing("all", {}, FALSE), Listing("selected", {}, TRUE), Listing("selected", {{2}}, FALSE)}

Died(h, denoted) ==
  [conclusion |-> "startup_failure", head |-> h, file |-> 1, denoted |-> denoted, jobs |-> 0]
Ordinary(h, n) ==
  [conclusion |-> "failure", head |-> h, file |-> 1, denoted |-> {1}, jobs |-> n]

FirstRuns ==
  {1 :> Died(1, {1}) @@ 2 :> Ordinary(1, 1),
   1 :> Died(1, {1, 2}) @@ 2 :> Ordinary(2, 0),
   1 :> Died(2, {1, 2}) @@ 2 :> Ordinary(NoRev, 0)}

Homes ==
  LET all == [n \in 1..4 |-> IF n = 3 THEN NoRepo ELSE n]
  IN  {all, [all EXCEPT ![2] = 3, ![3] = 3], [all EXCEPT ![4] = NoRepo], [all EXCEPT ![1] = NoRepo]}

Start(h, runs_, p, home_, verifier, faults_, changes_) ==
  [checkout |-> [head |-> h, tree |-> h, rest |-> FALSE], runs |-> runs_,
   policy |-> p, home |-> home_, verifier |-> verifier, faults |-> faults_, changes |-> changes_]

Starts(faults_, changes_) ==
  {Start(h, r, p, m, v, faults_, changes_) :
     h \in {1, 2}, r \in FirstRuns, p \in SomePolicies, m \in Homes, v \in BOOLEAN}

SmallStarts == Starts(1, 2)
=============================================================================
