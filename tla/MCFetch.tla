------------------------------- MODULE MCFetch -------------------------------
\* Instances of FetchGate for TLC.
EXTENDS FetchGate, TLC

Contexts == {"build", "lint"}
Names    == {<<"build", "build">>, <<"lint", "lint">>}

Is(name, status, conclusion) ==
  [name |-> name, app |-> "actions", status |-> status, conclusion |-> conclusion]

SomeRuns ==
  {Is("build", "COMPLETED", "SUCCESS"), Is("build", "COMPLETED", "STARTUP_FAILURE"),
   Is("build", "COMPLETED", "STALE"), Is("lint", "none", "SUCCESS")}

\* What a head has when it is first seen: nothing, or any two runs.
TwoRuns == {<<>>} \cup {<<r, s>> : r, s \in SomeRuns}

ThePr ==
  {[state |-> "Open", draft |-> FALSE, mergeable |-> "Mergeable",
    mergeState |-> "BLOCKED", review |-> "none", autoMerge |-> "none",
    body |-> {}]}

Nobody    == {{}}
Signed    == {<<TRUE>>}
NoThreads == {<<>>}

AnyRuleset == {[contexts |-> cs, types |-> {}] : cs \in SUBSET Contexts}

AnyProtection ==
  {[kind |-> k, contexts |-> cs, signatures |-> FALSE] :
     k \in {"Protected", "Hidden"}, cs \in SUBSET Contexts}
   \cup {[kind |-> "NotProtected", contexts |-> {}, signatures |-> FALSE]}
=============================================================================
