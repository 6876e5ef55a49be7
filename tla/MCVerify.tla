------------------------------ MODULE MCVerify ------------------------------
\* Instances of VerifySatisfied for TLC.
EXTENDS VerifySatisfied, TLC

Contexts == {"build", "build-all"}
Bots     == {"coderabbitai"}
Names    == {<<"build", "build">>, <<"build-all", "build-all">>,
             <<"build", "build-all">>}

Is(name, app, status, conclusion) ==
  [name |-> name, app |-> app, status |-> status, conclusion |-> conclusion]

Passed(name)  == Is(name, "actions", "COMPLETED", "SUCCESS")
Red(name)     == Is(name, "actions", "COMPLETED", "FAILURE")
Odd(name)     == Is(name, "actions", "COMPLETED", "ACTION_REQUIRED")
Running(name) == Is(name, "actions", "IN_PROGRESS", "none")
BotWaits      == Is("build-all", "coderabbitai", "none", "PENDING")
BotSkips      == Is("build-all", "coderabbitai", "COMPLETED", "NEUTRAL")

\* An armed pull request with nothing against it, and variations of it.
Armed ==
  [state |-> "Open", draft |-> FALSE, mergeable |-> "Mergeable",
   mergeState |-> "BLOCKED", review |-> "none", autoMerge |-> "SQUASH",
   body |-> {}]

Line(name, linked) == [names |-> {name}, linked |-> linked]

Acking    == {Armed, [Armed EXCEPT !.body = {Line("build-all", TRUE)}]}
Landing   == {Armed, [Armed EXCEPT !.state = "Merged"]}
Moving    == Landing \cup Acking \cup
  {[Armed EXCEPT !.autoMerge = "none"], [Armed EXCEPT !.draft = TRUE],
   [Armed EXCEPT !.review = "CHANGES_REQUESTED", !.mergeable = "Conflicting"]}
Nobody    == {{}}
TwoRuns   == {Passed("build"), Red("build"), Red("build-all")}
SomeRuns  == TwoRuns \cup {Odd("build"), Running("build"), BotSkips, BotWaits}

Two       == {<<>>, <<Passed("build"), Red("build")>>,
              <<Passed("build"), Red("build-all")>>}
Signed    == {<<TRUE>>}
SomeSigned == {<<TRUE>>, <<TRUE, FALSE>>}
NoThreads == {<<>>}
SomeThreads == {<<>>, <<TRUE, FALSE>>}
Unruled   == {[contexts |-> {}, types |-> {}]}
Ruled     == {[contexts |-> {"build"}, types |-> {"required_status_checks"}]}
BothRules == Unruled \cup Ruled
Unprotected == [kind |-> "NotProtected", contexts |-> {}, signatures |-> FALSE]
Hides(p)    == [p EXCEPT !.kind = "Hidden"]
Protects(cs, signs) ==
  [kind |-> "Protected", contexts |-> cs, signatures |-> signs]

AllClassic == {Unprotected, Protects({"build-all"}, TRUE),
               Hides(Protects({"build"}, FALSE))}
=============================================================================
