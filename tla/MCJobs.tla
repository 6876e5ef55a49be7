--------------------------------- MODULE MCJobs ---------------------------------
\* Instances of Jobs for TLC.
EXTENDS Jobs

Do(name, when, optional) == [name |-> name, when |-> when, optional |-> optional]

Usual ==
  <<Do("setup", "success", FALSE), Do("checkout", "success", FALSE),
    Do("token", "success", TRUE), Do("scan", "success", TRUE),
    Do("stub", "success", TRUE), Do("post", "always", FALSE)>>

\* A prerequisite after the policy, and a policy that always runs.
Unusual ==
  <<Do("setup", "success", FALSE), Do("scan", "always", TRUE),
    Do("token", "success", FALSE), Do("stub", "always", FALSE)>>

\* Every step has a condition of its own.
AllOptional == <<Do("scan", "success", TRUE), Do("stub", "success", TRUE)>>

SomePrograms == {Usual, Unusual, AllOptional}

Sig(skipped, success) == [skipped |-> skipped, success |-> success]
None == Sig({}, {})

Everywhere == [operators |-> {}, channels |-> {}]
Somewhere  == [operators |-> {"solo"}, channels |-> {}]

Declared == [setup |-> {"checkout"}, prerequisite |-> {"token"}]

SomeDirectives ==
  {[phases |-> p, gate |-> g, applicability |-> a] :
     p \in {Declared, NoPhases},
     g \in {[tables |-> {Sig({"scan"}, {"stub"}), Sig({"token"}, {})}, flat |-> None],
            [tables |-> {Sig({"scan"}, {})}, flat |-> Sig({"scan", "token"}, {"stub"})],
            [tables |-> {}, flat |-> None]},
     a \in {Everywhere, Somewhere}}

SomeManifests ==
  {[operator |-> o, channel |-> Silent] : o \in {Silent, "solo", "org"}}
=============================================================================
