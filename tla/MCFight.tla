--------------------------------- MODULE MCFight ---------------------------------
(***************************************************************************)
(* Two workflow files, five checks.  The situations between them reach     *)
(* every rule of the classification, both shapes of a refused start, a     *)
(* move applied twice to one file, and experts of three groups.            *)
(***************************************************************************)
EXTENDS Fight

MCRepo == {1, 2, 3}     \* this one, an upstream, a marketplace action
MCFile == {1, 2}
MCSlug == 1
MCContext == 1..5
MCLicenceLike == {5}
MCWellKnownLike == {4}
MCGateLike == {1, 2}
MCGithubOwned == {}

Sha == [sha |-> TRUE, ref |-> 1]
Tag == [sha |-> FALSE, ref |-> 1]
Action(n, pin)   == [to |-> n, call |-> NoFile, pin |-> pin]
Reusable(n, pin) == [to |-> n, call |-> 1, pin |-> pin]

W == [title |-> NoTitle, jobs |-> {}, pull |-> "every", push |-> "every", uses |-> <<>>,
      retired |-> FALSE, empty |-> FALSE, kind |-> "Other", body |-> 0]

\* Somebody edits the rest of a file, or its filter.
MCEdits(t) == {t, IF t = "paths" THEN "every" ELSE "paths"}

TwoFiles(one, two) ==
  [present |-> {1, 2}, files |-> [f \in MCFile |-> IF f = 1 THEN one ELSE two],
   missing |-> FALSE, agpl |-> {}]

NoContext == [found |-> FALSE, owner |-> NoRepo]
Coordinated == [found |-> TRUE, owner |-> 2]

Start ==
  [gate |-> (1 :> "Failed"), refused |-> {}, posture |-> NoPosture, greens |-> <<>>,
   vacuous |-> {}, directive |-> FALSE, tree |-> TwoFiles(W, W), context |-> NoContext,
   rooted |-> TRUE, apply |-> FALSE, summon |-> FALSE, boj |-> TRUE,
   changes |-> 0, faults |-> 0]

\* Two missing checks of one filtered file, a third of another file.
Stranded ==
  {[Start EXCEPT
      !.gate = (1 :> "Missing" @@ 2 :> "Missing" @@ 3 :> "Missing"),
      !.tree = TwoFiles([W EXCEPT !.jobs = {1, 2}, !.title = 1, !.pull = "paths"],
                      [W EXCEPT !.jobs = {3}, !.push = "paths", !.pull = p, !.kind = "Hygiene"]),
      !.context = c, !.apply = a, !.changes = 2, !.faults = 2]
     : c \in {NoContext, Coordinated}, a \in BOOLEAN, p \in {"every", "ignored"}}

\* The root of the checkout does not exist.
Nowhere(s) ==
  [s EXCEPT !.rooted = FALSE, !.directive = FALSE, !.tree.present = {}, !.tree.agpl = {}]

\* A failed build, a failed scan, a failed proof, vacuous greens.
Handed ==
  {[Start EXCEPT
      !.gate = (1 :> "Failed" @@ 2 :> "Passed" @@ 3 :> "Skipped" @@ 4 :> r),
      !.tree = [TwoFiles([W EXCEPT !.jobs = {1}, !.kind = k, !.pull = "paths"],
                       [W EXCEPT !.jobs = {4}, !.kind = "Security"])
                EXCEPT !.missing = TRUE, !.agpl = g],
      !.greens = <<2, 3>>, !.vacuous = {2}, !.directive = d,
      !.summon = TRUE, !.boj = b, !.apply = TRUE, !.changes = 1, !.faults = 3]
     : r \in {"Failed", "Pending"}, k \in {"CodeBuild", "Proof", "Other"}, d \in BOOLEAN,
       g \in {{}, Recipe}, b \in BOOLEAN}

\* Checks that refused to start, and what the posture says.
Refused ==
  {[Start EXCEPT
      !.gate = (1 :> "Failed" @@ 2 :> m @@ 5 :> "Missing"),
      !.refused = {1}, !.posture = p, !.summon = TRUE,
      !.tree = TwoFiles([W EXCEPT !.jobs = {1}, !.uses = u, !.kind = "Security"],
                      [W EXCEPT !.title = 2, !.pull = "paths", !.uses = <<Reusable(1, Sha)>>,
                                !.retired = t]),
      !.apply = TRUE, !.changes = 1, !.faults = 1]
     : m \in {"Missing", "Failed"}, t \in BOOLEAN,
       u \in {<<>>, <<Action(3, Tag)>>, <<Action(2, Sha), Reusable(3, Sha)>>},
       p \in {NoPosture} \cup
             [allowed : {"all", "selected"}, pinning : BOOLEAN,
              list : [patterns : {{}, {{2}}}, github : {FALSE}, verified : {FALSE}]]}

\* Nothing is required of this gate, or nothing is red.
Quiet ==
  {[Start EXCEPT !.gate = (1 :> "Passed"), !.greens = <<1>>, !.vacuous = v,
                 !.directive = TRUE, !.summon = TRUE, !.faults = 1] : v \in {{}, {1}}}

MCSituations ==
  Stranded \cup Handed \cup {Nowhere(s) : s \in Handed}
           \cup Refused \cup Quiet

\* A workflow that calls a reusable workflow of its own checkout.
MCLocalSituations ==
  {[Start EXCEPT !.tree = TwoFiles([W EXCEPT !.jobs = {1}, !.uses = <<LocalCall>>], W)]}
=============================================================================
