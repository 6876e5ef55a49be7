------------------------------- MODULE FightPlan -------------------------------
(***************************************************************************)
(* The plan of `squabble fight`, as operators: every check that is not     *)
(* satisfied goes to one of three sections of a report (a move of its own, *)
(* an expert, an owner), and a structural scan adds what the tree shows.   *)
(*                                                                         *)
(* Sources: crates/squabble-fight/src/lib.rs (plan_with_policy,            *)
(* structural_scan) and crates/squabble-core/src/outcome.rs.               *)
(***************************************************************************)
EXTENDS WorkflowFacts, SequencesExt

CONSTANTS
  WellKnownLike,  \* checks named after .well-known
  GateLike        \* files that look like a compliance gate

\* Names that the scan gives to what is no check of the gate.
WellKnownGate   == 0 - 1
ContainerBuild  == 0 - 2
RepoPermissions == 0 - 3
ShaPinning      == 0 - 4
FileCheck(f)    == 0 - 10 - f

Recipe == {"Containerfile", "Dockerfile"}

\* A checkout: its workflow files, whether a .well-known file is missing, and the
\* container recipes with a banned licence.
Tree == [present : SUBSET File, files : [File -> Info], missing : BOOLEAN,
         agpl : SUBSET Recipe]

\* The descriptiles, with the repository they coordinate with, if any.
RepoContext == [found : BOOLEAN, owner : Repo \cup {NoRepo}]

\* Ascending: the i-th has i - 1 smaller ones (SetToSortSeq(set, <), whose length
\* no prover knows).
InOrder(set) ==
  [i \in 1..Cardinality(set) |->
     CHOOSE x \in set : Cardinality({y \in set : y < x}) = i - 1]

SetOf(seq) == {seq[i] : i \in DOMAIN seq}

-----------------------------------------------------------------------------
Escalation(check, group) == [check |-> check, group |-> group, evidence |-> <<>>]
Assignment(check, owner, why, subject) ==
  [check |-> check, owner |-> owner, why |-> why, subject |-> subject]

\* The blocker line of a check: which section answers it.
Section(m) ==
  CASE m.move = "EscalateToExpert" -> "expert"
    [] m.move = "AssignGateOwner"  -> "owner"
    [] OTHER                       -> "own"

Blocker(check, what) == [check |-> check, what |-> what]

\* The moves of one section, in the order of the gate.
InSection(proposed, section) ==
  LET checks == InOrder({c \in DOMAIN proposed : Section(proposed[c]) = section})
  IN  [i \in DOMAIN checks |-> proposed[checks[i]]]

-----------------------------------------------------------------------------
(***************************************************************************)
(* The structural scan.                                                    *)
(***************************************************************************)
MissingWellKnown(unsatisfied, tree) ==
  IF unsatisfied \cap WellKnownLike # {} /\ tree.missing
    THEN <<Escalation(WellKnownGate, "HypatiaFleet")>> ELSE <<>>

TitleOf(f, w) == IF w.title = NoTitle THEN FileCheck(f) ELSE w.title

\* Mutant: the filters that the squabbler strips itself are assigned too.
AllTraps(facts, won) == {f \in DOMAIN facts : PathFiltered(facts[f]) /\ f \in GateLike}

\* Filtered files that look like gates, but those it strips itself; of two with
\* one name the first.
PathTraps(facts, won) ==
  LET traps == {f \in DOMAIN facts \ won : PathFiltered(facts[f]) /\ f \in GateLike}
  IN  {f \in traps : \A g \in traps :
         g < f => TitleOf(g, facts[g]) # TitleOf(f, facts[f])}

TrapAssignments(facts, won, owner) ==
  LET traps == InOrder(PathTraps(facts, won))
  IN  [i \in DOMAIN traps |->
         Assignment(TitleOf(traps[i], facts[traps[i]]), owner, "PathTrap", {traps[i]})]

Licences(tree) ==
  LET Licence(r) == IF r \in tree.agpl
                      THEN <<Assignment(ContainerBuild, Slug, "Licence", r)>> ELSE <<>>
  IN  Licence("Containerfile") \o Licence("Dockerfile")

\* What the posture will refuse, before any run is refused.
LatentPolicy(facts, posture) ==
  IF posture = NoPosture THEN <<>>
  ELSE LET uncovered == {FirstUncovered(posture, facts[f]) : f \in DOMAIN facts} \ {NoRepo}
           pinned    == {f \in DOMAIN facts : TagPinned(facts[f]) # {}}
       IN  (IF uncovered = {} THEN <<>>
              ELSE <<Assignment(RepoPermissions, Slug, "Uncovered", uncovered)>>)
           \o (IF ~posture.pinning \/ pinned = {} THEN <<>>
                 ELSE <<Assignment(ShaPinning, Slug, "TagPinned", pinned)>>)

-----------------------------------------------------------------------------
\* The report of a plan.  Nothing is applied, and no expert was asked.
Plan(gate, facts, tree, context, posture, refused) ==
  LET hints    == [c \in Unsatisfied(gate) |->
                     ClassifyWithPolicy(facts, c, gate[c], posture, c \in refused)]
      proposed == DiagnoseWithHints(gate, hints)
      moves    == InSection(proposed, "own")
      experts  == InSection(proposed, "expert")
      owners   == InSection(proposed, "owner")
      won      == {m.workflow : m \in {n \in SetOf(moves) :
                                         n.move = "InjectPathFilterPassThrough"}}
      trapOwner == IF context.owner # NoRepo THEN context.owner ELSE Slug
  IN  [moves       |-> moves,
       escalations |-> [i \in DOMAIN experts |-> Escalation(experts[i].check, experts[i].group)]
                         \o MissingWellKnown(Unsatisfied(gate), tree),
       assignments |-> [i \in DOMAIN owners |->
                          Assignment(owners[i].check, owners[i].owner, "OwnedUpstream", {})]
                         \o TrapAssignments(facts, won, trapOwner)
                         \o Licences(tree) \o LatentPolicy(facts, posture),
       verdicts    |-> <<>>,
       applied     |-> <<>>,
       blockers    |-> {Blocker(c, Section(proposed[c])) : c \in Unsatisfied(gate)}
                         \cup (IF ~context.found /\ DOMAIN facts = {}
                                 THEN {Blocker(0, "ungrounded")} ELSE {})]
=============================================================================
