----------------------------- MODULE WorkflowFacts -----------------------------
(***************************************************************************)
(* What `squabble fight` reads in the workflow files of a checkout, and    *)
(* the one move it proposes for a check that is not satisfied, as          *)
(* operators.                                                              *)
(*                                                                         *)
(* A file is the facts a line scanner takes from its text; `body` stands   *)
(* for the rest of the text.                                               *)
(*                                                                         *)
(* Sources: crates/squabble-fight/src/workflows.rs (facts, classification),*)
(* crates/squabble-fight/src/apply.rs (the strip), and                     *)
(* crates/squabble-core/src/moves.rs and lib.rs (the moves).               *)
(***************************************************************************)
EXTENDS Startup, Gate

CONSTANTS
  Slug,        \* the repository of the pull request
  Context,     \* names of checks; the gate lists them in ascending order
  LicenceLike  \* those that speak of licences

ASSUME ContextAssumption ==
  Slug \in Repo /\ Context \subseteq Nat \ {0} /\ LicenceLike \subseteq Context

Kind == {"Hygiene", "CodeBuild", "Security", "Proof", "Other"}

\* How an event of a workflow is filtered by paths; "off": not a trigger.
Trigger == {"off", "every", "paths", "ignored"}

NoTitle == 0

\* A call of a reusable workflow of the same checkout, `./.github/workflows/x`.
LocalCall == [local |-> TRUE]

\* The owner that a local call is read as: its first two segments, `./.github`.
LocalName == 0 - 1

\* `title` is the workflow's name, `jobs` the ids and names below `jobs:`.
Info ==
  [title : Context \cup {NoTitle}, jobs : SUBSET Context,
   pull : Trigger, push : Trigger, uses : Seq(Use \cup {LocalCall}),
   retired : BOOLEAN, empty : BOOLEAN, kind : Kind, body : Nat]

Emits(w, check) == check \in w.jobs \/ w.title = check

PathFiltered(w) == "paths" \in {w.pull, w.push}

\* Local calls are no external references.
ExternalUses(w) == SelectSeq(w.uses, LAMBDA u : u # LocalCall)

TagPinned(w) ==
  {u \in {ExternalUses(w)[i] : i \in DOMAIN ExternalUses(w)} : ~u.pin.sha}

ReusableRepo(u) == IF u = LocalCall THEN LocalName ELSE u.to

IsReusable(u) == u = LocalCall \/ u.call # NoFile

\* The first in a sequence that passes a test, or a default.
FirstOf(seq, Test(_), none) ==
  LET hits == {i \in DOMAIN seq : Test(seq[i])}
  IN  IF hits = {} THEN none ELSE seq[CHOOSE i \in hits : \A j \in hits : i <= j]

\* The files as they were read: the first that emits a check, in their order.
FindEmitting(facts, check) ==
  LET hits == {f \in DOMAIN facts : Emits(facts[f], check)}
  IN  IF hits = {} THEN NoFile ELSE CHOOSE f \in hits : \A g \in hits : f <= g

\* Every `paths:` before `jobs:` goes, `paths-ignore:` and the rest stay.
RemoveOnPaths(w) ==
  LET Unfiltered(t) == IF t = "paths" THEN "every" ELSE t
  IN  [w EXCEPT !.pull = Unfiltered(@), !.push = Unfiltered(@)]

-----------------------------------------------------------------------------
(***************************************************************************)
(* The Actions posture.                                                    *)
(***************************************************************************)
Posture ==
  [allowed : {"all", "local_only", "selected"}, list : AllowList, pinning : BOOLEAN]

\* The probe was not triggered, or it failed.
NoPosture == [none |-> TRUE]

NameOf(u) == IF u = NoUse THEN NoRepo ELSE u.to

\* The first reference that a `selected` posture does not cover.
FirstUncovered(posture, w) ==
  IF posture.allowed # "selected" THEN NoRepo
  ELSE NameOf(FirstOf(ExternalUses(w), LAMBDA u : ~Covers(posture.list, u.to), NoUse))

-----------------------------------------------------------------------------
(***************************************************************************)
(* Moves.  An assignment or an escalation is a hand-off.                   *)
(***************************************************************************)
AssignUpstream(check, repo) ==
  [move |-> "AssignGateOwner", check |-> check, owner |-> repo, why |-> "OwnedUpstream"]
Escalate(check, group) == [move |-> "EscalateToExpert", check |-> check, group |-> group]
GroundTruth(file)      == [move |-> "GroundTruthCheckNames", workflow |-> file]
Inject(check, file) ==
  [move |-> "InjectPathFilterPassThrough", check |-> check, workflow |-> file]
NonFunctional(check, file) ==
  [move |-> "FlagNonFunctionalGate", check |-> check, workflow |-> file]

\* Why a run was refused at startup: the allow-list first, then the pins.
PolicyMove(posture, file, w) ==
  LET blocked == FirstUncovered(posture, w)
  IN  CASE blocked # NoRepo /\ posture.list.patterns = {} -> [move |-> "SetActionsAllowedAll"]
        [] blocked # NoRepo /\ posture.list.patterns # {} ->
             [move |-> "ReconcileActionsPolicy", blocked |-> blocked]
        [] blocked = NoRepo /\ posture.pinning /\ TagPinned(w) # {} ->
             [move |-> "PinWorkflowActions", workflow |-> file, refs |-> TagPinned(w)]
        [] OTHER -> NoMove

ExpertFor(kind) ==
  CASE kind = "CodeBuild" -> "HypatiaFleet"
    [] kind = "Security"  -> "Security"
    [] kind = "Proof"     -> "Proof"

\* The first repository of a reusable workflow that is not this one.
UpstreamOwner(w) ==
  LET calls == SelectSeq(w.uses, IsReusable)
      u     == FirstOf(calls, LAMBDA c : ReusableRepo(c) # Slug, NoUse)
  IN  IF u = NoUse THEN NoRepo ELSE ReusableRepo(u)

\* Without the posture: a gate that cannot work, an owner elsewhere, a check that
\* its own filter strands, the squabbler's lane, an expert's.
WorkflowMove(check, run, file, w) ==
  IF w.retired \/ w.empty THEN NonFunctional(check, file)
  ELSE IF UpstreamOwner(w) # NoRepo THEN AssignUpstream(check, UpstreamOwner(w))
  ELSE IF PathFiltered(w) /\ run = "Missing" THEN Inject(check, file)
  ELSE IF w.kind = "Hygiene" THEN GroundTruth(file)
  ELSE IF w.kind = "Other" THEN NoMove
  ELSE Escalate(check, ExpertFor(w.kind))

ClassifyWithPolicy(facts, check, run, posture, refused) ==
  LET file   == FindEmitting(facts, check)
      policy == IF refused /\ posture # NoPosture
                  THEN PolicyMove(posture, file, facts[file]) ELSE NoMove
  IN  IF file = NoFile THEN NoMove
      ELSE IF policy # NoMove THEN policy
      ELSE WorkflowMove(check, run, file, facts[file])

\* By the name alone.
ProposeFor(check) ==
  IF check \in LicenceLike
    THEN [move |-> "LicencePolicyDrift", check |-> check]
    ELSE GroundTruth(NoFile)

\* One move per check that is not satisfied: the workflow's, or the name's.
DiagnoseWithHints(gate, hints) ==
  [c \in Unsatisfied(gate) |-> IF hints[c] # NoMove THEN hints[c] ELSE ProposeFor(c)]
=============================================================================
