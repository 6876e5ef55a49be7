-------------------------------- MODULE JobSteps --------------------------------
(***************************************************************************)
(* What the steps of one job say, as operators: whether a job that         *)
(* concluded success did its work (polarity), and where a job stopped      *)
(* (execution phase).                                                      *)
(*                                                                         *)
(* Sources: crates/squabble-core/src/polarity.rs,                          *)
(* crates/squabble-core/src/execution.rs; the directives they read:        *)
(* crates/squabble-fight/src/gate_triage.rs and execution.rs.              *)
(***************************************************************************)
EXTENDS Gate, Sequences, FiniteSets

CONSTANTS
  StepName,  \* names of steps
  SetupJob,  \* the step GitHub puts first
  PostJob    \* the steps GitHub puts last

ASSUME StepAssumption == SetupJob \in StepName /\ PostJob \subseteq StepName \ {SetupJob}

StepConclusion == {"Success", "Skipped", "Failure", "Cancelled", "Other"}

StepOutcome == [name : StepName, conclusion : StepConclusion]

Concluded(steps, name, conclusion) ==
  \E i \in DOMAIN steps : steps[i] = [name |-> name, conclusion |-> conclusion]

-----------------------------------------------------------------------------
(***************************************************************************)
(* Polarity: is a green vacuous?                                           *)
(***************************************************************************)
\* A scanner's fingerprint: the work did not run, and something wrote a stub.
Signature == [skipped : SUBSET StepName, success : SUBSET StepName]

Usable(signature) == signature.skipped # {} /\ signature.success # {}

\* Mutant: the skipped half is enough.
MatchesSkipped(signature, steps) ==
  signature.skipped # {} /\ \A n \in signature.skipped : Concluded(steps, n, "Skipped")

\* Both halves, in full.
Matches(signature, steps) ==
  /\ Usable(signature)
  /\ \A n \in signature.skipped : Concluded(steps, n, "Skipped")
  /\ \A n \in signature.success : Concluded(steps, n, "Success")

\* The table of all scanners: one usable entry makes it usable, one match a match.
SetUsable(signatures) == \E s \in signatures : Usable(s)
SetMatches(signatures, steps) == \E s \in signatures : Matches(s, steps)

\* The directive: a table per scanner, or the flat keys of older directives,
\* which count only when no table is usable.
Directive == [tables : SUBSET Signature, flat : Signature]

ParseSignatures(directive) ==
  LET usable == {s \in directive.tables : Usable(s)}
  IN  IF usable # {} THEN usable
      ELSE IF Usable(directive.flat) THEN {directive.flat} ELSE {}

Silent == "silent"

\* Where a gate applies (empty: undeclared), and what a repository says of itself.
Contradicts(declared, applies) == declared # Silent /\ applies # {} /\ declared \notin applies

NotApplicable(applicability, declared) ==
  \/ Contradicts(declared.operator, applicability.operators)
  \/ Contradicts(declared.channel, applicability.channels)

AllSkipped(steps) == \A i \in DOMAIN steps : steps[i].conclusion = "Skipped"

\* A cause only for a job with steps whose gate applies.
Polarity(steps, signatures, applicability, declared) ==
  CASE NotApplicable(applicability, declared) -> "NotApplicable"
    [] ~NotApplicable(applicability, declared) /\ steps # <<>> /\ SetMatches(signatures, steps) ->
         "StubbedAfterSkippedScan"
    [] ~NotApplicable(applicability, declared) /\ steps # <<>> /\ ~SetMatches(signatures, steps)
         /\ AllSkipped(steps) -> "AllStepsSkipped"
    [] OTHER -> "Genuine"

Vacuous(verdict) == verdict \in {"StubbedAfterSkippedScan", "AllStepsSkipped"}

-----------------------------------------------------------------------------
(***************************************************************************)
(* Phase: where did the job stop?  A host declares `setup` and             *)
(* `prerequisite` steps; without a directive there are none.               *)
(***************************************************************************)
Phases == [setup : SUBSET StepName, prerequisite : SUBSET StepName]

NoPhases == [setup |-> {}, prerequisite |-> {}]

IsSetup(phases, name)        == name = SetupJob \/ name \in phases.setup
IsPrerequisite(phases, name) == name \in phases.prerequisite
IsPost(name)                 == name \in PostJob

IsPolicy(phases, name) ==
  ~IsSetup(phases, name) /\ ~IsPrerequisite(phases, name) /\ ~IsPost(name)

With(steps, conclusion, Kind(_)) ==
  {i \in DOMAIN steps : steps[i].conclusion = conclusion /\ Kind(steps[i].name)}

First(steps, set) == steps[CHOOSE i \in set : \A j \in set : i <= j].name
Last(steps, set)  == steps[CHOOSE i \in set : \A j \in set : j <= i].name

ClassOf(class, step) == [class |-> class, step |-> step]
NoStep == "none"
NotStarted == ClassOf("NotStarted", NoStep)
Unclassified(reason) == [class |-> "Unclassified", step |-> NoStep, reason |-> reason]

\* Mutant: what did not fail was verified by any step that succeeded.
VerifiedByAny(phases, steps) ==
  With(steps, "Success", LAMBDA n : TRUE)

\* The policy steps that succeeded.
Witnesses(phases, steps) ==
  With(steps, "Success", LAMBDA n : IsPolicy(phases, n))

\* Failures first: setup, then prerequisites, then the policy, wherever they
\* are; a success must be seen.
ClassifyConcluded(job, steps, phases) ==
  LET setup    == With(steps, "Failure", LAMBDA n : IsSetup(phases, n))
      required == With(steps, "Failure", LAMBDA n : IsPrerequisite(phases, n))
      policy   == With(steps, "Failure", LAMBDA n : IsPolicy(phases, n))
      any      == With(steps, "Failure", LAMBDA n : TRUE)
      passed   == Witnesses(phases, steps)
  IN  IF setup # {} THEN ClassOf("PreflightFailed", First(steps, setup))
      ELSE IF required # {} THEN ClassOf("PrerequisiteMissing", First(steps, required))
      ELSE IF policy # {} THEN ClassOf("PolicyStepFailed", First(steps, policy))
      ELSE IF any # {} THEN Unclassified("FailureOutsidePolicyStep")
      ELSE IF job # "Passed" THEN Unclassified("NoFailingStep")
      ELSE IF passed # {} THEN ClassOf("Verified", Last(steps, passed))
      ELSE Unclassified("NoSuccessfulStep")

\* `job` is the job's run, Missing if there is none.
Classify(job, steps, phases) ==
  CASE job = "Missing" -> NotStarted
    [] job = "Pending" -> Unclassified("NotConcluded")
    [] job \notin {"Missing", "Pending"} /\ steps = <<>> -> Unclassified("NoStepEvidence")
    [] OTHER -> ClassifyConcluded(job, steps, phases)

=============================================================================
