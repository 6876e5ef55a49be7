---------------------------------- MODULE Jobs ----------------------------------
(***************************************************************************)
(* A job on a runner, and the two readers of its steps: `squabble phase`   *)
(* on a saved payload, and `squabble fight` on a green check.  The runner  *)
(* goes through the steps as Actions does (external); a reader may come at *)
(* any moment, and its payload may be without steps.                       *)
(*                                                                         *)
(* Sources: crates/squabble-cli/src/phase.rs (run, parse_job),             *)
(* crates/squabble-cli/src/fight.rs (classify_greens),                     *)
(* crates/squabble-cli/src/fetch.rs (fetch_step_outcomes).                 *)
(***************************************************************************)
EXTENDS JobSteps, Integers

CONSTANTS
  Programs,     \* jobs: sequences of Step
  Directives,   \* what a checkout declares
  Manifests     \* what a repository says of itself

\* `when` is the condition on what came before; an `optional` step has one of
\* its own that may not hold.
Step == [name : StepName, when : {"success", "always"}, optional : BOOLEAN]

Applicability == [operators : SUBSET STRING, channels : SUBSET STRING]

ASSUME JobAssumption ==
  /\ \A p \in Programs :
       /\ p \in Seq(Step)
       /\ \A i, j \in DOMAIN p : p[i].name = p[j].name => i = j
  /\ \A d \in Directives :
       /\ d.phases \in Phases /\ d.gate \in Directive
       /\ d.applicability \in Applicability

VARIABLES
  program,     \* what the job is to do
  status, conclusion,   \* of the job; status "absent": no job
  steps,       \* as the jobs API lists them
  cancelled,
  directive, manifest,
  phase,       \* what `phase` says, and whether it was said
  green        \* what `fight` says of the green

runner == <<program, status, conclusion, steps, cancelled>>
vars   == <<runner, directive, manifest, phase, green>>

Unsaid == "unsaid"

Init ==
  /\ program \in Programs /\ directive \in Directives /\ manifest \in Manifests
  /\ status = "absent" /\ conclusion = "none" /\ steps = <<>> /\ cancelled = FALSE
  /\ phase = [class |-> Unsaid] /\ green = Unsaid

-----------------------------------------------------------------------------
(***************************************************************************)
(* The runner.                                                             *)
(***************************************************************************)
Queue ==
  /\ status = "absent" /\ status' = "QUEUED"
  /\ UNCHANGED <<program, conclusion, steps, cancelled>>

Start ==
  /\ status = "QUEUED" /\ status' = "IN_PROGRESS"
  /\ steps' = [i \in DOMAIN program |-> [name |-> program[i].name, conclusion |-> "Other"]]
  /\ UNCHANGED <<program, conclusion, cancelled>>

Open == {i \in DOMAIN steps : steps[i].conclusion = "Other"}
Current == CHOOSE i \in Open : \A j \in Open : i <= j

Broken == \E i \in DOMAIN steps : steps[i].conclusion = "Failure"

Runs(step) == step.when = "always" \/ ~(Broken \/ cancelled)

RunStep ==
  /\ status = "IN_PROGRESS" /\ Open # {}
  /\ LET step == program[Current] IN
     \E c \in (IF Runs(step) THEN {"Success", "Failure"} ELSE {"Skipped"})
                \cup (IF step.optional THEN {"Skipped"} ELSE {}) :
       steps' = [steps EXCEPT ![Current].conclusion = c]
  /\ UNCHANGED <<program, status, conclusion, cancelled>>

Cancel ==
  /\ status = "IN_PROGRESS" /\ Open # {} /\ ~cancelled
  /\ cancelled' = TRUE
  /\ steps' = [steps EXCEPT ![Current].conclusion = "Cancelled"]
  /\ UNCHANGED <<program, status, conclusion>>

\* The runner is lost: the rest has no conclusion.
Lose ==
  /\ status = "IN_PROGRESS" /\ Open # {}
  /\ status' = "COMPLETED" /\ conclusion' = "FAILURE"
  /\ UNCHANGED <<program, steps, cancelled>>

Complete ==
  /\ status = "IN_PROGRESS" /\ Open = {}
  /\ status' = "COMPLETED"
  /\ conclusion' = IF cancelled THEN "CANCELLED" ELSE IF Broken THEN "FAILURE" ELSE "SUCCESS"
  /\ UNCHANGED <<program, steps, cancelled>>

Runner ==
  /\ Queue \/ Start \/ RunStep \/ Cancel \/ Lose \/ Complete
  /\ UNCHANGED <<directive, manifest, phase, green>>

-----------------------------------------------------------------------------
(***************************************************************************)
(* The readers.                                                            *)
(***************************************************************************)
\* What a payload says of the job; an empty payload: no job.
JobOf == IF status = "absent" THEN "Missing" ELSE FromGithub(status, conclusion)

\* A payload of the jobs API lists the steps, or none.
Payloads == {steps, <<>>}

\* The payload is saved, then classified.
ReadPhase ==
  /\ phase.class = Unsaid
  /\ \E listed \in Payloads :
       phase' = Classify(JobOf, listed, directive.phases)
  /\ UNCHANGED <<runner, directive, manifest, green>>

\* A green check is inspected when the directive knows a scanner; a failed
\* request and an empty list are not judged.
InspectGreen ==
  /\ green = Unsaid /\ conclusion = "SUCCESS"
  /\ LET signatures == ParseSignatures(directive.gate) IN
     \/ ~SetUsable(signatures) /\ green' = "NotInspected"
     \/ SetUsable(signatures) /\ \E listed \in Payloads :
          green' = IF listed = <<>> THEN "NotInspected"
                   ELSE Polarity(listed, signatures, directive.applicability, manifest)
  /\ UNCHANGED <<runner, directive, manifest, phase>>

Done == status = "COMPLETED" /\ phase.class # Unsaid /\ UNCHANGED vars

Next == Runner \/ ReadPhase \/ InspectGreen \/ Done

Spec == Init /\ [][Next]_vars
-----------------------------------------------------------------------------
(***************************************************************************)
(* Properties.                                                             *)
(***************************************************************************)
Ran(i) == i \in DOMAIN steps /\ steps[i].conclusion \in {"Success", "Failure"}

Position(name) == CHOOSE i \in DOMAIN program : program[i].name = name

Policies == {i \in DOMAIN program : IsPolicy(directive.phases, program[i].name)}

Before == {i \in DOMAIN program : \/ IsSetup(directive.phases, program[i].name)
                                  \/ IsPrerequisite(directive.phases, program[i].name)}

\* The declared steps come first, and the policy needs them.
Ordered ==
  \A i \in Policies : program[i].when = "success" /\ \A j \in Before : j < i

\* What is said of a job is true of the job that was run, and stays true: a
\* class is given to a finished job only, setup or prerequisites are blamed only
\* if they failed and, where the policy comes after them, it never ran; the
\* policy is blamed only if it was reached with all of them done; verified means
\* that a policy step ran and nothing failed (classify, parse_job).
PhaseIsTrue ==
  LET said == phase.class
      At   == Position(phase.step)
  IN  /\ said \in {"PreflightFailed", "PrerequisiteMissing"} =>
           /\ At \in Before /\ Ran(At) /\ steps[At].conclusion = "Failure"
           /\ Ordered => \A i \in Policies : ~Ran(i)
      /\ said = "PolicyStepFailed" =>
           /\ At \in Policies /\ Ran(At)
           /\ \A i \in Before : ~(Ran(i) /\ steps[i].conclusion = "Failure")
      /\ said = "Verified" =>
           /\ conclusion = "SUCCESS" /\ ~Broken
           /\ At \in Policies /\ Ran(At)
      /\ said \in {"PreflightFailed", "PrerequisiteMissing", "PolicyStepFailed", "Verified"} =>
           status = "COMPLETED" /\ phase = Classify(JobOf, steps, directive.phases)

\* A green is called vacuous only if nothing ran, or some scanner's work did
\* not run while its stub was written, in a gate that applies; a green that is
\* called genuine is neither, for any scanner the directive describes usably
\* (polarity classify, parse_signatures, classify_greens).
GreenIsJudged ==
  LET Stubbed(s) ==
        /\ \A n \in s.skipped : \E i \in DOMAIN program : program[i].name = n /\ ~Ran(i)
        /\ \A n \in s.success : \E i \in DOMAIN program : program[i].name = n /\ Ran(i)
      known == ParseSignatures(directive.gate)
  IN  /\ Vacuous(green) =>
           /\ \/ \A i \in DOMAIN program : ~Ran(i)
              \/ \E s \in known : Stubbed(s)
           /\ ~NotApplicable(directive.applicability, manifest)
      /\ green = "Genuine" =>
           /\ \E i \in DOMAIN program : Ran(i)
           /\ \A s \in known : ~Stubbed(s)
      /\ green = "AllStepsSkipped" => phase.class # "Verified"

=============================================================================
