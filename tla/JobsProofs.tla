-------------------------------- MODULE JobsProofs --------------------------------
(***************************************************************************)
(* What `phase` and `fight` say of a job is true of any job, under any     *)
(* directive: the properties of Jobs, for every value of the constants.    *)
(* The argument: a finished job no longer changes, so it is enough that a  *)
(* statement is the classification of the finished steps, and that the     *)
(* steps are those the conditions of the program allow.                    *)
(***************************************************************************)
EXTENDS Jobs, WellFoundedInduction, TLAPS

DecidedClasses == {"PreflightFailed", "PrerequisiteMissing", "PolicyStepFailed", "Verified"}

Judgements == {"StubbedAfterSkippedScan", "AllStepsSkipped", "Genuine"}

JobShape ==
  /\ program \in Programs /\ directive \in Directives
  /\ cancelled \in BOOLEAN
  /\ status \in {"absent", "QUEUED", "IN_PROGRESS", "COMPLETED"}
  /\ status # "COMPLETED" => conclusion = "none"
  /\ status = "COMPLETED" => conclusion \in {"SUCCESS", "FAILURE", "CANCELLED"}
  /\ steps \in Seq(StepOutcome)

\* The steps are those of the program, in its order, once the job is started.
StepsAreTheProgram ==
  status \in {"IN_PROGRESS", "COMPLETED"} =>
    /\ DOMAIN steps = DOMAIN program
    /\ \A i \in DOMAIN steps : steps[i].name = program[i].name

\* What is open is open to the end, and a step on condition of success ran
\* with no failure before it.
StepsInOrder ==
  \A i, j \in DOMAIN steps : i < j =>
    /\ steps[i].conclusion = "Other" => steps[j].conclusion = "Other"
    /\ steps[i].conclusion = "Failure" /\ Ran(j) => program[j].when # "success"

\* A success has only steps that succeeded or were skipped.
CleanSuccess ==
  /\ ~cancelled => \A i \in DOMAIN steps : steps[i].conclusion # "Cancelled"
  /\ conclusion = "SUCCESS" =>
       /\ status = "COMPLETED"
       /\ \A i \in DOMAIN steps : steps[i].conclusion \in {"Success", "Skipped"}

\* A class or a judgement is that of the finished steps.
PhaseOfFinished ==
  phase.class \in DecidedClasses =>
    status = "COMPLETED" /\ phase = Classify(JobOf, steps, directive.phases)

GreenOfFinished ==
  green \in Judgements =>
    /\ conclusion = "SUCCESS" /\ steps # <<>>
    /\ green = Polarity(steps, ParseSignatures(directive.gate),
                        directive.applicability, manifest)

JobsInv ==
  /\ JobShape
  /\ StepsAreTheProgram
  /\ StepsInOrder
  /\ CleanSuccess
  /\ PhaseOfFinished
  /\ GreenOfFinished

-----------------------------------------------------------------------------
\* A set of naturals has a least element.
LEMMA LeastExists ==
  ASSUME NEW set \in SUBSET Nat, set # {}
  PROVE  \E i \in set : \A j \in set : i <= j
PROOF
  <1>1. IsWellFoundedOn(OpToRel(<, Nat), Nat)
    BY NatLessThanWellFounded, Zenon
  <1>2. PICK i \in set : \A j \in set : ~ (<<j, i>> \in OpToRel(<, Nat))
    BY <1>1, WFMin, Zenon
  <1>3. \A j \in set : ~ (j < i)
    BY <1>2 DEF OpToRel
  <1> QED
    BY <1>3

\* A bounded one has a greatest: the least distance from the bound.
LEMMA GreatestExists ==
  ASSUME NEW n \in Nat, NEW set \in SUBSET (1 .. n), set # {}
  PROVE  \E i \in set : \A j \in set : j <= i
PROOF
  <1> DEFINE distance == {n - i : i \in set}
  <1>1. distance \in SUBSET Nat /\ distance # {}
    <2>1. \A i \in set : n - i \in Nat
      OBVIOUS
    <2> QED
      BY <2>1
  <1> HIDE DEF distance
  <1>2. PICK d \in distance : \A e \in distance : d <= e
    BY <1>1, LeastExists
  <1> USE DEF distance
  <1>3. PICK i \in set : d = n - i
    BY <1>2
  <1>4. ASSUME NEW j \in set PROVE j <= i
    <2>1. n - j \in distance
      OBVIOUS
    <2>2. n - i <= n - j
      BY <2>1, <1>2, <1>3
    <2> QED
      BY <2>2
  <1> QED
    BY <1>4

\* The first and the last step of a set of steps are steps of the set.
LEMMA FirstIsOfTheSet ==
  ASSUME NEW list \in Seq(StepOutcome), NEW set \in SUBSET DOMAIN list, set # {}
  PROVE  \E i \in set : First(list, set) = list[i].name
PROOF
  <1>1. DOMAIN list = 1 .. Len(list) /\ Len(list) \in Nat
    OBVIOUS
  <1>2. set \in SUBSET Nat
    BY <1>1
  <1>3. \E i \in set : \A j \in set : i <= j
    BY <1>2, LeastExists
  <1> QED
    BY <1>3 DEF First

\* The last of some steps is one of them.
LEMMA LastIsOfTheSet ==
  ASSUME NEW list \in Seq(StepOutcome), NEW set \in SUBSET DOMAIN list, set # {}
  PROVE  \E i \in set : Last(list, set) = list[i].name
PROOF
  <1>1. DOMAIN list = 1 .. Len(list) /\ Len(list) \in Nat
    OBVIOUS
  <1>2. \E i \in set : \A j \in set : j <= i
    BY <1>1, GreatestExists
  <1> QED
    BY <1>2 DEF Last

\* The current step is the first that is open.
LEMMA CurrentIsFirstOpen ==
  ASSUME steps \in Seq(StepOutcome), Open # {}
  PROVE  Current \in Open /\ \A j \in Open : Current <= j
PROOF
  <1>1. DOMAIN steps = 1 .. Len(steps) /\ Len(steps) \in Nat
    OBVIOUS
  <1>2. Open \in SUBSET Nat
    BY <1>1 DEF Open
  <1>3. \E i \in Open : \A j \in Open : i <= j
    BY <1>2, LeastExists
  <1> QED
    BY <1>3 DEF Current

-----------------------------------------------------------------------------
\* The current step gets its conclusion: nothing else changes.
LEMMA OneStepCloses ==
  ASSUME steps \in Seq(StepOutcome), Open # {}, NEW c \in StepConclusion,
         steps' = [steps EXCEPT ![Current].conclusion = c]
  PROVE  /\ steps' \in Seq(StepOutcome)
         /\ DOMAIN steps' = DOMAIN steps
         /\ \A i \in DOMAIN steps :
              /\ steps'[i].name = steps[i].name
              /\ steps'[i].conclusion = IF i = Current THEN c ELSE steps[i].conclusion
PROOF
  <1>1. DOMAIN steps = 1 .. Len(steps) /\ Len(steps) \in Nat
    OBVIOUS
  <1>2. Current \in DOMAIN steps
    BY CurrentIsFirstOpen DEF Open
  <1>3. \A i \in DOMAIN steps : steps[i] \in StepOutcome
    OBVIOUS
  <1>4. DOMAIN steps' = DOMAIN steps
    OBVIOUS
  <1>5. \A i \in DOMAIN steps :
          steps'[i] = IF i = Current THEN [steps[i] EXCEPT !.conclusion = c] ELSE steps[i]
    BY <1>2
  <1>6. \A i \in DOMAIN steps :
          /\ steps'[i] \in StepOutcome
          /\ steps'[i].name = steps[i].name
          /\ steps'[i].conclusion = IF i = Current THEN c ELSE steps[i].conclusion
    BY <1>3, <1>5 DEF StepOutcome
  <1>7. steps' \in [1 .. Len(steps) -> StepOutcome]
    <2>1. steps' = [i \in DOMAIN steps |-> steps'[i]]
      OBVIOUS
    <2> QED
      BY <1>1, <1>4, <1>6, <2>1
  <1>8. steps' \in Seq(StepOutcome)
    BY <1>1, <1>7
  <1> QED
    BY <1>4, <1>6, <1>8

\* Before the current step all is closed, after it all is open.
LEMMA CurrentSplits ==
  ASSUME steps \in Seq(StepOutcome), StepsInOrder, Open # {}
  PROVE  /\ Current \in DOMAIN steps
         /\ \A i \in DOMAIN steps : i >= Current <=> steps[i].conclusion = "Other"
PROOF
  <1>1. DOMAIN steps = 1 .. Len(steps) /\ Len(steps) \in Nat
    OBVIOUS
  <1>2. Current \in Open /\ \A j \in Open : Current <= j
    BY CurrentIsFirstOpen
  <1>3. Current \in DOMAIN steps /\ steps[Current].conclusion = "Other"
    BY <1>2 DEF Open
  <1>4. ASSUME NEW i \in DOMAIN steps, i >= Current PROVE steps[i].conclusion = "Other"
    <2>1. CASE i = Current
      BY <2>1, <1>3
    <2>2. CASE Current < i
      BY <2>2, <1>3 DEF StepsInOrder
    <2> QED
      BY <2>1, <2>2, <1>1, <1>3, <1>4
  <1>5. ASSUME NEW i \in DOMAIN steps, steps[i].conclusion = "Other" PROVE i >= Current
    BY <1>5, <1>2, <1>1, <1>3 DEF Open
  <1> QED
    BY <1>3, <1>4, <1>5

-----------------------------------------------------------------------------
\* The invariant holds at first and after every step.
LEMMA InitJobsInv == Init => JobsInv
PROOF
  <1> SUFFICES ASSUME Init PROVE JobsInv
    OBVIOUS
  <1>1. steps = <<>> /\ DOMAIN steps = {}
    BY DEF Init
  <1>2. JobShape
    <2>1. steps \in Seq(StepOutcome)
      BY <1>1
    <2> QED
      BY <2>1 DEF Init, JobShape
  <1>3. StepsAreTheProgram /\ StepsInOrder /\ CleanSuccess
    BY <1>1 DEF Init, StepsAreTheProgram, StepsInOrder, CleanSuccess
  <1>4. PhaseOfFinished /\ GreenOfFinished
    BY DEF Init, PhaseOfFinished, GreenOfFinished, DecidedClasses, Judgements, Unsaid
  <1> QED
    BY <1>2, <1>3, <1>4 DEF JobsInv

\* Of a job that is not finished nothing decided has been said.
LEMMA NothingSaidYet ==
  ASSUME JobsInv, status # "COMPLETED", UNCHANGED <<directive, manifest, phase, green>>
  PROVE  PhaseOfFinished' /\ GreenOfFinished'
PROOF
  <1>1. phase.class \notin DecidedClasses
    BY DEF JobsInv, PhaseOfFinished
  <1>2. green \notin Judgements
    BY DEF JobsInv, GreenOfFinished, JobShape
  <1> QED
    BY <1>1, <1>2 DEF PhaseOfFinished, GreenOfFinished, DecidedClasses, Judgements

\* Queueing keeps the invariant.
LEMMA QueueKeeps ==
  ASSUME JobsInv, Queue, UNCHANGED <<directive, manifest, phase, green>>
  PROVE  JobsInv'
PROOF
  <1>1. JobShape' /\ StepsAreTheProgram' /\ StepsInOrder' /\ CleanSuccess'
    BY DEF JobsInv, Queue, JobShape, StepsAreTheProgram, StepsInOrder, CleanSuccess, Ran
  <1>2. PhaseOfFinished' /\ GreenOfFinished'
    BY NothingSaidYet DEF Queue
  <1> QED
    BY <1>1, <1>2 DEF JobsInv

\* The start of a job keeps it.
LEMMA StartKeeps ==
  ASSUME JobsInv, Start, UNCHANGED <<directive, manifest, phase, green>>
  PROVE  JobsInv'
PROOF
  <1>1. program \in Seq(Step)
    BY JobAssumption DEF JobsInv, JobShape
  <1>2. DOMAIN program = 1 .. Len(program) /\ Len(program) \in Nat
    BY <1>1
  <1>3. \A i \in DOMAIN program : program[i].name \in StepName
    <2>1. \A i \in DOMAIN program : program[i] \in Step
      BY <1>1
    <2> QED
      BY <2>1 DEF Step
  <1>4. /\ DOMAIN steps' = DOMAIN program
        /\ \A i \in DOMAIN program :
             /\ steps'[i] \in StepOutcome
             /\ steps'[i].name = program[i].name
             /\ steps'[i].conclusion = "Other"
    BY <1>3 DEF Start, StepOutcome, StepConclusion
  <1>5. steps' \in [1 .. Len(program) -> StepOutcome]
    BY <1>2, <1>3 DEF Start, StepOutcome, StepConclusion
  <1>6. steps' \in Seq(StepOutcome)
    BY <1>2, <1>5
  <1>7. JobShape'
    BY <1>6 DEF JobsInv, Start, JobShape
  <1>8. StepsAreTheProgram' /\ StepsInOrder' /\ CleanSuccess'
    BY <1>4 DEF JobsInv, JobShape, Start, StepsAreTheProgram, StepsInOrder, CleanSuccess, Ran
  <1>9. PhaseOfFinished' /\ GreenOfFinished'
    BY NothingSaidYet DEF Start
  <1> QED
    BY <1>7, <1>8, <1>9 DEF JobsInv

\* A step that runs or is skipped keeps it.
LEMMA RunStepKeeps ==
  ASSUME JobsInv, RunStep, UNCHANGED <<directive, manifest, phase, green>>
  PROVE  JobsInv'
PROOF
  <1>1. PICK c \in {"Success", "Failure", "Skipped"} :
          /\ steps' = [steps EXCEPT ![Current].conclusion = c]
          /\ c # "Skipped" => Runs(program[Current])
    BY DEF RunStep
  <1>2. steps \in Seq(StepOutcome) /\ Open # {} /\ c \in StepConclusion
    BY <1>1 DEF JobsInv, JobShape, RunStep, StepConclusion
  <1>3. /\ steps' \in Seq(StepOutcome)
        /\ DOMAIN steps' = DOMAIN steps
        /\ \A i \in DOMAIN steps :
             /\ steps'[i].name = steps[i].name
             /\ steps'[i].conclusion = IF i = Current THEN c ELSE steps[i].conclusion
    BY <1>1, <1>2, OneStepCloses
  <1>4. /\ Current \in DOMAIN steps
        /\ \A i \in DOMAIN steps : i >= Current <=> steps[i].conclusion = "Other"
    BY <1>2, CurrentSplits DEF JobsInv
  <1>5. DOMAIN steps \in SUBSET Nat
    <2>1. DOMAIN steps = 1 .. Len(steps) /\ Len(steps) \in Nat
      BY <1>2
    <2> QED
      BY <2>1
  <1>6. JobShape'
    BY <1>3 DEF JobsInv, RunStep, JobShape
  <1>7. StepsAreTheProgram'
    BY <1>3 DEF JobsInv, RunStep, StepsAreTheProgram
  <1>8. StepsInOrder'
    <2> SUFFICES ASSUME NEW i \in DOMAIN steps, NEW j \in DOMAIN steps, i < j
                 PROVE  /\ steps'[i].conclusion = "Other" => steps'[j].conclusion = "Other"
                        /\ steps'[i].conclusion = "Failure"
                             /\ steps'[j].conclusion \in {"Success", "Failure"}
                           => program[j].when # "success"
      BY <1>3 DEF StepsInOrder, Ran, RunStep
    <2>1. CASE j = Current
      <3>1. steps'[i].conclusion = steps[i].conclusion /\ steps[i].conclusion # "Other"
        BY <2>1, <1>3, <1>4, <1>5
      <3>2. steps'[j].conclusion = c
        BY <2>1, <1>3
      <3>3. steps[i].conclusion = "Failure" /\ c # "Skipped" => program[j].when # "success"
        BY <2>1, <1>1 DEF Runs, Broken
      <3> QED
        BY <3>1, <3>2, <3>3, <1>1
    <2>2. CASE i = Current
      <3>1. steps'[j].conclusion = "Other"
        BY <2>2, <1>3, <1>4, <1>5
      <3> QED
        BY <3>1
    <2>3. CASE i # Current /\ j # Current
      BY <2>3, <1>3 DEF JobsInv, StepsInOrder, Ran
    <2> QED
      BY <2>1, <2>2, <2>3
  <1>9. CleanSuccess'
    BY <1>1, <1>3 DEF JobsInv, RunStep, JobShape, CleanSuccess
  <1>10. PhaseOfFinished' /\ GreenOfFinished'
    BY NothingSaidYet DEF RunStep
  <1> QED
    BY <1>6, <1>7, <1>8, <1>9, <1>10 DEF JobsInv

\* A cancellation keeps it.
LEMMA CancelKeeps ==
  ASSUME JobsInv, Cancel, UNCHANGED <<directive, manifest, phase, green>>
  PROVE  JobsInv'
PROOF
  <1>1. steps \in Seq(StepOutcome) /\ Open # {} /\ "Cancelled" \in StepConclusion
    BY DEF JobsInv, JobShape, Cancel, StepConclusion
  <1>2. /\ steps' \in Seq(StepOutcome)
        /\ DOMAIN steps' = DOMAIN steps
        /\ \A i \in DOMAIN steps :
             /\ steps'[i].name = steps[i].name
             /\ steps'[i].conclusion
                  = IF i = Current THEN "Cancelled" ELSE steps[i].conclusion
    <2>1. steps' = [steps EXCEPT ![Current].conclusion = "Cancelled"]
      BY DEF Cancel
    <2> QED
      BY <2>1, <1>1, OneStepCloses
  <1>3. /\ Current \in DOMAIN steps
        /\ \A i \in DOMAIN steps : i >= Current <=> steps[i].conclusion = "Other"
    BY <1>1, CurrentSplits DEF JobsInv
  <1>4. DOMAIN steps \in SUBSET Nat
    <2>1. DOMAIN steps = 1 .. Len(steps) /\ Len(steps) \in Nat
      BY <1>1
    <2> QED
      BY <2>1
  <1>5. JobShape'
    BY <1>2 DEF JobsInv, Cancel, JobShape
  <1>6. StepsAreTheProgram'
    BY <1>2 DEF JobsInv, Cancel, StepsAreTheProgram
  <1>7. StepsInOrder'
    BY <1>2, <1>3, <1>4 DEF JobsInv, StepsInOrder, Ran, Cancel
  <1>8. CleanSuccess'
    BY DEF JobsInv, Cancel, JobShape, CleanSuccess
  <1>9. PhaseOfFinished' /\ GreenOfFinished'
    BY NothingSaidYet DEF Cancel
  <1> QED
    BY <1>5, <1>6, <1>7, <1>8, <1>9 DEF JobsInv

\* A lost runner keeps it.
LEMMA LoseKeeps ==
  ASSUME JobsInv, Lose, UNCHANGED <<directive, manifest, phase, green>>
  PROVE  JobsInv'
PROOF
  <1>1. JobShape' /\ StepsAreTheProgram' /\ StepsInOrder' /\ CleanSuccess'
    BY DEF JobsInv, Lose, JobShape, StepsAreTheProgram, StepsInOrder, CleanSuccess, Ran
  <1>2. PhaseOfFinished' /\ GreenOfFinished'
    BY NothingSaidYet DEF Lose
  <1> QED
    BY <1>1, <1>2 DEF JobsInv

\* The end of a job keeps it.
LEMMA CompleteKeeps ==
  ASSUME JobsInv, Complete, UNCHANGED <<directive, manifest, phase, green>>
  PROVE  JobsInv'
PROOF
  <1>1. JobShape' /\ StepsAreTheProgram' /\ StepsInOrder'
    BY DEF JobsInv, Complete, JobShape, StepsAreTheProgram, StepsInOrder, Ran
  <1>2. CleanSuccess'
    <2>1. \A i \in DOMAIN steps : steps[i].conclusion \in StepConclusion \ {"Other"}
      <3>1. \A i \in DOMAIN steps : steps[i] \in StepOutcome
        BY DEF JobsInv, JobShape
      <3>2. \A i \in DOMAIN steps : steps[i].conclusion # "Other"
        BY DEF Complete, Open
      <3> QED
        BY <3>1, <3>2 DEF StepOutcome
    <2>2. conclusion' = "SUCCESS" => ~cancelled /\ ~Broken
      BY DEF Complete
    <2> QED
      BY <2>1, <2>2 DEF JobsInv, JobShape, Complete, CleanSuccess, Broken, StepConclusion
  <1>3. PhaseOfFinished' /\ GreenOfFinished'
    BY NothingSaidYet DEF Complete
  <1> QED
    BY <1>1, <1>2, <1>3 DEF JobsInv

\* Only a finished job is classified as anything decided.
LEMMA DecidedIsFinished ==
  ASSUME JobsInv, NEW list, NEW phases,
         Classify(JobOf, list, phases).class \in DecidedClasses
  PROVE  status = "COMPLETED" /\ list # <<>>
PROOF
  <1>1. JobOf # "Missing"
    BY DEF Classify, NotStarted, ClassOf, DecidedClasses
  <1>2. JobOf # "Pending"
    BY <1>1 DEF Classify, Unclassified, DecidedClasses
  <1>3. list # <<>>
    BY <1>1, <1>2 DEF Classify, Unclassified, DecidedClasses
  <1>4. status = "COMPLETED"
    <2>1. status # "absent"
      BY <1>1 DEF JobOf
    <2>2. conclusion = "none" /\ status # "COMPLETED" => JobOf = "Pending"
      BY <2>1 DEF JobOf, FromGithub, Recognised
    <2> QED
      BY <1>2, <2>2 DEF JobsInv, JobShape
  <1> QED
    BY <1>3, <1>4

\* Reading the phase keeps it.
LEMMA ReadPhaseKeeps ==
  ASSUME JobsInv, ReadPhase
  PROVE  JobsInv'
PROOF
  <1>1. PICK listed \in {steps, <<>>} :
          phase' = Classify(JobOf, listed, directive.phases)
    BY DEF ReadPhase, Payloads
  <1>2. /\ UNCHANGED <<program, status, conclusion, steps, cancelled>>
        /\ UNCHANGED <<directive, manifest, green>>
    BY DEF ReadPhase, runner
  <1>3. JobShape' /\ StepsAreTheProgram' /\ StepsInOrder' /\ CleanSuccess'
    BY <1>2 DEF JobsInv, JobShape, StepsAreTheProgram, StepsInOrder, CleanSuccess, Ran
  <1>4. JobOf' = JobOf
    BY <1>2 DEF JobOf
  <1>5. PhaseOfFinished'
    <2> SUFFICES ASSUME phase'.class \in DecidedClasses
                 PROVE  status = "COMPLETED" /\ phase' = Classify(JobOf, steps, directive.phases)
      BY <1>2, <1>4 DEF PhaseOfFinished, DecidedClasses
    <2>1. status = "COMPLETED" /\ listed # <<>>
      BY <1>1, DecidedIsFinished
    <2> QED
      BY <1>1, <2>1
  <1>6. GreenOfFinished'
    BY <1>2 DEF JobsInv, GreenOfFinished, Judgements
  <1> QED
    BY <1>3, <1>5, <1>6 DEF JobsInv

\* Inspecting a green keeps it.
LEMMA InspectGreenKeeps ==
  ASSUME JobsInv, InspectGreen
  PROVE  JobsInv'
PROOF
  <1>1. /\ UNCHANGED <<program, status, conclusion, steps, cancelled>>
        /\ UNCHANGED <<directive, manifest, phase>>
    BY DEF InspectGreen, runner
  <1>2. JobShape' /\ StepsAreTheProgram' /\ StepsInOrder' /\ CleanSuccess'
    BY <1>1 DEF JobsInv, JobShape, StepsAreTheProgram, StepsInOrder, CleanSuccess, Ran
  <1>3. PhaseOfFinished'
    BY <1>1 DEF JobsInv, PhaseOfFinished, DecidedClasses, JobOf
  <1>4. GreenOfFinished'
    <2>1. green' # "NotInspected" =>
            /\ steps # <<>>
            /\ green' = Polarity(steps, ParseSignatures(directive.gate),
                                 directive.applicability, manifest)
      BY DEF InspectGreen, Payloads
    <2> QED
      BY <1>1, <2>1 DEF InspectGreen, GreenOfFinished, Judgements
  <1> QED
    BY <1>2, <1>3, <1>4 DEF JobsInv

\* Every step keeps it.
LEMMA NextJobsInv == JobsInv /\ [Next]_vars => JobsInv'
PROOF
  <1> SUFFICES ASSUME JobsInv, [Next]_vars PROVE JobsInv'
    OBVIOUS
  <1>1. CASE Runner
    <2>1. UNCHANGED <<directive, manifest, phase, green>>
      BY <1>1 DEF Runner
    <2>2. CASE Queue
      BY <2>1, <2>2, QueueKeeps
    <2>3. CASE Start
      BY <2>1, <2>3, StartKeeps
    <2>4. CASE RunStep
      BY <2>1, <2>4, RunStepKeeps
    <2>5. CASE Cancel
      BY <2>1, <2>5, CancelKeeps
    <2>6. CASE Lose
      BY <2>1, <2>6, LoseKeeps
    <2>7. CASE Complete
      BY <2>1, <2>7, CompleteKeeps
    <2> QED
      BY <1>1, <2>2, <2>3, <2>4, <2>5, <2>6, <2>7 DEF Runner
  <1>2. CASE ReadPhase
    BY <1>2, ReadPhaseKeeps
  <1>3. CASE InspectGreen
    BY <1>3, InspectGreenKeeps
  <1>4. CASE UNCHANGED vars
    BY <1>4 DEF JobsInv, JobShape, StepsAreTheProgram, StepsInOrder, CleanSuccess,
                PhaseOfFinished, GreenOfFinished, Ran, JobOf, vars, runner
  <1> QED
    BY <1>1, <1>2, <1>3, <1>4 DEF Next, Done

\* The invariant of every run.
THEOREM JobsInvariant == Spec => []JobsInv
PROOF
  <1>1. Init => JobsInv
    BY InitJobsInv
  <1>2. JobsInv /\ [Next]_vars => JobsInv'
    BY NextJobsInv
  <1> QED
    BY <1>1, <1>2, PTL DEF Spec

-----------------------------------------------------------------------------
\* What the invariant says of a finished job.

\* A name of the program stands at one position.
LEMMA PositionOfStep ==
  ASSUME JobShape, NEW i \in DOMAIN program
  PROVE  Position(program[i].name) = i
PROOF
  <1>1. \A j, k \in DOMAIN program : program[j].name = program[k].name => j = k
    BY JobAssumption DEF JobShape
  <1> QED
    BY <1>1 DEF Position

\* The name that is said of a set of steps is that of a step of the set, and
\* its position is that step's.
LEMMA NamedStepIsOfTheSet ==
  ASSUME JobShape, StepsAreTheProgram, status = "COMPLETED",
         NEW set \in SUBSET DOMAIN steps, set # {}
  PROVE  Position(First(steps, set)) \in set /\ Position(Last(steps, set)) \in set
PROOF
  <1>1. steps \in Seq(StepOutcome)
    BY DEF JobShape
  <1>2. \A i \in set : i \in DOMAIN program /\ steps[i].name = program[i].name
    BY DEF StepsAreTheProgram
  <1>3. \A i \in set : Position(steps[i].name) = i
    BY <1>2, PositionOfStep
  <1>4. PICK i \in set : First(steps, set) = steps[i].name
    BY <1>1, FirstIsOfTheSet
  <1>5. PICK j \in set : Last(steps, set) = steps[j].name
    BY <1>1, LastIsOfTheSet
  <1> QED
    BY <1>3, <1>4, <1>5

\* The steps a classification looks for.
FailedSetup(phases) ==
  {i \in DOMAIN steps : steps[i].conclusion = "Failure" /\ IsSetup(phases, steps[i].name)}

FailedRequired(phases) ==
  {i \in DOMAIN steps :
     steps[i].conclusion = "Failure" /\ IsPrerequisite(phases, steps[i].name)}

FailedPolicy(phases) ==
  {i \in DOMAIN steps : steps[i].conclusion = "Failure" /\ IsPolicy(phases, steps[i].name)}

PassedPolicy(phases) ==
  {i \in DOMAIN steps : steps[i].conclusion = "Success" /\ IsPolicy(phases, steps[i].name)}

\* What a decided class is based on.
LEMMA ClassifyDecides ==
  ASSUME NEW job, NEW phases, NEW said,
         said = Classify(job, steps, phases), said.class \in DecidedClasses
  PROVE  /\ said.class = "PreflightFailed" =>
              FailedSetup(phases) # {} /\ said.step = First(steps, FailedSetup(phases))
         /\ said.class = "PrerequisiteMissing" =>
              FailedRequired(phases) # {} /\ said.step = First(steps, FailedRequired(phases))
         /\ said.class = "PolicyStepFailed" =>
              /\ FailedSetup(phases) = {} /\ FailedRequired(phases) = {}
              /\ FailedPolicy(phases) # {} /\ said.step = First(steps, FailedPolicy(phases))
         /\ said.class = "Verified" =>
              /\ job = "Passed"
              /\ \A i \in DOMAIN steps : steps[i].conclusion # "Failure"
              /\ PassedPolicy(phases) # {} /\ said.step = Last(steps, PassedPolicy(phases))
PROOF
  <1>1. said = ClassifyConcluded(job, steps, phases)
    BY DEF Classify, NotStarted, ClassOf, Unclassified, DecidedClasses
  <1> QED
    BY <1>1 DEF ClassifyConcluded, With, Witnesses, ClassOf, Unclassified, DecidedClasses,
                FailedSetup, FailedRequired, FailedPolicy, PassedPolicy

\* Of a finished job only success passes.
LEMMA PassedIsSuccess ==
  ASSUME JobShape, status = "COMPLETED", JobOf = "Passed"
  PROVE  conclusion = "SUCCESS"
PROOF
  BY DEF JobShape, JobOf, FromGithub, Recognised

\* Where the policy comes after all declared steps and needs them, a failure
\* of one keeps it from running.
LEMMA FailureStopsPolicy ==
  ASSUME JobsInv, status = "COMPLETED", Ordered,
         NEW at \in Before, steps[at].conclusion = "Failure",
         NEW i \in Policies
  PROVE  ~ Ran(i)
PROOF
  <1>1. program[i].when = "success" /\ at < i
    BY DEF Ordered
  <1>2. at \in DOMAIN steps /\ i \in DOMAIN steps
    BY DEF JobsInv, StepsAreTheProgram, Before, Policies
  <1> QED
    BY <1>1, <1>2 DEF JobsInv, StepsInOrder

\* What is said of a job is true of it.
LEMMA InvariantGivesPhase == JobsInv => PhaseIsTrue
PROOF
  <1> SUFFICES ASSUME JobsInv, phase.class \in DecidedClasses
               PROVE  PhaseIsTrue
    BY DEF PhaseIsTrue, DecidedClasses
  <1> DEFINE At == Position(phase.step)
             setup == FailedSetup(directive.phases)
             required == FailedRequired(directive.phases)
             policy == FailedPolicy(directive.phases)
             passed == PassedPolicy(directive.phases)
  <1>1. status = "COMPLETED" /\ phase = Classify(JobOf, steps, directive.phases)
    BY DEF JobsInv, PhaseOfFinished
  <1>2. /\ DOMAIN steps = DOMAIN program
        /\ \A i \in DOMAIN steps : steps[i].name = program[i].name
    BY <1>1 DEF JobsInv, StepsAreTheProgram
  <1>3. /\ phase.class = "PreflightFailed" =>
             setup # {} /\ phase.step = First(steps, setup)
        /\ phase.class = "PrerequisiteMissing" =>
             required # {} /\ phase.step = First(steps, required)
        /\ phase.class = "PolicyStepFailed" =>
             /\ setup = {} /\ required = {}
             /\ policy # {} /\ phase.step = First(steps, policy)
        /\ phase.class = "Verified" =>
             /\ JobOf = "Passed"
             /\ \A i \in DOMAIN steps : steps[i].conclusion # "Failure"
             /\ passed # {} /\ phase.step = Last(steps, passed)
    BY <1>1, ClassifyDecides
  <1>4. \A set \in SUBSET DOMAIN steps : set # {} =>
          Position(First(steps, set)) \in set /\ Position(Last(steps, set)) \in set
    BY <1>1, NamedStepIsOfTheSet DEF JobsInv
  <1>5. ASSUME phase.class \in {"PreflightFailed", "PrerequisiteMissing"}
        PROVE  /\ At \in Before /\ Ran(At) /\ steps[At].conclusion = "Failure"
               /\ Ordered => \A i \in Policies : ~Ran(i)
    <2>1. At \in setup \cup required
      BY <1>3, <1>4, <1>5 DEF FailedSetup, FailedRequired
    <2>2. At \in Before /\ Ran(At) /\ steps[At].conclusion = "Failure"
      BY <2>1, <1>2 DEF Before, Ran, FailedSetup, FailedRequired
    <2> QED
      BY <2>2, <1>1, FailureStopsPolicy
  <1>6. ASSUME phase.class = "PolicyStepFailed"
        PROVE  /\ At \in Policies /\ Ran(At)
               /\ \A i \in Before : ~(Ran(i) /\ steps[i].conclusion = "Failure")
    <2>1. At \in policy
      BY <1>3, <1>4, <1>6 DEF FailedPolicy
    <2>2. \A i \in Before : steps[i].conclusion # "Failure"
      BY <1>2, <1>3, <1>6 DEF Before, FailedSetup, FailedRequired
    <2> QED
      BY <2>1, <2>2, <1>2 DEF Policies, Ran, FailedPolicy
  <1>7. ASSUME phase.class = "Verified"
        PROVE  /\ conclusion = "SUCCESS" /\ ~Broken
               /\ At \in Policies /\ Ran(At)
    <2>1. At \in passed
      BY <1>3, <1>4, <1>7 DEF PassedPolicy
    <2>2. conclusion = "SUCCESS"
      BY <1>1, <1>3, <1>7, PassedIsSuccess DEF JobsInv
    <2> QED
      BY <2>1, <2>2, <1>2, <1>3, <1>7 DEF Policies, Ran, Broken, PassedPolicy
  <1> QED
    BY <1>1, <1>5, <1>6, <1>7 DEF PhaseIsTrue

-----------------------------------------------------------------------------
\* In a job that succeeded, a step of the program ran or was skipped, and the
\* list says which.
LEMMA SuccessTellsWhatRan ==
  ASSUME JobsInv, conclusion = "SUCCESS"
  PROVE  /\ DOMAIN steps = DOMAIN program
         /\ \A i \in DOMAIN steps :
              /\ steps[i] = [name |-> program[i].name, conclusion |-> steps[i].conclusion]
              /\ Ran(i) <=> steps[i].conclusion = "Success"
              /\ ~Ran(i) <=> steps[i].conclusion = "Skipped"
PROOF
  <1>1. status = "COMPLETED"
        /\ \A i \in DOMAIN steps : steps[i].conclusion \in {"Success", "Skipped"}
    BY DEF JobsInv, CleanSuccess
  <1>2. \A i \in DOMAIN steps : steps[i] \in StepOutcome
    BY DEF JobsInv, JobShape
  <1>3. /\ DOMAIN steps = DOMAIN program
        /\ \A i \in DOMAIN steps : steps[i].name = program[i].name
    BY <1>1 DEF JobsInv, StepsAreTheProgram
  <1> QED
    BY <1>1, <1>2, <1>3 DEF Ran, StepOutcome

\* A scanner's fingerprint is in the list exactly if its work did not run and
\* its stub did.
LEMMA FingerprintIsStub ==
  ASSUME JobsInv, conclusion = "SUCCESS", NEW s, Usable(s)
  PROVE  Matches(s, steps) <=>
           /\ \A n \in s.skipped : \E i \in DOMAIN program : program[i].name = n /\ ~Ran(i)
           /\ \A n \in s.success : \E i \in DOMAIN program : program[i].name = n /\ Ran(i)
PROOF
  <1>1. /\ DOMAIN steps = DOMAIN program
        /\ \A i \in DOMAIN steps :
             /\ steps[i] = [name |-> program[i].name, conclusion |-> steps[i].conclusion]
             /\ Ran(i) <=> steps[i].conclusion = "Success"
             /\ ~Ran(i) <=> steps[i].conclusion = "Skipped"
    BY SuccessTellsWhatRan
  <1>2. ASSUME NEW n
        PROVE  /\ Concluded(steps, n, "Skipped") <=>
                    \E i \in DOMAIN program : program[i].name = n /\ ~Ran(i)
               /\ Concluded(steps, n, "Success") <=>
                    \E i \in DOMAIN program : program[i].name = n /\ Ran(i)
    BY <1>1 DEF Concluded
  <1> QED
    BY <1>2 DEF Matches

\* What a directive is parsed into is usable.
LEMMA KnownAreUsable ==
  ASSUME NEW d
  PROVE  \A s \in ParseSignatures(d) : Usable(s)
PROOF
  BY DEF ParseSignatures

\* What is said of a green is true of the job.
LEMMA InvariantGivesGreen == JobsInv => GreenIsJudged
PROOF
  <1> SUFFICES ASSUME JobsInv, green \in Judgements
               PROVE  GreenIsJudged
    BY DEF GreenIsJudged, Vacuous, Judgements
  <1> DEFINE known == ParseSignatures(directive.gate)
             Stubbed(s) ==
               /\ \A n \in s.skipped : \E i \in DOMAIN program : program[i].name = n /\ ~Ran(i)
               /\ \A n \in s.success : \E i \in DOMAIN program : program[i].name = n /\ Ran(i)
  <1>1. /\ conclusion = "SUCCESS" /\ steps # <<>>
        /\ green = Polarity(steps, known, directive.applicability, manifest)
    BY DEF JobsInv, GreenOfFinished
  <1>2. \A s \in known : Matches(s, steps) <=> Stubbed(s)
    BY <1>1, KnownAreUsable, FingerprintIsStub
  <1>3. /\ DOMAIN steps = DOMAIN program
        /\ \A i \in DOMAIN program : Ran(i) <=> steps[i].conclusion # "Skipped"
    BY <1>1, SuccessTellsWhatRan
  <1>4. ~NotApplicable(directive.applicability, manifest)
    BY <1>1 DEF Polarity, Judgements
  <1>5. green = "StubbedAfterSkippedScan" => \E s \in known : Matches(s, steps)
    BY <1>1, <1>4 DEF Polarity, SetMatches
  <1>6. green = "AllStepsSkipped" => AllSkipped(steps)
    BY <1>1, <1>4 DEF Polarity
  <1>7. green = "Genuine" => ~AllSkipped(steps) /\ ~SetMatches(known, steps)
    BY <1>1, <1>4 DEF Polarity
  <1>8. Vacuous(green) => \/ \A i \in DOMAIN program : ~Ran(i)
                          \/ \E s \in known : Stubbed(s)
    BY <1>2, <1>3, <1>5, <1>6 DEF Vacuous, AllSkipped
  <1>9. green = "Genuine" => /\ \E i \in DOMAIN program : Ran(i)
                             /\ \A s \in known : ~Stubbed(s)
    BY <1>2, <1>3, <1>7 DEF AllSkipped, SetMatches
  <1>10. green = "AllStepsSkipped" => phase.class # "Verified"
    <2>1. phase.class = "Verified" => Position(phase.step) \in DOMAIN program
                                        /\ Ran(Position(phase.step))
      BY InvariantGivesPhase DEF PhaseIsTrue, Policies
    <2> QED
      BY <2>1, <1>3, <1>6 DEF AllSkipped
  <1> QED
    BY <1>4, <1>8, <1>9, <1>10 DEF GreenIsJudged

-----------------------------------------------------------------------------
\* What `phase` says of a job is true of it, whatever its program, its runner
\* and the directive, and stays true (execution.rs classify, phase.rs).
THEOREM PhaseTellsTheTruth == Spec => []PhaseIsTrue
PROOF
  <1>1. JobsInv => PhaseIsTrue
    BY InvariantGivesPhase
  <1> QED
    BY <1>1, JobsInvariant, PTL

\* A green that `fight` calls vacuous did no work or wrote a stub for it, and
\* one it calls genuine did neither, for any table of scanners (polarity.rs
\* classify, gate_triage.rs parse_signatures).
THEOREM GreenTellsTheTruth == Spec => []GreenIsJudged
PROOF
  <1>1. JobsInv => GreenIsJudged
    BY InvariantGivesGreen
  <1> QED
    BY <1>1, JobsInvariant, PTL

=============================================================================
