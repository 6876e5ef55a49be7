----------------------------- MODULE FetchProofs -----------------------------
(***************************************************************************)
(* Proofs about the gate, for every set of contexts and every set of       *)
(* observed runs, and about `squabble fetch`, for every rollup, every pair *)
(* of protection mechanisms and every interleaving of reads and changes.   *)
(***************************************************************************)
EXTENDS FetchGate, SequenceTheorems, TLAPS

-----------------------------------------------------------------------------
(***************************************************************************)
(* The gate, for every set of contexts and every set of observed runs.     *)
(***************************************************************************)

\* Some run of a non-empty set is at least as bad as every other, and
\* ForContext (CheckRun::for_context) returns such a run.
LEMMA WorstDecides ==
  ASSUME NEW runs, runs \subseteq CheckRun, runs # {}
  PROVE  /\ ForContext(runs) \in runs
         /\ \A s \in runs : Rank(s) <= Rank(ForContext(runs))
<1>1. \A s \in CheckRun : Rank(s) \in 0..4
  BY DEF Rank, CheckRun
<1>2. \E r \in runs : \A s \in runs : Rank(s) <= Rank(r)
  <2>1. CASE "Failed" \in runs
    BY <1>1, <2>1 DEF Rank, CheckRun
  <2>2. CASE "Failed" \notin runs /\ "Missing" \in runs
    BY <2>2 DEF Rank, CheckRun
  <2>3. CASE runs \subseteq {"Pending", "Skipped", "Passed"} /\ "Pending" \in runs
    BY <2>3 DEF Rank, CheckRun
  <2>4. CASE runs \subseteq {"Skipped", "Passed"} /\ "Skipped" \in runs
    BY <2>4 DEF Rank, CheckRun
  <2>5. CASE runs = {"Passed"}
    BY <2>5 DEF Rank, CheckRun
  <2> QED
    BY <2>1, <2>2, <2>3, <2>4, <2>5 DEF CheckRun
<1> QED
  BY <1>2 DEF ForContext

\* A context is satisfied exactly if it has a run and every run of its name is
\* satisfied: a passing twin masks nothing (gate.rs, "the worst run decides").
THEOREM SatisfiedByEveryTwin ==
  ASSUME NEW runs, runs \subseteq CheckRun
  PROVE  Satisfied(ForContext(runs)) <=> runs # {} /\ \A r \in runs : Satisfied(r)
<1>1. CASE runs = {}
  BY <1>1 DEF Satisfied, ForContext
<1>2. CASE runs # {}
  <2>1. PICK w \in runs : w = ForContext(runs) /\ \A s \in runs : Rank(s) <= Rank(w)
    BY <1>2, WorstDecides
  <2>2. \A s \in CheckRun : Satisfied(s) <=> Rank(s) <= 1
    BY DEF Satisfied, Rank, CheckRun
  <2>3. \A s \in CheckRun : Rank(s) \in Nat
    BY DEF Rank, CheckRun
  <2>4. \A r \in runs : Rank(w) <= 1 => Rank(r) <= 1
    BY <2>1, <2>3
  <2> QED
    BY <1>2, <2>1, <2>2, <2>4
<1> QED
  BY <1>1, <1>2

\* ForContext yields a run.
LEMMA ForContextType ==
  ASSUME NEW runs, runs \subseteq CheckRun
  PROVE  ForContext(runs) \in CheckRun
<1>1. CASE runs = {}
  BY <1>1 DEF ForContext, CheckRun
<1>2. CASE runs # {}
  BY <1>2, WorstDecides
<1> QED
  BY <1>1, <1>2

\* The runs of one name.
LEMMA RunsOfType ==
  ASSUME NEW observed, \A o \in observed : o.run \in CheckRun, NEW c
  PROVE  {o.run : o \in {x \in observed : x.name = c}} \subseteq CheckRun
OBVIOUS

\* The gate is green exactly if something is required, and every required
\* context has a run and no run of its name that is not satisfied (gate.rs,
\* evaluate: `Green` is a property of the runs; an empty gate is not green).
THEOREM GreenIsEarned ==
  ASSUME NEW contexts, NEW observed, \A o \in observed : o.run \in CheckRun
  PROVE  Evaluate(BuildGate(contexts, observed)) = "Green" <=>
           /\ contexts # {}
           /\ \A c \in contexts :
                /\ \E o \in observed : o.name = c
                /\ \A o \in observed : o.name = c => Satisfied(o.run)
<1> DEFINE Of(c) == {o.run : o \in {x \in observed : x.name = c}}
           G == BuildGate(contexts, observed)
<1>1. DOMAIN G = contexts /\ \A c \in contexts : G[c] = ForContext(Of(c))
  BY DEF BuildGate
<1>2. \A c : Of(c) \subseteq CheckRun
  BY RunsOfType
<1>3. \A c : Satisfied(ForContext(Of(c))) <=>
               Of(c) # {} /\ \A r \in Of(c) : Satisfied(r)
  BY <1>2, SatisfiedByEveryTwin
<1>4. \A c : /\ Of(c) # {} <=> \E o \in observed : o.name = c
             /\ (\A r \in Of(c) : Satisfied(r))
                  <=> \A o \in observed : o.name = c => Satisfied(o.run)
  OBVIOUS
<1> HIDE DEF Of, G
<1>5. Evaluate(G) = "Green" <=>
        DOMAIN G # {} /\ \A c \in DOMAIN G : Satisfied(G[c])
  BY DEF Evaluate
<1>6. Evaluate(G) = "Green" <=>
        contexts # {} /\ \A c \in contexts :
                           Of(c) # {} /\ \A r \in Of(c) : Satisfied(r)
  BY <1>1, <1>3, <1>5
<1> QED
  BY <1>4, <1>6 DEF G

\* The two readers agree: what `squabble fetch` calls green leaves
\* `verify-satisfied` no required check to act on or to wait for, and what it
\* calls red is agent work there.
THEOREM ReadersAgree ==
  ASSUME NEW f
  PROVE  /\ Evaluate(RequiredGate(f)) = "Green" =>
              RequiredItems(f) = {} /\ ~RequiredPending(f)
         /\ Evaluate(RequiredGate(f)) = "Red" => RequiredItems(f) # {}
<1>1. DOMAIN RequiredGate(f) = f.required
  BY DEF RequiredGate, BuildGate
<1>2. ASSUME Evaluate(RequiredGate(f)) = "Green"
      PROVE  \A c \in f.required : Satisfied(RequiredGate(f)[c])
  BY <1>1, <1>2 DEF Evaluate
<1>3. ASSUME Evaluate(RequiredGate(f)) = "Red"
      PROVE  \E c \in f.required : RequiredGate(f)[c] = "Failed"
  BY <1>1, <1>3 DEF Evaluate
<1>4. (\A c \in f.required : Satisfied(RequiredGate(f)[c])) =>
        RequiredItems(f) = {} /\ ~RequiredPending(f)
  BY DEF RequiredItems, RequiredPending, Satisfied
<1>5. (\E c \in f.required : RequiredGate(f)[c] = "Failed") => RequiredItems(f) # {}
  BY DEF RequiredItems
<1> QED
  BY <1>2, <1>3, <1>4, <1>5

-----------------------------------------------------------------------------
(***************************************************************************)
(* The process.                                                            *)
(***************************************************************************)

\* What the process knows of the runs that are red all along, of the contexts
\* required all along, and of the gate it has built.
RedsSeen ==
  \A i \in red :
    /\ i \in DOMAIN rollup
    /\ Observed(rollup[i]).run = "Failed"
    /\ \E j \in DOMAIN seen : Observed(seen[j]) = Observed(rollup[i])

RequiredSeen ==
  /\ ruled \subseteq rules.contexts
  /\ guarded \subseteq classic.contexts
  /\ pc \in {"classic", "union"} \/ exit \in {"0", "3"} => ruled \subseteq required
  /\ pc = "union" \/ exit \in {"0", "3"} =>
       /\ guarded \subseteq required
       /\ quiet => classic.kind # "Hidden"

Course ==
  /\ pc # "idle" => exit = "none"
  /\ exit = "0" => result = BuildGate(required, {Observed(r) : r \in SeenRuns})
  /\ exit = "3" => required = {}

GateInv == rollup \in Seq(Runs) /\ classic \in Protections
             /\ RedsSeen /\ RequiredSeen /\ Course

\* A change keeps the rollup a rollup; without a push, runs keep their place,
\* their name and their producer.
LEMMA WorldKeepsRuns ==
  ASSUME rollup \in Seq(Runs), classic \in Protections, World
  PROVE  /\ rollup' \in Seq(Runs) /\ classic' \in Protections
         /\ head' = head => \A i \in DOMAIN rollup :
              /\ i \in DOMAIN rollup'
              /\ rollup'[i].name = rollup[i].name
              /\ rollup'[i].app = rollup[i].app
<1>1. CASE Push
  BY <1>1, WorldAssumption DEF Push
<1>2. ASSUME NEW run \in Runs, Report(run)
      PROVE  /\ rollup' \in Seq(Runs) /\ classic' = classic
             /\ \A i \in DOMAIN rollup : i \in DOMAIN rollup' /\ rollup'[i] = rollup[i]
  BY <1>2 DEF Report
<1>3. ASSUME NEW j \in DOMAIN rollup, NEW run \in Runs, Proceed(j, run)
      PROVE  /\ rollup' \in Seq(Runs) /\ classic' = classic
             /\ \A i \in DOMAIN rollup :
                  /\ i \in DOMAIN rollup'
                  /\ rollup'[i].name = rollup[i].name
                  /\ rollup'[i].app = rollup[i].app
  <2>1. j \in 1..Len(rollup) /\ rollup' = [rollup EXCEPT ![j] = run]
    BY <1>3 DEF Proceed
  <2>2. rollup' \in Seq(Runs)
    BY <2>1, ExceptSeq
  <2> QED
    BY <1>3, <2>1, <2>2 DEF Proceed
<1>4. ASSUME OpenThread \/ (\E i \in DOMAIN threads : TurnThread(i)) \/ Edit
      PROVE  rollup' = rollup /\ classic' = classic
  BY <1>4 DEF OpenThread, TurnThread, Edit
<1>5. ASSUME Protect PROVE rollup' = rollup /\ classic' \in Protections
  BY <1>5 DEF Protect
<1> QED
  BY <1>1, <1>2, <1>3, <1>4, <1>5 DEF World

\* A change only takes runs and contexts out of the history.
LEMMA HappenGate == GateInv /\ Happen => GateInv'
<1> SUFFICES ASSUME GateInv, Happen PROVE GateInv'
  OBVIOUS
<1> USE DEF GateInv
<1>1. rollup' \in Seq(Runs) /\ classic' \in Protections
  BY WorldKeepsRuns DEF Happen
<1>2. UNCHANGED <<pc, seen, required, bundle, exit>> /\ quiet' = FALSE
  BY DEF Happen
<1>3. RedsSeen'
  <2> SUFFICES ASSUME NEW i \in red'
               PROVE  /\ i \in DOMAIN rollup'
                      /\ Observed(rollup'[i]).run = "Failed"
                      /\ \E j \in DOMAIN seen : Observed(seen[j]) = Observed(rollup'[i])
    BY <1>2 DEF RedsSeen, Observed
  <2>1. head' = head /\ i \in red /\ Observed(rollup'[i]).run = "Failed"
    BY DEF Happen
  <2>2. /\ i \in DOMAIN rollup'
        /\ rollup'[i].name = rollup[i].name /\ rollup'[i].app = rollup[i].app
    BY <2>1, WorldKeepsRuns DEF Happen, RedsSeen
  <2>3. Observed(rollup'[i]) = Observed(rollup[i])
    BY <2>1, <2>2 DEF Observed, RedsSeen
  <2> QED
    BY <2>1, <2>2, <2>3 DEF RedsSeen
<1>4. RequiredSeen'
  BY <1>2 DEF RequiredSeen, Happen
<1>5. Course'
  BY <1>2 DEF Course, SeenRuns, bundle
<1> QED
  BY <1>1, <1>3, <1>4, <1>5

\* The reads see every red run and every required context that stay.
LEMMA FetchStepGate == GateInv /\ Fetch => GateInv'
<1> SUFFICES ASSUME GateInv, Fetch PROVE GateInv'
  OBVIOUS
<1> USE DEF GateInv
<1>0. UNCHANGED world
  BY DEF Fetch, ViewPr, ReadRules, ReadClassic, ReadFails, NoGate, Assemble
<1>1. rollup' \in Seq(Runs) /\ classic' \in Protections
  BY <1>0 DEF world
<1>2. CASE ViewPr
  <2>1. RedsSeen'
    BY <1>0, <1>2 DEF ViewPr, RedsSeen, world, Observed
  <2>2. RequiredSeen' /\ Course'
    BY <1>0, <1>2 DEF ViewPr, RequiredSeen, Course, world
  <2> QED
    BY <1>1, <2>1, <2>2
<1>3. ASSUME UNCHANGED <<seen, past>> PROVE RedsSeen'
  BY <1>0, <1>3 DEF RedsSeen, world, past, Observed
<1>4. CASE ReadRules
  <2>1. RequiredSeen' /\ Course'
    BY <1>0, <1>4 DEF ReadRules, RequiredSeen, Course, world, past, bundle
  <2> QED
    BY <1>1, <1>3, <1>4, <2>1 DEF ReadRules
<1>5. CASE ReadClassic
  <2>1. RequiredSeen' /\ Course'
    BY <1>0, <1>5, UnprotectedAssumption
    DEF ReadClassic, Exit, RequiredSeen, Course, world, past, bundle
  <2> QED
    BY <1>1, <1>3, <1>5, <2>1 DEF ReadClassic
<1>6. CASE ReadFails \/ NoGate
  <2>1. RequiredSeen' /\ Course'
    BY <1>0, <1>6 DEF ReadFails, NoGate, Exit, RequiredSeen, Course, world, past, bundle
  <2> QED
    BY <1>1, <1>3, <1>6, <2>1 DEF ReadFails, NoGate
<1>7. ASSUME NEW policy, Assemble(policy) PROVE GateInv'
  <2>1. RequiredSeen'
    BY <1>0, <1>7 DEF Assemble, Exit, RequiredSeen, world, past
  <2>2. Course'
    BY <1>0, <1>7 DEF Assemble, Exit, Course, SeenRuns
  <2> QED
    BY <1>1, <1>3, <1>7, <2>1, <2>2 DEF Assemble
<1> QED
  BY <1>2, <1>4, <1>5, <1>6, <1>7 DEF Fetch

\* The invariant holds in every reachable state.
LEMMA GateInvariant == Spec => []GateInv
<1>1. Init => GateInv
  BY WorldAssumption DEF Init, InitWorld, GateInv, RedsSeen, RequiredSeen, Course
<1>2. ASSUME GateInv, UNCHANGED vars PROVE GateInv'
  <2>1. RedsSeen'
    BY <1>2 DEF GateInv, RedsSeen, vars, world, past, Observed
  <2>2. RequiredSeen' /\ Course'
    BY <1>2 DEF GateInv, RequiredSeen, Course, SeenRuns, vars, world, past, bundle
  <2> QED
    BY <1>2, <2>1, <2>2 DEF GateInv, vars, world
<1>3. GateInv /\ [Next]_vars => GateInv'
  BY <1>2, HappenGate, FetchStepGate DEF Next
<1> QED
  BY <1>1, <1>3, PTL DEF Spec

\* A run that is red all along under a context required all along keeps the
\* gate from being green, whatever passes under the same name.
THEOREM RedNeverTurnsGreen == Spec => []RedIsNeverGreen
<1>1. GateInv => RedIsNeverGreen
  <2> SUFFICES ASSUME GateInv, Fetched, Evaluate(result) = "Green", NEW i \in red,
                      rollup[i].name \in ruled \cup guarded
               PROVE  FALSE
    BY DEF RedIsNeverGreen
  <2> DEFINE obs == {Observed(r) : r \in SeenRuns}
             o == Observed(rollup[i])
  <2>1. result = BuildGate(required, obs) /\ o.name \in required
    BY DEF GateInv, Course, RequiredSeen, Fetched, Observed
  <2>2. o \in obs /\ o.run = "Failed"
    BY DEF GateInv, RedsSeen, SeenRuns
  <2>3. \A x \in obs : x.run \in CheckRun
    BY DEF Observed, FromGithub, Recognised, CheckRun
  <2> HIDE DEF obs, o
  <2>4. Satisfied(o.run)
    BY <2>1, <2>2, <2>3, GreenIsEarned
  <2> QED
    BY <2>2, <2>4 DEF Satisfied
<1> QED
  BY <1>1, GateInvariant, PTL

\* Exit 3 is a finding about the branch.
THEOREM NoGateIsAFinding == Spec => []NoGateIsReal
<1>1. GateInv => NoGateIsReal
  BY DEF GateInv, Course, RequiredSeen, NoGateIsReal
<1> QED
  BY <1>1, GateInvariant, PTL

-----------------------------------------------------------------------------
(***************************************************************************)
(* A run at rest, and the probe.                                           *)
(***************************************************************************)

\* While nothing changes, what has been read is what is there.
RestInv ==
  quiet =>
    /\ pc # "idle" \/ exit = "0" => seen = rollup
    /\ pc = "classic" => required = rules.contexts
    /\ pc = "union" \/ exit = "0" => required = RequiredBy(rules, classic)

\* The bundle is made of what has been read.
BundleInv ==
  exit = "0" =>
    /\ required # {} /\ startup = Startup
    /\ probe # "NotTriggered" <=> startup # {}

\* Every step keeps what is said of a run at rest and of its bundle.
LEMMA RestStep ==
  ASSUME GateInv, RestInv, BundleInv, [Next]_vars
  PROVE  RestInv' /\ BundleInv'
<1>1. CASE UNCHANGED vars
  BY <1>1 DEF RestInv, BundleInv, vars, world, past, bundle, Startup, SeenRuns
<1>2. CASE Happen
  BY <1>2 DEF Happen, RestInv, BundleInv, bundle, Startup, SeenRuns
<1>3. CASE ViewPr
  BY <1>3 DEF ViewPr, RestInv, BundleInv, world
<1>4. CASE ReadRules
  BY <1>4 DEF ReadRules, RestInv, BundleInv, world, past, bundle, GateInv, Course
<1>5. CASE ReadClassic
  <2>1. classic.kind = "NotProtected" => classic.contexts = {}
    BY UnprotectedAssumption DEF GateInv
  <2> QED
    BY <1>5, <2>1 DEF ReadClassic, Exit, RestInv, BundleInv, world, past, bundle, GateInv,
                      Course, RequiredBy
<1>6. CASE ReadFails \/ NoGate
  BY <1>6 DEF ReadFails, NoGate, Exit, RestInv, BundleInv, world, past, bundle
<1>7. ASSUME NEW policy \in {"Fetched", "Failed"}, Assemble(policy)
      PROVE  RestInv' /\ BundleInv'
  <2>1. RestInv'
    BY <1>7 DEF Assemble, Exit, RestInv, world, past
  <2>2. BundleInv'
    BY <1>7 DEF Assemble, Exit, BundleInv, Startup, SeenRuns
  <2> QED
    BY <2>1, <2>2
<1> QED
  BY <1>1, <1>2, <1>3, <1>4, <1>5, <1>6, <1>7 DEF Next, Fetch

\* The three invariants hold together.
LEMMA RestInvariant == Spec => [](GateInv /\ RestInv /\ BundleInv)
<1>1. Init => GateInv /\ RestInv /\ BundleInv
  BY WorldAssumption DEF Init, InitWorld, GateInv, RedsSeen, RequiredSeen, Course, RestInv,
                         BundleInv
<1>2. GateInv /\ RestInv /\ BundleInv /\ [Next]_vars => RestInv' /\ BundleInv'
  BY RestStep
<1> QED
  BY <1>1, <1>2, GateInvariant, PTL DEF Spec

\* A run is satisfied exactly if GitHub concluded it so (gate.rs, from_github).
LEMMA SatisfiedConclusions ==
  ASSUME NEW r, r.conclusion \in Conclusion
  PROVE  /\ Observed(r).run \in CheckRun /\ Observed(r).name = r.name
         /\ Satisfied(Observed(r).run) <=> r.conclusion \in {"SUCCESS", "SKIPPED", "NEUTRAL"}
         /\ r.conclusion = "STARTUP_FAILURE" => Observed(r).run = "Failed"
BY DEF Observed, FromGithub, Recognised, Conclusion, CheckRun, Satisfied

\* What was seen are runs.
LEMMA SeenAreRuns ==
  ASSUME rollup \in Seq(Runs), seen = rollup
  PROVE  \A r \in SeenRuns : r.conclusion \in Conclusion
BY WorldAssumption DEF SeenRuns

\* If nothing changes while it reads, the gate of `squabble fetch` is the gate
\* of the branch, for every rollup and every pair of protection mechanisms
\* (fetch.rs, run_bundle; gate.rs, build and evaluate).
THEOREM QuietGateIsExact == Spec => []QuietGateExact
<1>1. ASSUME GateInv, RestInv, BundleInv
      PROVE  QuietGateExact
  <2> SUFFICES ASSUME quiet, Fetched
               PROVE  QuietGateExact
    BY DEF QuietGateExact
  <2> DEFINE obs == {Observed(r) : r \in SeenRuns}
             R == RequiredBy(rules, classic)
             ofName(c) == {i \in DOMAIN rollup : rollup[i].name = c}
  <2>1. /\ seen = rollup /\ required = R /\ R # {} /\ rollup \in Seq(Runs)
        /\ result = BuildGate(R, obs)
    BY <1>1 DEF GateInv, RestInv, BundleInv, Course, Fetched
  <2>2. DOMAIN result = R
    BY <2>1 DEF BuildGate
  <2>3. \A r \in SeenRuns : r.conclusion \in Conclusion
    BY <2>1, SeenAreRuns
  <2>4. \A o \in obs : o.run \in CheckRun
    BY <2>3, SatisfiedConclusions
  <2>5. Evaluate(result) = "Green" <=>
          \A c \in R : /\ \E o \in obs : o.name = c
                       /\ \A o \in obs : o.name = c => Satisfied(o.run)
    <3> HIDE DEF obs, R
    <3> QED
      BY <2>1, <2>4, GreenIsEarned
  <2>6. ASSUME NEW c
        PROVE  /\ (\E o \in obs : o.name = c) <=> ofName(c) # {}
               /\ (\A o \in obs : o.name = c => Satisfied(o.run)) <=>
                    \A i \in ofName(c) : rollup[i].conclusion \in {"SUCCESS", "SKIPPED", "NEUTRAL"}
    <3>1. SeenRuns = {rollup[i] : i \in DOMAIN rollup}
      BY <2>1 DEF SeenRuns
    <3>2. \A r \in SeenRuns : /\ Observed(r).name = r.name
                              /\ Satisfied(Observed(r).run) <=>
                                   r.conclusion \in {"SUCCESS", "SKIPPED", "NEUTRAL"}
      BY <2>3, SatisfiedConclusions
    <3> QED
      BY <3>1, <3>2
  <2> HIDE DEF obs, R
  <2>7. Evaluate(result) = "Green" <=>
          \A c \in R : /\ ofName(c) # {}
                       /\ \A i \in ofName(c) :
                            rollup[i].conclusion \in {"SUCCESS", "SKIPPED", "NEUTRAL"}
    BY <2>5, <2>6
  <2> QED
    BY <2>2, <2>7 DEF QuietGateExact, R
<1> QED
  BY <1>1, RestInvariant, PTL

\* The probe explains a red: it was made exactly for a required check that
\* refused to start, and each such check is Failed in the gate, whatever else
\* runs under its name (fetch.rs, run_bundle).
THEOREM ProbeExplainsItsRed == Spec => []ProbeExplainsRed
<1>1. ASSUME GateInv, BundleInv
      PROVE  ProbeExplainsRed
  <2> SUFFICES ASSUME Fetched
               PROVE  ProbeExplainsRed
    BY DEF ProbeExplainsRed
  <2> DEFINE obs == {Observed(r) : r \in SeenRuns}
  <2>1. /\ startup = Startup /\ (probe # "NotTriggered" <=> startup # {})
        /\ result = BuildGate(required, obs)
    BY <1>1 DEF GateInv, BundleInv, Course, Fetched
  <2>2. ASSUME NEW c \in startup
        PROVE  result[c] = "Failed"
    <3> DEFINE runs == {o.run : o \in {x \in obs : x.name = c}}
    <3>1. PICK r \in SeenRuns : r.name = c /\ r.conclusion = "STARTUP_FAILURE"
      BY <2>1, <2>2 DEF Startup
    <3>2. Observed(r).name = c /\ Observed(r).run = "Failed"
      BY <3>1, SatisfiedConclusions DEF Conclusion, Recognised
    <3>3. "Failed" \in runs
      BY <3>2
    <3>4. runs \subseteq CheckRun
      <4>1. \A x : Observed(x).run \in CheckRun
        BY DEF Observed, FromGithub, Recognised, CheckRun
      <4> QED
        BY <4>1
    <3>5. c \in required /\ result[c] = ForContext(runs)
      BY <2>1, <2>2 DEF Startup, BuildGate
    <3> HIDE DEF runs
    <3>6. ForContext(runs) \in CheckRun /\ Rank("Failed") <= Rank(ForContext(runs))
      BY <3>3, <3>4, WorstDecides
    <3>7. \A s \in CheckRun : Rank("Failed") <= Rank(s) => s = "Failed"
      BY DEF Rank, CheckRun
    <3> QED
      BY <3>5, <3>6, <3>7
  <2> QED
    BY <2>1, <2>2 DEF ProbeExplainsRed
<1> QED
  BY <1>1, RestInvariant, PTL
=============================================================================
