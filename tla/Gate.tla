-------------------------------- MODULE Gate --------------------------------
(***************************************************************************)
(* The gate of a branch: the required contexts, each bound to the run that *)
(* decides it (crates/squabble-core/src/gate.rs; the SPARK package         *)
(* spark/src/gate_machine.ads states the same evaluation).  A gate is a    *)
(* function from required contexts to runs: both fetchers remove           *)
(* duplicates from the required contexts before they build one.            *)
(***************************************************************************)
EXTENDS Naturals

CheckRun  == {"Missing", "Pending", "Failed", "Skipped", "Passed"}
GateState == {"Blocked", "Red", "Green"}

\* GitHub's rollup: a check run has a status and, once completed, a
\* conclusion; a commit status has a state only, passed as the conclusion.
Status     == {"none", "QUEUED", "IN_PROGRESS", "COMPLETED"}
Recognised == {"SUCCESS", "SKIPPED", "NEUTRAL", "FAILURE", "ERROR",
               "TIMED_OUT", "CANCELLED", "STARTUP_FAILURE"}
Conclusion == Recognised \cup {"none", "PENDING", "EXPECTED",
                               "ACTION_REQUIRED", "STALE"}

\* Mutant: whatever completed without a known conclusion has passed.
FromGithubLenient(status, conclusion) ==
  CASE conclusion = "SUCCESS"                -> "Passed"
    [] conclusion \in {"SKIPPED", "NEUTRAL"} -> "Skipped"
    [] conclusion \in {"FAILURE", "ERROR", "TIMED_OUT", "CANCELLED",
                       "STARTUP_FAILURE"}    -> "Failed"
    [] conclusion \notin Recognised ->
         IF status = "COMPLETED" THEN "Passed" ELSE "Pending"

FromGithub(status, conclusion) ==
  CASE conclusion = "SUCCESS"                -> "Passed"
    [] conclusion \in {"SKIPPED", "NEUTRAL"} -> "Skipped"
    [] conclusion \in {"FAILURE", "ERROR", "TIMED_OUT", "CANCELLED",
                       "STARTUP_FAILURE"}    -> "Failed"
    [] conclusion \notin Recognised ->
         IF status = "COMPLETED" THEN "Failed" ELSE "Pending"

Rank(run) == CASE run = "Failed"  -> 4
               [] run = "Missing" -> 3
               [] run = "Pending" -> 2
               [] run = "Skipped" -> 1
               [] run = "Passed"  -> 0

\* Mutant: the best run of a name decides.
ForContextBest(runs) ==
  IF runs = {} THEN "Missing"
               ELSE CHOOSE r \in runs : \A s \in runs : Rank(r) <= Rank(s)

\* The run that decides a context: the worst of the runs of its name.
ForContext(runs) ==
  IF runs = {} THEN "Missing"
               ELSE CHOOSE r \in runs : \A s \in runs : Rank(s) <= Rank(r)

Satisfied(run) == run \in {"Passed", "Skipped"}

\* The gate of the required contexts, from the observed [name, run, ...].
BuildGate(required, observed) ==
  [c \in required |-> ForContext({o.run : o \in {x \in observed : x.name = c}})]

Evaluate(gate) ==
  IF \A c \in DOMAIN gate : Satisfied(gate[c])
    THEN IF DOMAIN gate = {} THEN "Blocked" ELSE "Green"
    ELSE IF \E c \in DOMAIN gate : gate[c] = "Failed" THEN "Red" ELSE "Blocked"

Unsatisfied(gate)  == {c \in DOMAIN gate : ~Satisfied(gate[c])}
=============================================================================
