------------------------------ MODULE FetchGate ------------------------------
(***************************************************************************)
(* `squabble fetch` (and the first half of `squabble fight`): a process    *)
(* that turns a live pull request into a gate.  It reads the rollup of the *)
(* head in one call, then the ruleset rules and the classic protection of  *)
(* the base branch in one call each, and probes the Actions policy when a  *)
(* required check refused to start.                                        *)
(*                                                                         *)
(* Sources: crates/squabble-cli/src/fetch.rs (run_bundle) and              *)
(* crates/squabble-core/src/gate.rs.                                       *)
(***************************************************************************)
EXTENDS PullRequest

VARIABLES
  pc,        \* what the process does next
  seen,      \* status_check_rollup
  required,  \* required_contexts
  result,    \* FetchBundle::gate
  greens,    \* FetchBundle::greens: runs whose steps can be inspected
  startup,   \* FetchBundle::startup_failed
  probe,     \* FetchBundle::policy_probe
  exit,      \* exit code of the last run
  \* history
  quiet,     \* the world has not changed since the run started
  red,       \* runs of the head failed ever since
  ruled,     \* contexts the rulesets required ever since
  guarded    \* contexts classic protection required ever since

bundle == <<result, greens, startup, probe>>
past   == <<quiet, red, ruled, guarded>>
vars   == <<world, pc, seen, required, bundle, exit, past>>

Init ==
  /\ InitWorld
  /\ pc = "idle"
  /\ seen = <<>> /\ required = {}
  /\ result = <<>> /\ greens = {} /\ startup = {} /\ probe = "NotTriggered"
  /\ exit = "none"
  /\ quiet = FALSE /\ red = {} /\ ruled = {} /\ guarded = {}

\* The world changes, with its history.
Happen ==
  /\ World
  /\ quiet' = FALSE
  /\ red' = IF head' # head THEN {}
              ELSE {i \in red : Observed(rollup'[i]).run = "Failed"}
  /\ ruled' = ruled \cap rules'.contexts
  /\ guarded' = guarded \cap classic'.contexts
  /\ UNCHANGED <<pc, seen, required, bundle, exit>>

Exit(code) == pc' = "idle" /\ exit' = code

\* gh pr view: the base branch and the whole rollup, at one instant.
ViewPr ==
  /\ pc = "idle"
  /\ pc' = "rules"
  /\ seen' = rollup
  /\ required' = {}
  /\ result' = <<>> /\ greens' = {} /\ startup' = {} /\ probe' = "NotTriggered"
  /\ exit' = "none"
  /\ quiet' = TRUE
  /\ red' = {i \in DOMAIN rollup : Observed(rollup[i]).run = "Failed"}
  /\ ruled' = rules.contexts
  /\ guarded' = classic.contexts
  /\ UNCHANGED world

ReadRules ==
  /\ pc = "rules"
  /\ required' = rules.contexts
  /\ pc' = "classic"
  /\ UNCHANGED <<world, seen, bundle, exit, past>>

\* Mutant: only the rulesets require contexts.
ReadClassicIgnored ==
  /\ pc = "classic"
  /\ \/ /\ classic.kind # "Hidden"
        /\ pc' = "union"
        /\ UNCHANGED exit
     \/ /\ classic.kind = "Hidden"
        /\ Exit("2")
  /\ UNCHANGED <<world, seen, required, bundle, past>>

\* Classic protection is visible, absent (404) or hidden (403: an error).
ReadClassic ==
  /\ pc = "classic"
  /\ \/ /\ classic.kind = "Protected"
        /\ required' = required \cup classic.contexts
        /\ pc' = "union"
        /\ UNCHANGED exit
     \/ /\ classic.kind = "NotProtected"
        /\ pc' = "union"
        /\ UNCHANGED <<required, exit>>
     \/ /\ classic.kind = "Hidden"
        /\ Exit("2")
        /\ UNCHANGED required
  /\ UNCHANGED <<world, seen, bundle, past>>

\* Any call fails or does not parse.
ReadFails ==
  /\ pc \in {"rules", "classic"}
  /\ Exit("2")
  /\ UNCHANGED <<world, seen, required, bundle, past>>

NoGate ==
  /\ pc = "union"
  /\ required = {}
  /\ Exit("3")
  /\ UNCHANGED <<world, seen, required, bundle, past>>

SeenRuns == {seen[i] : i \in DOMAIN seen}

Startup == {c \in required : \E r \in SeenRuns :
              r.name = c /\ r.conclusion = "STARTUP_FAILURE"}

\* A commit status that succeeded has no job whose steps could be read.
Greens == {r \in SeenRuns : r.conclusion = "SUCCESS" /\ r.status # "none"}

\* The bundle; `policy` is what the Actions-policy probe gives, if needed.
Assemble(policy) ==
  /\ pc = "union"
  /\ required # {}
  /\ startup' = Startup
  /\ probe' = IF Startup = {} THEN "NotTriggered" ELSE policy
  /\ result' = BuildGate(required, {Observed(r) : r \in SeenRuns})
  /\ greens' = Greens
  /\ Exit("0")
  /\ UNCHANGED <<world, seen, required, past>>

Fetch ==
  \/ ViewPr
  \/ ReadRules
  \/ ReadClassic
  \/ ReadFails
  \/ NoGate
  \/ \E policy \in {"Fetched", "Failed"} : Assemble(policy)

Next == Happen \/ Fetch

Spec == Init /\ [][Next]_vars

-----------------------------------------------------------------------------
(***************************************************************************)
(* Properties.                                                             *)
(***************************************************************************)
Fetched == pc = "idle" /\ exit = "0"

\* A run that was red throughout under a context that was required throughout
\* by the same mechanism keeps the fetched gate from being green, whatever
\* passes beside it under the same name and whatever else changed in between.
RedIsNeverGreen ==
  Fetched /\ Evaluate(result) = "Green" =>
    \A i \in red : rollup[i].name \notin ruled \cup guarded

\* "No gate" (exit 3) is a finding about the branch, not about the token or
\* the moment: no context was required throughout by either mechanism, and
\* nothing was hidden if nothing changed.
NoGateIsReal ==
  exit = "3" => /\ ruled \cup guarded = {}
                /\ quiet => classic.kind # "Hidden"

\* If nothing changes while it reads, the gate is the gate of the branch: it
\* is green exactly if every context either mechanism requires has a run on
\* the head and all runs of that name are satisfied.
QuietGateExact ==
  quiet /\ Fetched =>
    /\ DOMAIN result = RequiredBy(rules, classic)
    /\ Evaluate(result) = "Green" <=>
         \A c \in RequiredBy(rules, classic) :
           LET runs == {i \in DOMAIN rollup : rollup[i].name = c}
           IN /\ runs # {}
              /\ \A i \in runs : rollup[i].conclusion \in {"SUCCESS", "SKIPPED", "NEUTRAL"}

\* The Actions policy is probed for a required check that refused to start,
\* and then that check is Failed in the gate: the probe explains a red.
ProbeExplainsRed ==
  Fetched => /\ probe # "NotTriggered" <=> startup # {}
             /\ \A c \in startup : result[c] = "Failed"
=============================================================================
