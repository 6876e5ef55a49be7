-------------------------------- MODULE ZeroJob --------------------------------
(***************************************************************************)
(* `squabble zero-job`: a process that reads a checkout, the failed runs   *)
(* of its repository and their job counts, the native lock, the Actions    *)
(* policy and the names of upstreams, and attributes each failed run.      *)
(* The checkout is switched or edited, runs are re-run, the policy and the *)
(* names change while it reads.                                            *)
(*                                                                         *)
(* Sources: crates/squabble-cli/src/zero_job.rs (the process),             *)
(* crates/squabble-cli/src/lock_verifier.rs (source identity and lock),    *)
(* crates/squabble-cli/src/fetch.rs (the policy),                          *)
(* crates/squabble-forge/src/rest.rs (names).                              *)
(***************************************************************************)
EXTENDS Startup

CONSTANTS
  Rev,        \* revisions of the repository
  TreeOf,     \* per revision its workflows
  LockOf,     \* per revision what the native verifier finds in it
  Run,        \* runs of the listed page
  Verified,   \* names of verified creators
  Owned,      \* names whose account exists
  Policies,   \* postures the repository may have
  Situations  \* GitHub, the checkout and the arguments at first

NotCounted == 0 - 1

\* The workflow files of a tree, and their references.
Source == [present : SUBSET File, files : Workflows]

Lock == [status : {"Verified", "Malformed", "CoverageMismatch"}, bad : SUBSET File]

Policy == [allowed : {"all", "local_only", "selected"}, list : AllowList]

\* `tree` is the revision whose workflows are in the working tree; `rest` says
\* that something else in it was edited.
Checkout == [head : Rev, tree : Rev, rest : BOOLEAN]

\* A run of the workflow `file`; `denoted` are the files its path may mean.
RunRecord ==
  [conclusion : {"startup_failure", "failure", "none"}, head : Rev \cup {NoRev},
   file : File, denoted : SUBSET File, jobs : Nat]

Situation ==
  [checkout : Checkout, runs : [Run -> RunRecord], policy : Policy,
   home : [Repo -> Repo \cup {NoRepo}], verifier : BOOLEAN, faults : Nat,
   changes : Nat]

ASSUME SituationAssumption ==
  /\ Rev \subseteq Nat \ {NoRev} /\ Run \subseteq Nat
  /\ TreeOf \in [Rev -> Source] /\ LockOf \in [Rev -> Lock]
  /\ \A r \in Rev : IsFiniteSet(TreeOf[r].present)
  /\ Verified \subseteq Repo /\ Owned \subseteq Repo /\ GithubOwned \subseteq Repo
  /\ Policies \subseteq Policy /\ Situations \subseteq Situation
  /\ \A s \in Situations : \A i \in Run :
       /\ s.runs[i].file \in s.runs[i].denoted
       /\ s.runs[i].head # NoRev => s.runs[i].file \in TreeOf[s.runs[i].head].present

VARIABLES
  checkout, runs, policy, home,   \* the world
  changes,   \* changes left
  switches,  \* changes of the checkout so far
  touched,   \* what changed: runs, names, the policy
  begun,     \* the situation at first
  pc,        \* where the process is
  before,    \* revision of the checkout before the snapshot, or NoRev
  source,    \* the snapshot
  listed,    \* candidates, with what was read of them
  uncounted, \* candidates whose jobs were not read yet
  head,      \* the established revision, or NoRev
  lock, list, targets, names,   \* evidence read so far
  report,    \* attributions by run
  faults,    \* failures left
  exit       \* exit code, or -1

world   == <<checkout, runs, policy, home, changes, switches, touched>>
reading == <<before, source, listed, uncounted, head, lock, list, targets, names>>
vars    == <<world, begun, pc, reading, report, faults, exit>>

NoSource == [present |-> {}, files |-> NoFiles]

Init ==
  \E s \in Situations :
    /\ checkout = s.checkout /\ runs = s.runs /\ policy = s.policy /\ home = s.home
    /\ changes = s.changes /\ switches = 0 /\ touched = [runs |-> {}, names |-> {}, policy |-> FALSE]
    /\ begun = s /\ pc = "before" /\ faults = s.faults /\ exit = 0 - 1
    /\ before = NoRev /\ source = NoSource /\ listed = <<>> /\ uncounted = {}
    /\ head = NoRev /\ lock = NoLock /\ list = NoList /\ targets = {} /\ names = <<>>
    /\ report = <<>>

-----------------------------------------------------------------------------
(***************************************************************************)
(* The world.                                                              *)
(***************************************************************************)
Change == exit < 0 /\ changes > 0 /\ changes' = changes - 1

\* Another commit is checked out, or files are edited or restored.
Switch ==
  /\ Change
  /\ checkout' \in Checkout \ {checkout}
  /\ switches' = switches + 1
  /\ UNCHANGED <<runs, policy, home, touched>>

\* A new attempt of a run: in progress, with jobs.
Rerun(i) ==
  /\ Change /\ runs[i].conclusion # "none"
  /\ runs' = [runs EXCEPT ![i].conclusion = "none", ![i].jobs = 1]
  /\ touched' = [touched EXCEPT !.runs = @ \cup {i}]
  /\ UNCHANGED <<checkout, policy, home, switches>>

Post(p) ==
  /\ Change /\ p # policy
  /\ policy' = p
  /\ touched' = [touched EXCEPT !.policy = TRUE]
  /\ UNCHANGED <<checkout, runs, home, switches>>

\* The repository of a name is renamed to a free one, or deleted (NoRepo).
Rename(n, m) ==
  /\ Change /\ home[n] = n /\ (m # NoRepo => home[m] = NoRepo /\ m \in Owned)
  /\ home' = [k \in Repo |-> IF home[k] = n \/ (k = m /\ m # NoRepo) THEN m ELSE home[k]]
  /\ touched' = [touched EXCEPT !.names = @ \cup {k \in Repo : home[k] = n} \cup ({m} \ {NoRepo})]
  /\ UNCHANGED <<checkout, runs, policy, switches>>

World ==
  /\ \/ Switch
     \/ \E i \in Run : Rerun(i)
     \/ \E p \in Policies : Post(p)
     \/ \E n \in Repo : \E m \in Repo \cup {NoRepo} : Rename(n, m)
  /\ UNCHANGED <<begun, pc, reading, report, faults, exit>>

-----------------------------------------------------------------------------
(***************************************************************************)
(* The process.                                                            *)
(***************************************************************************)
Fault == faults > 0 /\ faults' = faults - 1
NoFault == UNCHANGED faults

ToolFailure == exit' = 2 /\ pc' = "end"

Goes(next) == pc' = next /\ UNCHANGED exit

\* The commit at HEAD if the workflow tree (`full`: the whole tree) is as
\* committed.
SourceRevision(full) ==
  IF checkout.tree = checkout.head /\ (full => ~checkout.rest) THEN checkout.head ELSE NoRev

ReadBefore ==
  /\ pc = "before" /\ NoFault /\ Goes("snapshot")
  /\ before' = SourceRevision(FALSE)
  /\ UNCHANGED <<world, begun, source, listed, uncounted, head, lock, list, targets, names, report>>

TakeSnapshot ==
  /\ pc = "snapshot"
  /\ \/ NoFault /\ source' = TreeOf[checkout.tree] /\ Goes("listing")
     \/ Fault /\ ToolFailure /\ UNCHANGED source
  /\ UNCHANGED <<world, begun, before, listed, uncounted, head, lock, list, targets, names, report>>

\* Failed runs of the page, whatever the spelling of their failure.
Failed(i) == runs[i].conclusion \in {"startup_failure", "failure"}

ListRuns ==
  /\ pc = "listing"
  /\ \/ /\ NoFault /\ Goes("jobs")
        /\ uncounted' = {i \in Run : Failed(i)}
        /\ listed' = [i \in uncounted' |-> [runs[i] EXCEPT !.jobs = NotCounted]]
     \/ Fault /\ ToolFailure /\ UNCHANGED <<listed, uncounted>>
  /\ UNCHANGED <<world, begun, before, source, head, lock, list, targets, names, report>>

\* A failed request leaves the count unknown, a malformed answer fails the run.
CountJobs ==
  /\ pc = "jobs" /\ uncounted # {}
  /\ LET i == CHOOSE n \in uncounted : \A m \in uncounted : n <= m IN
     \/ NoFault /\ listed' = [listed EXCEPT ![i].jobs = runs[i].jobs]
        /\ uncounted' = uncounted \ {i} /\ Goes("jobs")
     \/ Fault /\ uncounted' = uncounted \ {i} /\ Goes("jobs") /\ UNCHANGED listed
     \/ Fault /\ ToolFailure /\ UNCHANGED <<listed, uncounted>>
  /\ UNCHANGED <<world, begun, before, source, head, lock, list, targets, names, report>>

\* Mutant: only runs seen without jobs are kept.
RetainedCounted == {i \in DOMAIN listed : listed[i].jobs = 0}

\* An ordinary failure that had jobs is for another command.
Retained == {i \in DOMAIN listed : ~(listed[i].conclusion = "failure" /\ listed[i].jobs > 0)}

JobsEnd ==
  /\ pc = "jobs" /\ uncounted = {} /\ NoFault /\ Goes("after")
  /\ listed' = [i \in Retained |-> listed[i]]
  /\ UNCHANGED <<world, begun, before, source, uncounted, head, lock, list, targets, names, report>>

\* The revision counts only if it was the same before and after.
Established ==
  IF SameRevision(before, SourceRevision(FALSE)) THEN before ELSE NoRev

Matching(i, rev) == listed[i].jobs = 0 /\ SameRevision(listed[i].head, rev)

\* The lock and the policy are read only if some run could be attributed.
ReadAfter ==
  /\ pc = "after" /\ NoFault
  /\ head' = Established
  /\ Goes(IF ~\E i \in DOMAIN listed : Matching(i, head') THEN "report"
          ELSE IF begun.verifier THEN "verify" ELSE "permissions")
  /\ UNCHANGED <<world, begun, before, source, listed, uncounted, lock, list, targets, names, report>>

-----------------------------------------------------------------------------
(***************************************************************************)
(* The native lock verifier.                                               *)
(***************************************************************************)
Unverified == [status |-> "Unverified", head |-> head, bad |-> {}]

\* It runs on a pristine checkout of the revision only; its version is asked.
StartVerifier ==
  /\ pc = "verify"
  /\ \/ NoFault /\ SameRevision(SourceRevision(TRUE), head) /\ Goes("native") /\ UNCHANGED lock
     \/ NoFault /\ ~SameRevision(SourceRevision(TRUE), head) /\ lock' = Unverified /\ Goes("permissions")
     \/ Fault /\ lock' = Unverified /\ Goes("permissions")
  /\ UNCHANGED <<world, begun, before, source, listed, uncounted, head, list, targets, names, report>>

\* What it says of the tree it finds; a malformed lock has no report, any other
\* one counts only if it is about exactly the expected workflows.
Classify(found, seen, expected) ==
  IF found.status = "Malformed" \/ (seen = expected /\ expected # {})
  THEN [status |-> found.status, head |-> head, bad |-> found.bad]
  ELSE Unverified

RunVerifier ==
  /\ pc = "native" /\ Goes("recheck")
  /\ \/ NoFault /\ lock' = Classify(LockOf[checkout.tree], TreeOf[checkout.tree].present, source.present)
     \/ Fault /\ lock' = Unverified
  /\ UNCHANGED <<world, begun, before, source, listed, uncounted, head, list, targets, names, report>>

\* Mutant: the answer of the tool counts.
Trusted == lock

\* A checkout that changed meanwhile makes it unverified.
Rechecked == IF SameRevision(SourceRevision(TRUE), head) THEN lock ELSE Unverified

EndVerifier ==
  /\ pc = "recheck" /\ NoFault /\ Goes("permissions")
  /\ lock' = Rechecked
  /\ UNCHANGED <<world, begun, before, source, listed, uncounted, head, list, targets, names, report>>

-----------------------------------------------------------------------------
(***************************************************************************)
(* The policy, in two reads, and the names.                                *)
(***************************************************************************)
Wanted ==
  {u.to : u \in UNION {ToSet(source.files[ResolveRunWorkflow(listed[i].denoted, source.present)]) :
     i \in {j \in DOMAIN listed : /\ Matching(j, head)
              /\ ResolveRunWorkflow(listed[j].denoted, source.present) # NoFile}}}

PolicyRead(found) == list' = found /\ targets' = Wanted /\ Goes("names")

\* Only `selected` has a list; a failed probe is a note.
ReadPermissions ==
  /\ pc = "permissions"
  /\ \/ NoFault /\ policy.allowed = "selected" /\ Goes("selected") /\ UNCHANGED <<list, targets>>
     \/ NoFault /\ policy.allowed # "selected" /\ PolicyRead(NoList)
     \/ Fault /\ PolicyRead(NoList)
  /\ UNCHANGED <<world, begun, before, source, listed, uncounted, head, lock, names, report>>

\* The second read is refused when the posture is another one by now.
ReadSelected ==
  /\ pc = "selected"
  /\ \/ NoFault /\ policy.allowed = "selected" /\ PolicyRead(policy.list)
     \/ NoFault /\ policy.allowed # "selected" /\ PolicyRead(NoList)
     \/ Fault /\ PolicyRead(NoList)
  /\ UNCHANGED <<world, begun, before, source, listed, uncounted, head, lock, names, report>>

NextName == CHOOSE n \in targets : \A m \in targets : n <= m

NameIs(resolution) ==
  /\ names' = [n \in DOMAIN names \cup {NextName} |->
                 IF n = NextName THEN resolution ELSE names[n]]
  /\ targets' = targets \ {NextName}
  /\ Goes("names")

\* A name that leads nowhere asks for its owner.
ResolveName ==
  /\ pc = "names" /\ targets # {}
  /\ LET n == NextName IN
     \/ NoFault /\ home[n] = n /\ NameIs(Named("Canonical"))
     \/ NoFault /\ home[n] \notin {n, NoRepo} /\ NameIs(MovedTo(home[n]))
     \/ NoFault /\ home[n] = NoRepo /\ Goes("owner") /\ UNCHANGED <<names, targets>>
     \/ Fault /\ NameIs(Named("Unverified"))
  /\ UNCHANGED <<world, begun, before, source, listed, uncounted, head, lock, list, report>>

OwnerSays(n) == Named(IF n \in Owned THEN "Unverified" ELSE "NotFound")

ProbeOwner ==
  /\ pc = "owner"
  /\ \/ NoFault /\ NameIs(OwnerSays(NextName))
     \/ Fault /\ NameIs(Named("Unverified"))
  /\ UNCHANGED <<world, begun, before, source, listed, uncounted, head, lock, list, report>>

NamesEnd ==
  /\ pc = "names" /\ targets = {} /\ NoFault /\ Goes("report")
  /\ UNCHANGED <<world, begun, reading, report>>

\* Every candidate is in the report; any of them blocks.
Report ==
  /\ pc = "report" /\ NoFault /\ pc' = "end"
  /\ report' = [i \in DOMAIN listed |-> AttributeRun(listed[i], source, names, list, head, lock)]
  /\ exit' = IF DOMAIN listed # {} THEN 4 ELSE 0
  /\ UNCHANGED <<world, begun, reading>>

Finished == exit >= 0 /\ UNCHANGED vars

Process ==
  \/ ReadBefore \/ TakeSnapshot \/ ListRuns \/ CountJobs \/ JobsEnd \/ ReadAfter
  \/ StartVerifier \/ RunVerifier \/ EndVerifier \/ ReadPermissions \/ ReadSelected
  \/ ResolveName \/ ProbeOwner \/ NamesEnd \/ Report

Next == World \/ Process \/ Finished

Spec == Init /\ [][Next]_vars
-----------------------------------------------------------------------------
(***************************************************************************)
(* Properties.                                                             *)
(***************************************************************************)
\* One change of the checkout cannot hide; two can restore what was there.
Bound == switches < 2

Reported(i) == i \in DOMAIN report

\* What the run's workflow was at its revision.
UsesOf(i) == ToSet(TreeOf[runs[i].head].files[runs[i].file])

\* GitHub starts a workflow with this reference.
Admits(p, name, isAction) ==
  \/ p.allowed = "all"
  \/ p.allowed = "selected" /\ \/ Covers(p.list, name)
                               \/ p.list.verified /\ isAction /\ name \in Verified

\* A move is proposed only for a run that died without jobs, for a reference of
\* the very file and revision that ran, and for a fact: the name leads elsewhere,
\* or GitHub refuses the name (attribute_zero_job, attribute_run, collect,
\* resolve_run_workflow, proposed_move).
MovesHaveGround ==
  Bound =>
    \A i \in DOMAIN report : \A a \in report[i] :
      LET m == ProposedMove(a) IN
      m # NoMove =>
        /\ i \notin touched.runs => runs[i].jobs = 0
        /\ runs[i].head # NoRev /\ m.written \in UsesOf(i) /\ a.workflow = runs[i].file
        /\ m.move = "RepointToCanonical" /\ m.written.to \notin touched.names =>
             home[m.written.to] = m.canonical /\ m.canonical # m.written.to /\ m.pin = m.written.pin
        /\ m.move = "AllowListAdmissionRequired" /\ ~touched.policy =>
             ~Admits(policy, m.canonical, IsAction(m.written))

\* A failed run that was not run again is in the report unless it is an ordinary
\* failure whose jobs were counted: no failed read and no change makes it
\* disappear, and exit 0 means there is none (parse_startup_runs,
\* fetch_startup_runs, exit_for).
CandidatesStay ==
  exit \in {0, 4} =>
    /\ \A i \in Run \ touched.runs :
         Failed(i) /\ ~(runs[i].conclusion = "failure" /\ runs[i].jobs > 0) => Reported(i)
    /\ exit = 0 => DOMAIN report = {}

\* A lock is blamed only for a run whose own revision has that defect, whatever
\* happens to the checkout while the verifier runs (verify, classify).
LockBlamesItsSource ==
  Bound =>
    \A i \in DOMAIN report : \A a \in report[i] :
      /\ a.class = "InvalidActionsLock" => LockOf[runs[i].head].status = "Malformed"
      /\ a.class = "ActionsLockMismatch" =>
           LockOf[runs[i].head].status = "CoverageMismatch" /\ runs[i].file \in LockOf[runs[i].head].bad

\* The list after every pattern that the causes of a run name was added.
Admitting(i) ==
  [policy EXCEPT !.list.patterns = @ \cup
     {a.pattern : a \in {b \in report[i] : b.class # "Unattributed" /\ b.pattern # NoPattern}}]

\* When nothing failed and nothing changed, the causes of a run are all of them:
\* a workflow that has been repointed and whose patterns have been admitted has
\* no reference left that is under an old name or refused, but for those that
\* lead nowhere, and it is never the canonical name that is forgotten
\* (attribute_zero_job, attribute_run).
CausesAreComplete ==
  changes = begun.changes /\ faults = begun.faults =>
    \A i \in DOMAIN report :
      \A u \in IF Primary(report[i]) \cap {a \in report[i] : a.coordinate # NoUse} = {} THEN {} ELSE UsesOf(i) :
        home[u.to] # NoRepo =>
          /\ ~IsAction(u) /\ home[u.to] # u.to =>
               \E a \in report[i] : a.class = "MovedCoordinate" /\ a.coordinate = u
          /\ policy.allowed = "selected" =>
               \/ Admits(Admitting(i), home[u.to], IsAction(u))
               \/ IsAction(u) /\ policy.list.verified

=============================================================================
