# Squabble in TLA+

A verification development for the Rust workspace in this repository: the
`squabble` command and its libraries. It models the parts that read and change
GitHub while others change it too, checks them with TLC on small instances and
proves the main results for all instances with TLAPS.

## 1. Inventory

`squabble` is a set of subcommands. Each is one process that runs to its end;
none keeps state in memory between runs. What makes them hard is outside:
GitHub is read in many small calls that are not atomic with one another, it
changes between any two of them, calls fail or their answers are lost, budgets
run out, and several processes may run side by side.

| Component | State | Operations | Interacts with | What is hard | Correct means |
|---|---|---|---|---|---|
| **Inbox sweep** (`squabble-cli/src/inbox.rs`, `squabble-core/src/inbox.rs`, `squabble-forge/src/inbox.rs`) | state file, budget, due/cleared/left lists; the account's inbox | list, read states, decide, unsubscribe, mark done, save | GitHub notifications, REST and GraphQL budgets, the file system, other sweeps | two writes per thread, activity between listing and write, a lost answer, a crash before the save, a shared temporary file | what later runs skip is cleared; only finished subjects leave; every finished subject leaves in the end |
| **Gate** (`squabble-core/src/gate.rs`) | none | conclusion of a run, worst of its twins, state of the gate | fetch, verify, fight | unknown conclusions, twins, an empty gate | green is earned by every run of every required context |
| **Definition of done** (`squabble-core/src/done.rs`) | none | `evaluate` | verify | a branch that leaves nobody to act | done names no agent work, and somebody lands it |
| **verify-satisfied** (`squabble-cli/src/verify.rs`, `squabble-forge/src/pr_done.rs`) | three cursors, nodes read so far, facts | paged read, base gate, verdict | GitHub GraphQL and REST | pushes and edits between pages, three connections that end at different pages | nothing that stays wrong is missed, nothing partial is judged |
| **fetch** (`squabble-cli/src/fetch.rs`) | rollup, required contexts | three reads, gate, startup failures, greens | GitHub, fight | a requirement that moves between the reads, hidden protection | never green over a red that stayed; "no gate" is a fact of the branch |
| **Board** (`squabble-forge/src/board.rs`, `squabble-core/src/board.rs`, `squabble-cli/src/board.rs`) | listing, batches to come, reads, budget, board | enumerate, read batches, split and retry, classify, render, publish | GitHub, an issue body | shifting listings, batches that fail as a whole, a budget that runs out, an answer that is lost | no pull request disappears silently, one repository does not take others down |
| **Fight planner** (`squabble-cli/src/fight.rs`, `squabble-fight/src/{lib,gate_triage,context}.rs`, `squabble-core/src/{lib,moves,outcome}.rs`) | the report of one run | read workflows, one move per unsatisfied check, structural scan, inspect greens | fetch, the working tree | many rules that may each take a check; a plan from an earlier read | every unsatisfied check has exactly one answer, nothing is both fixed and handed over |
| **Apply and summon** (`squabble-fight/src/apply.rs`, `squabble-cli/src/boj.rs`) | the report, the tree | read, strip and write a file per move; one call per escalation | the working tree, other editors, experts | a write between somebody else's read and write, a write that fails half way, experts that fail one by one | the report is true to the tree; no escalation is closed by a failure |
| **Startup** (`squabble-core/src/startup.rs`, `squabble-fight/src/{startup,workflows}.rs`) | none | why a run died before any job, what an allow-list admits, what a workflow file says | zero-job, fight | old name and refused name at once, verified creators, reading text | no reference is blamed without ground, no cause is left out |
| **Admission** (`squabble-core/src/admission.rs`) | none | `evaluate_admission` | none: no command calls it yet | u32 and u64 counters, two checked sums, stale evidence | load only delays; a reservation fits; a denial is final |
| **Execution and polarity** (`squabble-core/src/{execution,polarity}.rs`, `squabble-fight/src/execution.rs`) | none | `classify`: where a job stopped, whether a green did its work | phase, fight | `always()` steps after a failure, cancelled and lost jobs, several scanners | what is said of a job is true of what ran |
| **Chains** (`squabble-core/src/chains.rs`, `squabble-fight/src/chains.rs`, `squabble-cli/src/chains.rs`, `squabble-forge/src/lib.rs`) | snapshots read so far, levels to follow, names to resolve; the graph | read checkouts and repositories in batches, follow upstreams, resolve names, analyse | GitHub, the file system | renames and deletions between reads, failed batches, cycles, repositories that were not read | the analysis is that of the graph; nothing moved or gone is hidden, nothing is called so without ground |
| **Zero-job runs** (`squabble-cli/src/zero_job.rs`) | snapshot of the checkout, candidates, lock, policy, names | two reads of the revision around its workflows and the runs; job counts, lock, policy, names; attribute | GitHub, git, the lock verifier | a checkout that is switched, runs that are started again, a posture that changes between two reads | a move is about the source of the run; no failed run is lost; a quiet run names every cause |
| **Phase, lock verifier** (`squabble-cli/src/{phase,lock_verifier}.rs`) | none | classify a payload; run an external program between two looks at the source | the file system, git, zero-job | a payload of a job that still runs, a source that changes under the verifier | an unverified source never blames a lock |
| **Forge REST** (`squabble-forge/src/rest.rs`) | none | single requests | GitHub | redirects, a 404 that may mean hidden | absence needs the owner to be absent too |
| Entry point, web app, SPARK machine, Creusot/Idris proofs, fixtures, scripts | – | – | – | – | out of scope: no state of their own, or other provers |

## 2. Modules

| Module | What it is |
|---|---|
| `InboxSweep` | any number of sweeps on one account, one state file, one temporary file |
| `InboxPromise` | what the sweeps promise together, without their steps: threads leave only when clearable, memory only of what was cleared |
| `InboxSweepProofs` | inductive invariants of `InboxSweep`: its safety theorems, and that it implements `InboxPromise` |
| `Gate` | `CheckRun`, `Gate::evaluate` and their helpers as operators |
| `Done` | `done::evaluate` as operators on a record of facts |
| `PullRequest` | the pull request and its base branch as GitHub changes them; what a reader makes of a node |
| `VerifySatisfied` | one `verify-satisfied` process reading `PullRequest`; composes `PullRequest` and `Done` |
| `VerifyProofs` | theorems about `Done`; inductive invariant and safety theorems of `VerifySatisfied` |
| `FetchGate` | one `fetch` process reading `PullRequest`; composes `PullRequest` and `Gate` |
| `FetchProofs` | theorems about `Gate`; inductive invariant and safety theorems of `FetchGate` |
| `Board` | one `board` process while repositories, pull requests and gates change |
| `BoardProofs` | inductive invariant and safety theorems of `Board` |
| `ChainGraph` | what snapshots give as a graph, and every finding over it, as operators |
| `ChainAnalysis` | Tarjan's search, the confirmed edges, the routes, the landing order and the longest chain, one action per step, and the definitions they are compared with |
| `Chains` | one `chains` process reading checkouts and GitHub while both change; composes `ChainAnalysis` |
| `ChainProofs` | inductive invariants and safety theorems of `Chains`: what is reported of names, and that every analysis is that of the graph |
| `Startup` | why a run died before its jobs: allow-list, names, causes and moves, as operators on `ChainGraph`'s references |
| `ZeroJob` | one `zero-job` process, the checkout, the runs, the policy and the names it reads; composes `Startup` and the lock verifier |
| `ZeroJobProofs` | inductive invariants of `ZeroJob` and what its report may say |
| `JobSteps` | polarity and execution phase as operators on the steps of a job |
| `Jobs` | a runner working through a job, and the two readers of its steps |
| `JobsProofs` | inductive invariant and both safety theorems of `Jobs` |
| `WorkflowFacts` | what the workflow reader sees of a file, and the move of one check, as operators; composes `Startup` and `Gate` |
| `FightPlan` | the plan: sections of the report, structural scan, order of the planners |
| `Fight` | one `fight` process with `--apply` and `--summon` on a tree somebody else edits |
| `FightProofs` | inductive invariants and safety theorems of `Fight`; what `Admission` promises, for every policy, request and snapshot |
| `Admission` | `evaluate_admission` as an operator |
| `MCInboxSweep`, `MCVerify`, `MCFetch`, `MCBoard`, `MCChains`, `MCZeroJob`, `MCJobs`, `MCFight` | model values, sets of inputs and symmetry for TLC |

Definitions keep the names of the source where there is one. Operators whose
comment begins with *Mutant* are not part of a specification: each is a changed
form of the definition below it, the way a plausible bug would change it, and is
put in its place to see that a property notices.

### How state and actions correspond to the code

**InboxSweep.** `file` and `tmp` are the state file and its `with_extension("tmp")`
sibling; `fd` says which of them an open descriptor of `std::fs::write` writes
to, because a rename by another process moves the file under it. `memory` is
`prior`, then `Sweep::state`; `due`, `cleared`, `left`, `budget` are the fields
of `Sweep`. A version number stands for `updated_at`; 0 means "no entry".
`Start` is `load_state`, `List` the listing with the scope and memory filters,
`FetchBatch` one GraphQL query of `fetch_states` with the aliases that answered,
`Decided` the end of the decision loop, `Leave`, `Unsubscribe` and `MarkDone`
the branches of the write loop, `OpenTmp`, `WriteTmp`, `Rename` and their
failures `save_state`. A DELETE is granted, refused, or performed with its
answer lost. `Notify`, `ChangeSubject`, `SpendElsewhere` and `ResetBudget` are
GitHub and the other users of the token. Threads out of scope or of another
kind never get a write. `finishedOnce`, `done`, `again`, `overrun`, `faults` are
history. `SaveFails`, `Crash` and shifted listings are bounded by `MaxFaults`.

**PullRequest, VerifySatisfied, FetchGate.** A connection is a sequence; a cursor
is a number of nodes before it. `first` is what is kept of the first response
(`snapshot` and `headRefOid`), `observed`, `open` and `unverified` what is
collected from the pages. `FetchPage` is one query of the loop; each connection
that is not finished takes the page after its cursor. `ReadRules` and
`ReadClassic` are the two calls behind `base_gate`, made for open pull requests
only; a 403 is an error. `Judge` is `done::evaluate` on the facts and the exit
code. `FetchGate` has the same two calls after one read of the whole rollup.
Acknowledgements in the description are lines with the contexts they name and
whether they carry a reference; `Within` says which name is a substring of which.

**Board.** Repositories are numbers in the order they are listed; a cursor is
the last one of the page before. `work` is the call stack of `read_chunk`: the
batches still to read, as intervals of positions in `with_prs`. `ReadBatch`
takes one answer, with null aliases for repositories that are gone or too heavy and any page
of the pull requests of the others; `BatchFails` splits, retries or gives up;
`SkipBatch` is what follows an exhausted budget. `Build` is the loop over the
reads, `Output` and `Publish` the end of `run`. A row stands for a line of the
lists, `MaxBody` counts rows, and `Caps` are the values `per_page` takes.
`steady` and `owed` are history: the pull requests open from the start of the
run, now and when the board was built.

**Chains.** `asked` is the parsed command line; `locals`, `wanted` and `level` are
what is left of the loops over checkouts, batches and `--follow`. `collect` folds
all its snapshots into a graph anew after every level; here the fold goes on where
it was, which gives the same graph: `Records` is a turn of the loop of
`graph_from_snapshots` over a snapshot and its role, `AddFile` a turn of the loop
over its files (`adding` is what is left of them). Within a fetch the snapshots
and the roles are paired by position (`Paired`, `RecordNext`).
`FetchBatch` is one GraphQL query of `fetch_workflows`, whose aliases may fail one
by one, `SkipBatch` what follows a spent budget, `FollowLevel` one level of
`upstream_roles`. `ResolveName` and `ProbeOwner` are `resolve_canonical` and its
second question. Names are numbers in the order of the names; a workflow is the
sequence of its references, so that line scanning is left to the text of the code.
`ChainAnalysis` keeps the recursion of Tarjan's `visit` as frames, each with the
upstreams whose edges are left (`Enter`, `FollowEdge`, `Return`; the edges of a node
are taken by name, as `repo_edges` sorts them); `Confirm` is one turn of the loop of
`confirmed_edges`. `RoutesInto` takes the next consumer, `Follow` is one call of
`follow`, whose recursion is a stack of frames as well, with the guard `visited`, and
`FollowReturns` its end; `Diamonds` are what `analyse` makes of the routes, which
are sets here, since it sorts and dedups them. `Land` is one round of the landing
order, `Weigh` weighs a round, `Trace` follows the longest chain backwards.
`Push`, `Move`, `Hide`, `Delete`, `TurnAccount` are GitHub. `views`, `lasting`, `current`
and `probed` are history: the repositories each name has led to in sight, the owners
that have existed all along, the names that led to themselves at some moment since
reading ended, and the names of which a snapshot is in the graph. A note is of a read
(`caveat`), of a name that was not verified, or of a run that checks no names
(`NoNames`); only the last two excuse anything in `NothingHidden`, and the caveat a read
under a new name leaves does not.

**ZeroJob, Startup.** `pc` walks through `run`: revision before, snapshot, listing,
job counts, revision after, lock, policy in two reads, names with the owner's
probe, report. `checkout` has a commit, the workflows that are in the tree and
a flag for other edits; `Switch` changes any of them. `StartVerifier`,
`RunVerifier`, `EndVerifier` are the checks of `lock_verifier.rs` around the
external program. `AttributeRun`, `AttributeZeroJob` and `ProposedMove` are the
functions of those names.

**Jobs, JobSteps.** The runner's actions are what GitHub Actions does with a
sequence of conditional steps (external). `ReadPhase` is `squabble phase` on a payload saved at that
moment; `InspectGreen` is `classify_greens` on the steps of a green check. Both
may get a payload without steps. `Classify` and `Polarity` are the two
`classify` functions; `ParseSignatures` is what is left of a directive.

**Fight.** `begun` is the loaded gate, the command line and the build. `List` and
`ReadFile` are `WorkflowFacts::load`; `MakePlan` is `plan_with_policy` with its
structural scan; `ReadStrip` and `WriteStrip` are `strip_path_filter`'s read and
write, with a write that fails before or after the file was emptied; `Health`
and `Invoke` are the calls to the experts. A file is the facts the scanner takes from
it, `body` the rest, which an edit of somebody else moves on. `edited`,
`raced`, `wrote`, `damaged` and `answers` are history.

**Admission.** `Evidence`, `Risk` and `Shortage` are the three ordered groups of
returns of `evaluate_admission`; each names the first reason that applies. The
checked sums are those of the integers, compared with 2^64 - 1.

## 3. Runs

| Run | Question | States |
|---|---|---|
| `InboxMemory` | one sweep with crash, failed save, shifted listing, lost answers, new activity: is what the memory skips really cleared, is nothing cleared twice without a fault, does the exit code name what is left? | 0.6 M |
| `InboxTwo` | two sweeps with the same files: is `InboxPromise` implemented? | 2.7 M |
| `InboxBudget` | others spend the budget; threads out of scope and of another kind: how far past the reserve does a run go once an answer has told it (answers may lack the budget), what leaves the inbox? | 1.4 M |
| `InboxLive` | runs with `--limit 1` again and again: does every finished thread leave? | 0.07 M |
| `VerifyMoving` | three connections of several pages, both reads of the base branch, two changes of anything in between: is anything missed, is anything judged from a part, does an undisturbed run judge exactly what is there? | 3.5 M |
| `FetchMoving` | the three reads of fetch with two changes during runs or between them | 1.7 M |
| `BoardMoving` | two owners, three repositories, one heavy, one with more than a page; two changes of anything; every call may fail | 0.3 M |
| `Chains` | every graph on four repositories, and estates that are followed while repositories move, hide or go and calls fail: is each analysis that of the graph, is anything hidden, called moved or dead without ground, or blamed without being called? | 2.3 M |
| `ZeroJob` | a checkout, two runs, a policy and four names with two changes of anything and a failed call: has every move a ground, is a run lost, does a quiet run name every cause? | 1.6 M |
| `Jobs` | three programs of up to six steps under twelve directives, read at any moment: is what is said true? | 0.08 M |
| `Fight` | two workflow files, five checks, every rule of the classification, edits and failures at any point: are report and tree one, is an edit lost, is every check answered and every escalation closed? | 0.16 M |
| `FightLocal` | *violation*: a workflow that calls a reusable workflow of its own checkout | – |

### Bounds, and why they are enough

* Inbox: two threads suffice for order and `--limit`; one thread with two
  sweepers gives every interleaving of the two file protocols; two versions of a
  thread distinguish "as listed" from "newer". One fault per behaviour, because
  every claim is about one crash or one lost save at a time; `ClearedOnce`
  counts repetitions against faults.
* `InboxBudget` has a budget of five writes and a reserve of three, so that both
  sides of the reserve are met by either write of a pair, and two pairs of
  writes could go past it.
* Verify: pages of one node, up to four nodes and three pages, so connections
  end at different pages, a list grows as fast as it is read, and the page limit
  is reached. The first states range over the attributes and kinds of
  protection the branches of `evaluate` distinguish.
* Fetch: runs of two contexts, twins included, every pair of rulesets and classic
  protection over them, visible or hidden.
* Board: batches of three positions, so the halves are uneven; `LISTING_ATTEMPTS`
  is two; one transient failure, so a retry decides; a page of one pull request.
* Chains: four repositories give every shape of two cycles, a diamond and a chain
  of four; batches of one, two levels, one change and two failures let a
  repository change between its consumer's read, its own and its name's; two changes
  and a failure (`Restless`) let it be renamed and go, or come back, within one run.
* Zero-job: two changes, since one change of the checkout cannot hide from two reads
  and two can restore what was there; `Bound` says which properties need that.
  A run that was started again has jobs.
* Jobs: a usual job with setup, prerequisite, policy, stub and post steps, one with
  the prerequisite after the policy and steps that always run, one in which
  every step is optional.
* Fight: two moves on one file and a third on another meet in one apply loop; up
  to two edits and three failures; three expert groups.
* `MaxActivity`, `MaxFaults`, `MaxRuns`, `MaxThreads`, `MaxChanges`, the fields `changes`
  and `faults` of scenarios and situations, and the sizes of pages and budgets
  are the only bounds, and all are constants.

### Fairness

`InboxLive` assumes that the subcommand is run with `--apply` again and again
(it is meant for a timer), that a run goes on unless it is killed, and that a
call tried for ever does not fail for ever (strong fairness per thread). Without
the last, GitHub may refuse every write and nothing can be promised.
`BoardMoving` only assumes that a started run takes its steps (weak fairness): a
process does not stop by itself. The other runs check safety and assume nothing.

Deadlock is checked in every run: a process that has ended stays as it is, and no
other state may be without a step.

## 4. Proofs

TLAPS checks these for every value of the constants that meets the named
assumptions (`ThreadAssumption`, `NumberAssumption`, `BoundAssumption`,
`WorldAssumption`, `UnprotectedAssumption`, `PagesAssumption`, `WithinAssumption`,
`JobAssumption`, `StepAssumption`, `SituationAssumption`, `EditsAssumption`,
`SizeAssumption`, `OwnedAssumption`, `NameAssumption`, `ScenarioAssumption`).

* **`InboxSweepProofs`** – `TypeCorrect`, `SkippedThreadsAreCleared`, `MemoryIsSound`,
  `UnsubscribeComesFirst`. `SkippedIsCleared` is not inductive: it speaks of the
  file, but the file is written from a memory, through a temporary file that
  another sweep may have written. `SafetyInv` adds that every entry of a sweep is
  not newer than its thread (`EntriesCurrent`), that a pair marked done at the
  current version is out of the inbox and unsubscribed (`DoneIsGone`), and that
  every memory is backed by such pairs (`MemorySound`). A step of GitHub moves a
  thread to a new version; a granted mark-done adds a pair for a thread that is
  unsubscribed or newer (`UnsubscribedFirst`); every other step copies memories.
  `OnlyFinishedThreadsLeave` rests on `GroundInv`: an entry is in scope and supported from the
  listing on, and finished from the state read on. `SweepKeepsPromise` is the
  refinement: with `SafetyInv` and `GroundInv`, a performed write is an `Unsubscribe` or `Clear` of
  `InboxPromise`, a step that writes the state file is a `Save` of what was cleared (`SafetyInv'`),
  the rest is not seen. `ExitsAreHonest` rests on `ReportInv`: a due thread is cleared, left,
  waiting or in hand all along, and nothing waits once a run saves.
  `TheReserveHolds` (of `OverrunBounded`) counts the writes of a run granted at the reserve
  from the first one on whose answer tells it: before an answer carries the header, a
  run knows no budget, and the code goes on. `ReserveInv` says that a run one of whose
  writes counts knows it, so that it begins no further pair, and that at most the second
  write of the pair in flight still goes through; an answer without the header leaves
  what the run knows (`GrantTells`). `MemoryClearsOnce` (of `ClearedOnce`) is of one sweep with `--state`:
  without it, or with two that overwrite each other's file, threads are cleared again,
  and the code means no more. It is a proof by debt: the clears repeated so far and
  those that a lost memory still allows (`Debt`) are never more than the faults (`Paid`);
  a crash, a failed save and a shifted listing raise both sides, a clear moves one from
  the debt to the repeats.
* **`VerifyProofs`** – `VerifyTypeCorrect`, `NoThreadEscapes`, `NoRedEscapes`,
  `DoneIsNeverLimbo`, `VerdictIsNeverPartial`. `ReadInv` says of every connection that what
  stayed unresolved or red is either collected already or lies after the cursor,
  and that a finished connection has nothing after it. It holds across changes
  because lists only grow at their end and a push empties `red`. About the
  operators of `Done`, for every input: `DoneHasAnOwner`, `DoneHasNoRed`. `QuietVerdictIsExact`
  adds `RestRead` (while nothing has changed, what is collected and what lies after
  the cursor are together the connection as it is) and `RestGate` (each mechanism
  read is that of the branch). It assumes that the reviews fit into their page
  (`ReviewsFit`): the code reads the first page of them only, and beyond it the verdict
  is not exact (§5).
* **`FetchProofs`** – `RedNeverTurnsGreen`, `NoGateIsAFinding`. `GateInv` says that a
  run red ever since is among those seen, and that what either mechanism required
  ever since is in `required` once that mechanism has been read. About the
  operators of `Gate`, for every input: `SatisfiedByEveryTwin`, `GreenIsEarned`,
  `ReadersAgree` (the gate of fetch and the verdict of verify never contradict each
  other on the same facts). `QuietGateIsExact` adds `RestInv`, that what was read is what is
  there while nothing has changed; `ProbeExplainsItsRed` rests on `BundleInv`, that the gate,
  the startup failures and the probe are all made of one read of the rollup.
* **`BoardProofs`** – `ReadsAreInOrder`, `QueriesBoundedAlways`, `NothingDroppedAlways`,
  `OnlyTheHeavyFailAlways`, `PublishedAsSentAlways`, `QuietBoardExactAlways`. `BoardInv` follows
  a repository through the run: before the cursor the listing has left none out
  that had pull requests from the start on (`ListingInv`: pages go up in the order of
  the names, so a repository that comes or goes shifts the rest but does not
  hide a steady one); the batches to come are intervals, and with what has been read
  they are the positions of `with_prs`, each once and in order (`WorkInv`: the
  halves of a batch, a retry and a skipped batch keep that); and a read is as good as
  the world while it was made (`ReadsInv`). A read that failed for good is of a
  repository alone in its batch and heavy, or follows a spent budget. `QuietBoardExact`
  needs in addition that no repository has two owners (`OwnersDiffer`): a
  repository of GitHub has one, but the code lists twice what `--owners` names twice.
* **`ChainProofs`** – `LandingOrderIsSound`, `NoOrderMeansCircle`. The order is a
  sequence of rounds; `OrderInv` says that each round was ready when it landed, and
  that the search stops short only in a state in which nothing was ready, which
  is a set whose members wait for one another. Nothing is assumed of the graph,
  so the reading of it need not be looked at. `NothingIsHidden`, `FindingsAreReal` and
  `BlameIsCalledFor` (of `NothingHidden`, `FindingsHaveGround`, `BlamesWhatIsCalled`) are of
  that reading, for every estate and any number of failures and changes. `ReadInv`
  says of each answer that it was so at some moment of the run (`IsTrue`); that the files of a followed upstream which count are
  called by an edge of the graph, when they are asked for (`WantedIsCalled`), while
  they are added (`AddingIsCalled`) and ever since (`EdgesAreCalled`); that a name is
  called moved or dead only with its ground, and scanned only from a checkout, under
  its own name or as one that moved (`NamesLead`, `ScansHaveGround`); and that once
  reading is over every upstream waits for its name or is settled (`NamesAreSettled`):
  known to have moved, noted as unverified, found as it is written since, or found
  invisible. All of it is said of the views a name has had, which GitHub only adds to
  (`ViewsAreKept`), so that no rename, however timed, takes it back; each step of
  the process copies or adds answers, which are true when they are given
  (`AnswersAreTrue`); the rounds of `Confirm` add only what was read. The next position,
  file and name exist because the naturals are well-founded (`FirstName`).
  `ConfirmationIsLeast` says that the confirmed edges are the least set closed under
  the rule: `LeastInv` keeps them within every closed set, since more that is known
  adds no less (`AdditionsGrow`).
  `AnalysisIsExact` is the rest: for every graph that can be read, what `analyse`
  reports is what the definitions of `AnalysisExact` say, which speak of closures
  (`Reached`: the least set with the start that no step leaves) and not of searches.
  The induction over data that this needs is in the steps of the model, so that each
  search has an inductive invariant instead:
  * *Cycles* (`SearchIsSound`). `Search` is what makes Tarjan's search work: nodes are
    numbered as they are visited, stack and frames have later nodes above earlier
    ones (`Numbered`, `Stacked`, `Framed`), followed edges lead to visited nodes and
    have lowered the low link (`EdgesFollowed`), a low link is the number of a node
    on the stack that is reached (`LowIsReached`), a node that was left is no root
    (`LeftAreNoRoots`), the node of a frame reaches all above it and its low link is the
    lowest up to the next frame (`FramesReach`, `FramesAreLow`), and nothing leads out of what
    has a component (`PlacedIsClosed`). When a root returns, no edge leads from what
    is above it to what is below (`RootIsClosed`: it would have lowered a link below
    the root's number) and the root is reached from all above it (`RootIsReached`, by the
    least number that a node above reaches), so what is popped is a component
    (`RootIsComponent`). At the end nothing is on the stack, since the lowest number
    there would be of a root without a frame (`SearchFinds`).
  * *Order*. Without an order a set waits in a circle, and the one of the set that
    reaches fewest of it is upstream of itself (`CircleHasCycle`, by cardinality);
    with one, nothing that landed is upstream of itself (`UpstreamsLandBefore`).
  * *Chain* (`WeightsAreSound`). A weight is one more than that of the heaviest upstream,
    and no more than the number of the round, so that there is a heaviest; a chain
    weighs at least its length (`ChainsWeigh`); the one traced back starts at weight one.
  * *Confirmed edges*. What paths of exact pins reach is closed under the rule, and
    every closed set has it (`ConfirmedFinds`, from `LeastInv`).
  * *Routes* (`RoutesAreSound`). What a walk has seen is called from the consumer, the
    pins of the routes are those of what was seen, and what was seen is in a frame,
    leads nowhere, or to a file that was followed (`Walking`); without frames what
    was seen is closed under calls (`WalkEnds`). So following each file once loses no pin.
  * *Diamonds* and *hearsay*. Only what was scanned has edges, in every state of the
    read (`OnlyScannedHaveEdges`), so each pin of a route is one of a skew.
* **`JobsProofs`** – `PhaseTellsTheTruth`, `GreenTellsTheTruth`, for every program,
  directive and manifest. What is said of a job is not inductive by itself: it is
  true because a finished job no longer changes (`PhaseOfFinished`,
  `GreenOfFinished`) and because the steps are as the conditions of the program allow
  (`StepsInOrder`: what is open is open to the end, and a step on condition of
  success ran with no failure before it; `CleanSuccess`). That the first failing
  step exists comes from the well-foundedness of the naturals.
* **`FightProofs`** – `EditsSurvive`, `ReportsAreTrue`, `EveryEscalationIsClosedAlways`,
  `ChecksAreAnsweredAlways`, for any number of checks, files, moves, escalations, edits
  and failures. `EditsInv` ties the text at hand to the file while nobody
  edits it between read and write; `ReportInv` follows `applied` and the blockers
  through every later step of the process. `ClosedInv` says that the escalations before
  the one at hand carry one mark, the others none, and that the verdicts count the
  calls. `AnsweredInv` starts from the plan (`PlanIsAnswered`: a section lists each
  check of its lane once, since `InOrder` lists a finite set; a hand-off names the
  check it is for; the scan answers no check) and goes on because no later step
  touches a lane or the check of an escalation; the vacuous greens that are not
  told are no more than the failures used up.
* **`ZeroJobProofs`** – `MovesHaveGroundAlways`, `CandidatesStayAlways`,
  `LockBlamesItsSourceAlways`, `CausesAreCompleteAlways`, for every repository, set of
  runs, policy and number of changes and failures. `RunsInv` says that a run
  keeps its workflow and revision; `EvidenceInv` what the snapshot, the candidates and
  the lock are evidence of once the revision after was the one before;
  `NamesInv` that a name is said to be renamed or gone only if it was so when it was asked for.
  The report is the last step, so each property is one of that step. `CausesAreComplete`
  rests on `Complete`: if nothing changed and nothing failed, everything at hand
  is what is there, and the causes `Startup` derives are those of the run.
* In `FightProofs`, about the operator of **`Admission`**, for every policy, request and
  snapshot of the integer widths of the code: `LoadOnlyHurts`, `ReservationFits`,
  `DenialOutlivesLoad`, `OverflowOfTheDayDrains`, `QueueDrainsUnlessOversized`. There
  is no run of it: it has no state and no command calls it.

Only model-checked: liveness (`FinishedLeaves`, `RunEnds`), since fairness and
ENABLED are outside the prover. Every safety property and every action property of
the runs is stated by a theorem.

## 5. Where documents and code differ

Shown by a run (`FightLocal`): `workflows.rs:290` hands a check to an owned upstream
when its job "delegates to a reusable workflow living in another repo". A
local call, `uses: ./.github/workflows/x.yml`, is of the same repository, but its
first two segments are read as the repository `./.github`, and the check is
handed to that.

Met while modelling, and in the models, without a run of their own:

* `inbox.rs:352` has the state file written atomically. Both of two runs with the
  same `--state` use one temporary name, so one may rename what the other is
  still writing; `KeepsPromise` is what holds all the same.
* `done.rs:128` speaks of every context of the head from a fully paginated read.
  Each page is of the last commit of its moment: a push in between mixes two heads.
  `NoRedMissed` is what holds.
* `done.rs:334` wants requested changes on a merged pull request answered. Only its
  threads become items.
* `board.rs:266` keeps the text within `max_bytes`. The gaps are never cut, so a
  board whose gaps alone exceed the limit does too.
* `admission.rs:172` has queued work wait "until transient capacity becomes
  available". A cost over the cap of a change or of the day is queued as well, and
  waits for ever (`QueueDrainsUnlessOversized`).
* `admission.rs:194` wants no malformed request to become eligible "merely because
  a queue later drains". The one denial that depends on load, the overflow of the
  day's sum, does (`OverflowOfTheDayDrains`); every other stays
  (`DenialOutlivesLoad`).
* `workflows.rs:93` says that zero-job and the gate classifier cannot disagree about
  admission. They share the patterns, but only zero-job lets an action of a
  verified creator be undecided (`AdmissionUnknown` and `FirstUncovered`).
* `fight.rs:114` refuses `--summon` without the client "loudly", after `--apply` has
  written: the run ends with 2 and no report of what was written.
* `execution.rs:285` explains a failed setup by "before any policy step ran". That is so
  only where the policy comes after the setup (`Ordered` in `PhaseIsTrue`).
* `squabble-cli/src/chains.rs:217` has the 404 of a name be "a dead upstream even
  without --follow". If a checkout of the upstream was given, `record_scan` keeps the
  successful scan, and the 404 is dropped without a note; so it is of an upstream
  that was read under its name before it went. The last disjunct of `NothingHidden`
  is this, and a note of the 404 would close it.
* `squabble-core/src/chains.rs:17` calls an upstream dead on a 404 *and* the absence
  of its owner, since what a token may not see answers 404 as well. That is so of
  names that are resolved; a followed upstream for which GraphQL answers `NOT_FOUND`
  (`parse_chains_response`) is dead at once, whatever of its owner, and blocks
  (`n \in probed` in `FindingsHaveGround`).
* `chains.rs`: local calls inside a followed upstream are not followed; a cycle through
  an upstream that is pinned at another revision blocks all the same; cycles, the
  landing order and the longest chain are of written names, diamonds and skews of
  canonical ones: old and new name of one repository count as two, and a loop that
  closes through the old name is not found.
* `startup.rs`: two changes of a checkout during a run may cancel out, and the
  source is then taken for the same (`Bound`).
* `inbox.rs:14` has writes stop at the reserve. The budget is looked at before
  the unsubscribe only, so one mark-done may follow; and a run stops only once an
  answer has told it. `OverrunBounded` is the bound that holds.
* `inbox.rs:8` clears only merged or closed subjects. One that is reopened after
  its state was read is cleared; `OnlyFinishedLeave` is what holds.
* `done.rs:245` wants an acknowledgement to name the context. It is matched as a
  substring, so `build-all` acknowledges `build`.
* `pr_done.rs:3` speaks of a fully paginated read. Reviews stop at a hundred
  (`ReviewPage`); the runs stay within a page.
* `gate.rs:256` says red means that none is missing or pending. A gate with a
  failed and a missing check is red.
* `main.rs:28` says that exit 3 says nothing about classic protection. fetch
  reads it too, and exit 3 speaks of both.

## 6. Not modelled

Wording, rendering beyond the number of rows, argument parsing, dates beyond
"stale or not", JSON shapes, the line scanners that take facts from workflow
text (their results are inputs). The request builders and one-call executors of
`rest.rs` that no command calls (auto-merge, required contexts, Actions policy,
reruns): there is no state and no sequence of them to model. `main.rs` and the
web app dispatch and print. The SPARK machine, the Creusot and Idris proofs and
their fixtures are developments of other provers. The reasons are with the
components in `PROJECT.json`.

Hazards without a property, beyond the list there: `--owners` compared
case-sensitively (`inbox.rs:276`) and given twice (`board.rs:133`), reviews and branch
rules beyond their first page, two publishers of one board. The first three
are of input the models do not vary; in the last, each publisher checks its
own answer only and the last one wins, which no document excludes.

## 7. Plan

Done: every component whose steps change state or meet GitHub, and a theorem for
every safety property the runs check. Worth adding: the gate of `Fight` taken from
`FetchGate` in one composition, once a command reads and repairs in the same run.

A run is added for a new question only; where two runs ask about the same
component they are merged (as paging, moving and the verdict of verify are in
`VerifyMoving`), so that the whole stays quick enough to check at every change.
