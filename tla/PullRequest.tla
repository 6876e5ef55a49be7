----------------------------- MODULE PullRequest -----------------------------
(***************************************************************************)
(* A pull request on GitHub and its base branch, as the readers of this    *)
(* program see them: everything here is GitHub and the people and robots   *)
(* working on the pull request, and changes between any two reads.         *)
(***************************************************************************)
EXTENDS Done, Sequences, FiniteSets

CONSTANTS
  PageSize,     \* nodes in one page of a connection (100)
  Attributes,   \* the values `pr` ranges over
  Reviewers,    \* the values `requesters` ranges over
  Runs,         \* raw check runs and statuses that can be reported
  Rollups,      \* what may have been reported on a head when it is first seen
  CommitLists,  \* the commits of the pull request after a push: verified or not
  ThreadLists,  \* the review threads at first: resolved or not
  Rulesets,     \* the effective ruleset rules of the base branch
  Protections,  \* its classic protection, as this token sees it
  MaxRuns,      \* bound: runs on one head
  MaxThreads,   \* bound: review threads
  MaxChanges    \* bound: changes of any kind

Run == [name : Context, app : STRING, status : Status, conclusion : Conclusion]

Attribute ==
  [state      : {"Open", "Merged", "Closed"},
   draft      : BOOLEAN,
   mergeable  : {"Mergeable", "Conflicting", "Unknown"},
   mergeState : {"BLOCKED", "BEHIND", "CLEAN", "UNSTABLE", "UNKNOWN"},
   review     : {"none", "APPROVED", "REVIEW_REQUIRED", "CHANGES_REQUESTED"},
   autoMerge  : {"none", "SQUASH", "MERGE", "REBASE"},
   body       : SUBSET [names : SUBSET Context, linked : BOOLEAN]]

Ruleset    == [contexts : SUBSET Context, types : SUBSET STRING]
Protection == [kind : {"Protected", "NotProtected", "Hidden"},
               contexts : SUBSET Context, signatures : BOOLEAN]

ASSUME BoundAssumption ==
  /\ PageSize \in Nat \ {0}
  /\ {MaxRuns, MaxThreads, MaxChanges} \subseteq Nat

\* Runs and Attributes are sets of such records; only what is used is assumed.
ASSUME WorldAssumption ==
  /\ \A a \in Attributes : a.state \in {"Open", "Merged", "Closed"}
  /\ \A r \in Runs : r.status \in Status /\ r.conclusion \in Conclusion
  /\ Rollups \subseteq Seq(Runs)
  /\ CommitLists \subseteq Seq(BOOLEAN)
  /\ ThreadLists \subseteq Seq(BOOLEAN)

ASSUME UnprotectedAssumption ==
  \A p \in Protections : p.kind = "NotProtected" => p.contexts = {} /\ ~p.signatures

VARIABLES
  pr,          \* the attributes of the pull request
  requesters,  \* reviewers whose latest review is CHANGES_REQUESTED
  head,        \* its head commit, as a number
  rollup,      \* statusCheckRollup.contexts of the head
  commits,     \* per commit, whether its signature is verified
  threads,     \* per review thread, whether it is resolved
  rules,       \* ruleset rules of the base branch
  classic,     \* classic protection of the base branch
  changes      \* how often the world changed

world == <<pr, requesters, head, rollup, commits, threads, rules, classic,
           changes>>

InitWorld ==
  /\ pr \in Attributes
  /\ requesters \in Reviewers
  /\ head = 1
  /\ rollup \in Rollups
  /\ commits \in CommitLists
  /\ threads \in ThreadLists
  /\ rules \in Rulesets
  /\ classic \in Protections
  /\ changes = 0

WorldTypeOK ==
  /\ pr \in Attributes
  /\ requesters \in Reviewers
  /\ head \in Nat
  /\ rollup \in Seq(Runs)
  /\ commits \in Seq(BOOLEAN)
  /\ threads \in Seq(BOOLEAN)
  /\ rules \in Rulesets
  /\ classic \in Protections
  /\ changes \in Nat

Change == changes < MaxChanges /\ changes' = changes + 1

\* A push, perhaps with force, and what is reported on the new head so far.
Push ==
  /\ Change
  /\ head' = head + 1
  /\ rollup' \in Rollups
  /\ commits' \in CommitLists
  /\ UNCHANGED <<pr, requesters, threads, rules, classic>>

\* A check run or a status is reported on the head.
Report(run) ==
  /\ Change
  /\ Len(rollup) < MaxRuns
  /\ rollup' = Append(rollup, run)
  /\ UNCHANGED <<pr, requesters, head, commits, threads, rules, classic>>

\* A reported run goes on, concludes or is started again.
Proceed(i, run) ==
  /\ Change
  /\ run.name = rollup[i].name /\ run.app = rollup[i].app
  /\ run # rollup[i]
  /\ rollup' = [rollup EXCEPT ![i] = run]
  /\ UNCHANGED <<pr, requesters, head, commits, threads, rules, classic>>

OpenThread ==
  /\ Change
  /\ Len(threads) < MaxThreads
  /\ threads' = Append(threads, FALSE)
  /\ UNCHANGED <<pr, requesters, head, rollup, commits, rules, classic>>

\* A thread is resolved or made unresolved again.
TurnThread(i) ==
  /\ Change
  /\ threads' = [threads EXCEPT ![i] = ~@]
  /\ UNCHANGED <<pr, requesters, head, rollup, commits, rules, classic>>

\* Anything else about the pull request: its description, its reviews, whether
\* it is mergeable, whether automerge is armed, and that it is merged, closed
\* or reopened.  A merge is for good.
Edit ==
  /\ Change
  /\ pr' \in Attributes
  /\ pr.state = "Merged" => pr'.state = "Merged"
  /\ requesters' \in Reviewers
  /\ <<pr', requesters'>> # <<pr, requesters>>
  /\ UNCHANGED <<head, rollup, commits, threads, rules, classic>>

\* An administrator changes the base branch.
Protect ==
  /\ Change
  /\ rules' \in Rulesets
  /\ classic' \in Protections
  /\ <<rules', classic'>> # <<rules, classic>>
  /\ UNCHANGED <<pr, requesters, head, rollup, commits, threads>>

World ==
  \/ Push
  \/ \E run \in Runs : Report(run)
  \/ \E i \in DOMAIN rollup, run \in Runs : Proceed(i, run)
  \/ OpenThread
  \/ \E i \in DOMAIN threads : TurnThread(i)
  \/ Edit
  \/ Protect

-----------------------------------------------------------------------------
(***************************************************************************)
(* What a reader makes of a node, and of the two protection mechanisms.    *)
(***************************************************************************)
Observed(run) == [name |-> run.name, app |-> run.app,
                  run |-> FromGithub(run.status, run.conclusion)]

Unresolved(list) == {i \in DOMAIN list : ~list[i]}

\* required_contexts_from_apis: the union of both mechanisms.
RequiredBy(r, c) == r.contexts \cup c.contexts

\* base_gate: the rule types, and classic required_signatures.
TypesOf(r, c) ==
  r.types \cup (IF c.signatures THEN {"required_signatures"} ELSE {})

\* The facts as they are now.
Facts(a, asked, observed, open, unverified, required, types) ==
  [state |-> a.state, draft |-> a.draft, mergeable |-> a.mergeable,
   mergeState |-> a.mergeState, review |-> a.review,
   autoMerge |-> a.autoMerge, body |-> a.body, requesters |-> asked,
   observed |-> observed, threads |-> open, unverified |-> unverified,
   required |-> required, types |-> types]

FactsNow ==
  Facts(pr, requesters, {Observed(rollup[i]) : i \in DOMAIN rollup},
        Unresolved(threads), Unresolved(commits),
        RequiredBy(rules, classic), TypesOf(rules, classic))
=============================================================================
