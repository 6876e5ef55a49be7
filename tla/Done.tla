-------------------------------- MODULE Done --------------------------------
(***************************************************************************)
(* The definition of done of a pull request: a function of facts already   *)
(* fetched (crates/squabble-core/src/done.rs, evaluate).  `f` is a PrFacts *)
(* record; an item is a pair of its kind and what it is about ("pr" when   *)
(* it is about the whole pull request).                                    *)
(***************************************************************************)
EXTENDS Gate

CONSTANTS
  Context,    \* names of checks and commit statuses
  ReviewApp,  \* DEFAULT_REVIEW_APPS: producers whose output must be read
  Within      \* pairs <<c, d>>: the name c occurs in the name d

ASSUME WithinAssumption == \A c \in Context : <<c, c>> \in Within

Automatic == {"SQUASH", "MERGE"}

RequiredGate(f) == BuildGate(f.required, f.observed)

\* acknowledged_in: some line of the body contains the name and has a link.
\* A line is [names |-> the contexts it spells out, linked |-> BOOLEAN].
Acknowledged(f, c) ==
  \E line \in f.body : line.linked /\ \E d \in line.names : <<c, d>> \in Within

Threads(f) == {<<"UnresolvedThread", t>> : t \in f.threads}

RequiredPending(f) ==
  \E c \in f.required : RequiredGate(f)[c] = "Pending"

RequiredItems(f) ==
  {<<"RequiredNotSatisfied", c>> :
     c \in {d \in f.required : RequiredGate(f)[d] \in {"Missing", "Failed"}}}

FailedItems(f) ==
  {<<"CheckFailed", o.name>> :
     o \in {x \in f.observed : /\ x.run = "Failed"
                               /\ x.name \notin f.required
                               /\ ~Acknowledged(f, x.name)}}

ReviewItems(f) ==
  Threads(f)
    \cup {<<"ChangesRequested", r>> : r \in f.requesters}
    \cup {<<"ReviewBotPending", o.name>> :
            o \in {x \in f.observed : x.run = "Pending" /\ x.app \in ReviewApp}}

Queue(f) == "merge_queue" \in f.types

\* Mutant: an unarmed pull request that waits on requirements is not named.
MergeItemsUnarmed(f) ==
  CASE Queue(f) -> {<<"MergeQueue", "pr">>}
    [] ~Queue(f) /\ f.autoMerge \in Automatic \cup {"none"} -> {}
    [] OTHER -> {<<"WrongMergeMethod", "pr">>}

\* Automerge: armed with a method that is not rebase, or nothing waits.
MergeItems(f) ==
  CASE Queue(f) -> {<<"MergeQueue", "pr">>}
    [] ~Queue(f) /\ f.autoMerge \in Automatic -> {}
    [] ~Queue(f) /\ f.autoMerge = "none" ->
         IF f.mergeState = "BLOCKED" \/ RequiredPending(f)
           THEN {<<"AutoMergeNotArmed", "pr">>} ELSE {}
    [] OTHER -> {<<"WrongMergeMethod", "pr">>}

OpenItems(f) ==
  (IF f.mergeable = "Conflicting" THEN {<<"Conflicting", "pr">>} ELSE {})
    \cup (IF f.mergeable = "Unknown" THEN {<<"MergeabilityUnknown", "pr">>} ELSE {})
    \cup (IF f.draft THEN {<<"Draft", "pr">>} ELSE {})
    \cup (IF f.mergeState = "BEHIND" THEN {<<"BranchBehind", "pr">>} ELSE {})
    \cup (IF "required_signatures" \in f.types /\ f.unverified # {}
            THEN {<<"UnverifiedCommits", "pr">>} ELSE {})
    \cup RequiredItems(f) \cup FailedItems(f) \cup ReviewItems(f)
    \cup MergeItems(f)

AgentItems(f) ==
  CASE f.state = "Closed" -> {}
    [] f.state = "Merged" -> Threads(f)
    [] f.state = "Open"   -> OpenItems(f)

\* A change request that only review bots made is the agent's, not a person's.
AwaitingApproval(f) ==
  \/ f.review = "REVIEW_REQUIRED"
  \/ /\ f.review = "CHANGES_REQUESTED"
     /\ f.requesters = {} \/ \E r \in f.requesters : r \notin ReviewApp

HumanItems(f) ==
  IF f.state # "Open" THEN {} ELSE
  (IF "required_deployments" \in f.types
     THEN {<<"AwaitingDeployment", "pr">>} ELSE {})
    \cup (IF AwaitingApproval(f) THEN {<<"AwaitingApproval", "pr">>} ELSE {})
    \cup (IF /\ ~Queue(f) /\ f.autoMerge = "none"
             /\ f.mergeState # "BLOCKED" /\ ~RequiredPending(f)
            THEN {<<"AwaitingHumanMerge", "pr">>} ELSE {})

IsDone(f) == AgentItems(f) = {}
=============================================================================
