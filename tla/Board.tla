-------------------------------- MODULE Board --------------------------------
(***************************************************************************)
(* `squabble board`: a process that lists the repositories of each owner   *)
(* page by page, reads those with open pull requests in batches, gives     *)
(* every pull request one reason, and publishes the board as the body of   *)
(* an issue.  Repositories, pull requests and gates change meanwhile.      *)
(*                                                                         *)
(* Sources: crates/squabble-forge/src/board.rs (the reads),                *)
(* crates/squabble-core/src/board.rs (reasons and rendering) and           *)
(* crates/squabble-cli/src/board.rs (the process and its exit codes).      *)
(***************************************************************************)
EXTENDS Naturals, Sequences, FiniteSets

CONSTANTS
  Owned,       \* per owner of --owners, its repositories; numbers, in the
               \* order they are listed
  Number,      \* numbers of pull requests
  Context,     \* names of checks
  Attributes,  \* what is read of a pull request: members of Attribute
  Gates,       \* protections of a default branch: members of Protection
  FirstGates,  \* and what they are at first, per repository
  FirstRepos,  \* sets of repositories there are at first
  FirstPrs,    \* and their open pull requests
  Heavy,       \* repositories whose query may time out at any time
  ListPage,    \* repositories in one page of a listing (100)
  Attempts,    \* LISTING_ATTEMPTS (3)
  Batch,       \* --batch
  PrPage,      \* PR_PAGE (100)
  FirstCap,    \* rows of one list that are rendered at first (400)
  MaxBody,     \* ISSUE_BODY_LIMIT, in rows
  MaxChanges,  \* bound: changes of any kind
  MaxFaults    \* bound: transient failures of queries

Repo == UNION {Owned[o] : o \in DOMAIN Owned}

Attribute ==
  [draft     : BOOLEAN,
   mergeable : {"Mergeable", "Conflicting", "Unknown"},
   state     : {"CLEAN", "BEHIND", "UNKNOWN", "BLOCKED"},
   review    : {"none", "CHANGES_REQUESTED", "REVIEW_REQUIRED"},
   armed     : BOOLEAN,
   red       : BOOLEAN,   \* the rollup is FAILURE or ERROR
   old       : BOOLEAN]   \* untouched for more than --stale-days

\* Required contexts of rulesets and of classic protection, and the highest
\* number of approvals one of them requires.
Protection ==
  [rules : SUBSET Context, classic : SUBSET Context, approvals : Nat]

OpenPrs == UNION {[numbers -> Attributes] : numbers \in SUBSET Number}

ASSUME SizeAssumption ==
  /\ {ListPage, Attempts, Batch, PrPage} \subseteq Nat \ {0}
  /\ {FirstCap, MaxBody, MaxChanges, MaxFaults} \subseteq Nat

ASSUME OwnedAssumption ==
  /\ Owned \in Seq(SUBSET (Nat \ {0})) /\ Owned # <<>>
  /\ \A o \in DOMAIN Owned : IsFiniteSet(Owned[o])
  /\ FirstRepos \subseteq SUBSET Repo
  /\ FirstPrs \subseteq [Repo -> OpenPrs]
  /\ \A f \in FirstPrs : \A r \in Repo : IsFiniteSet(DOMAIN f[r])
  /\ FirstGates \subseteq [Repo -> Gates]

VARIABLES
  \* GitHub
  repos,       \* the repositories there are, archived ones excepted
  prs,         \* the open pull requests of each repository
  gates,       \* the protection of each default branch
  changes,     \* how often any of them changed
  \* the process
  pc,          \* what it does next
  owner,       \* the owner it lists
  cursor,      \* the last repository of the page before
  tries,       \* failed attempts at this page
  listed,      \* repositories of this owner listed so far
  withPrs,     \* with_prs: repositories to read, in order
  work,        \* batches to read: positions in withPrs
  reads,       \* what the positions read so far gave
  exhausted,   \* FetchState::exhausted
  queries,     \* FetchState::queries
  board,       \* the Board
  publish,     \* --publish is given
  body,        \* what GitHub stored in the issue for this run
  exit,        \* exit code of the last run
  \* history
  quiet,       \* GitHub has not changed since the run started
  steady,      \* pull requests open ever since
  owed,        \* the steady ones when the board was built
  faults       \* transient failures so far

github  == <<repos, prs, gates>>
listing == <<owner, cursor, tries, listed>>
reading == <<work, reads, exhausted, queries>>
result  == <<board, publish, body, exit>>
past    == <<quiet, steady, owed, faults>>
vars    == <<github, changes, pc, listing, withPrs, reading, result, past>>

-----------------------------------------------------------------------------
(***************************************************************************)
(* The reason a pull request is on the board for.                          *)
(***************************************************************************)
GateOf(p) == [contexts  |-> Cardinality(p.rules \cup p.classic),
              approvals |-> p.approvals]

Stale(a) == (a.red \/ a.mergeable = "Conflicting") /\ a.old

\* The first reason that applies.
Classify(a, gate) ==
  IF Stale(a) THEN "StaleRedOrConflicting"
  ELSE IF gate.contexts = 0 THEN "NoRequiredGate"
  ELSE IF a.draft THEN "Draft"
  ELSE IF a.mergeable = "Conflicting" THEN "Conflict"
  ELSE IF a.review = "CHANGES_REQUESTED" THEN "ChangesRequested"
  ELSE IF a.review = "REVIEW_REQUIRED" /\ gate.approvals > 0 THEN "ApprovalRequired"
  ELSE IF a.red THEN "ChecksRed"
  ELSE IF a.state = "BEHIND" THEN "Behind"
  ELSE IF a.armed THEN "ArmedWaiting"
  ELSE IF a.state = "CLEAN" THEN "CleanMergeByHand"
  ELSE IF a.mergeable = "Unknown" \/ a.state = "UNKNOWN" THEN "MergeabilityUnknown"
  ELSE "ArmAutomerge"

Reason == {"StaleRedOrConflicting", "NoRequiredGate", "Draft", "Conflict",
           "ChangesRequested", "ApprovalRequired", "ChecksRed", "Behind",
           "ArmedWaiting", "CleanMergeByHand", "MergeabilityUnknown",
           "ArmAutomerge"}

Bucket(reason) ==
  CASE reason \in {"NoRequiredGate", "ApprovalRequired", "CleanMergeByHand"} -> "NeedsYou"
    [] reason = "ArmedWaiting"          -> "Landing"
    [] reason = "StaleRedOrConflicting" -> "Stale"
    [] OTHER                            -> "AgentWork"

EmptyBoard == [placed |-> {}, unavailable |-> {}, truncated |-> {}]

\* An issue body that is not this run's.
Foreign(by) == [by |-> by, board |-> EmptyBoard, cap |-> 0]

-----------------------------------------------------------------------------
(***************************************************************************)
(* GitHub.                                                                 *)
(***************************************************************************)
Init ==
  /\ repos \in FirstRepos
  /\ prs \in FirstPrs
  /\ gates \in FirstGates
  /\ changes = 0
  /\ pc = "idle"
  /\ owner = 1 /\ cursor = 0 /\ tries = 0 /\ listed = 0
  /\ withPrs = <<>>
  /\ work = <<>> /\ reads = <<>> /\ exhausted = FALSE /\ queries = 0
  /\ board = EmptyBoard
  /\ publish = FALSE
  /\ body = Foreign("nobody")
  /\ exit = "none"
  /\ quiet = FALSE /\ steady = {} /\ owed = {} /\ faults = 0

Open == {d \in repos \X Number : d[2] \in DOMAIN prs[d[1]]}

\* A change of GitHub, with its history.
Change ==
  /\ changes < MaxChanges
  /\ changes' = changes + 1
  /\ quiet' = FALSE
  /\ steady' = steady \cap Open'
  /\ UNCHANGED <<pc, listing, withPrs, reading, result, owed, faults>>

\* A pull request is opened, reopened or edited.
ChangePr(r, n, a) ==
  /\ prs' = [prs EXCEPT ![r] = [m \in DOMAIN @ \cup {n} |-> IF m = n THEN a ELSE @[m]]]
  /\ prs' # prs
  /\ UNCHANGED <<repos, gates>>
  /\ Change

\* A pull request is merged or closed.
EndPr(r, n) ==
  /\ prs' = [prs EXCEPT ![r] = [m \in DOMAIN @ \ {n} |-> @[m]]]
  /\ UNCHANGED <<repos, gates>>
  /\ Change

\* A repository is created or unarchived.
AddRepo(r) ==
  /\ r \notin repos
  /\ repos' = repos \cup {r}
  /\ UNCHANGED <<prs, gates>>
  /\ Change

\* A repository is deleted or archived.
RemoveRepo(r) ==
  /\ repos' = repos \ {r}
  /\ UNCHANGED <<prs, gates>>
  /\ Change

Protect(r, p) ==
  /\ p # gates[r]
  /\ gates' = [gates EXCEPT ![r] = p]
  /\ UNCHANGED <<repos, prs>>
  /\ Change

GitHub ==
  \/ \E r \in repos, n \in Number, a \in Attributes : ChangePr(r, n, a)
  \/ \E r \in repos : \E n \in DOMAIN prs[r] : EndPr(r, n)
  \/ \E r \in Repo : AddRepo(r)
  \/ \E r \in repos : RemoveRepo(r)
  \/ \E r \in repos, p \in Gates : Protect(r, p)

-----------------------------------------------------------------------------
(***************************************************************************)
(* Enumeration, owner by owner and page by page.                           *)
(***************************************************************************)
Begin ==
  /\ pc = "idle"
  /\ pc' = "listing"
  /\ owner' = 1 /\ cursor' = 0 /\ tries' = 0 /\ listed' = 0
  /\ withPrs' = <<>>
  /\ work' = <<>> /\ reads' = <<>> /\ exhausted' = FALSE /\ queries' = 0
  /\ board' = EmptyBoard
  /\ publish' = FALSE
  /\ body' = Foreign("nobody")
  /\ exit' = "none"
  /\ quiet' = TRUE /\ steady' = Open /\ owed' = {}
  /\ UNCHANGED <<github, changes, faults>>

Exit(code) == pc' = "idle" /\ exit' = code

Least(m, n) == IF m < n THEN m ELSE n

Sorted(S) ==
  CHOOSE s \in [1..Cardinality(S) -> S] :
    \A i, j \in 1..Cardinality(S) : i < j => s[i] < s[j]

\* The positions first, first + 1, ... of withPrs, at most Batch in a batch.
Chunks(n) ==
  [i \in 1..((n + Batch - 1) \div Batch) |->
     [first |-> (i - 1) * Batch + 1, last |-> Least(i * Batch, n), retries |-> 1]]

Existing(o) == Owned[o] \cap repos

\* What is left to list of this owner, and the next page of it.
Rest == {r \in Existing(owner) : r > cursor}
Page == {r \in Rest : Cardinality({s \in Rest : s <= r}) <= ListPage}

\* One page is answered.  After the last page the repositories listed are
\* compared with the totalCount of that page; then comes the next owner.
ListRepos ==
  /\ pc = "listing"
  /\ tries' = 0
  /\ LET seen == withPrs \o Sorted({r \in Page : DOMAIN prs[r] # {}})
         many == listed + Cardinality(Page)
     IN /\ withPrs' = seen
        /\ \/ /\ Page # Rest
              /\ cursor' = CHOOSE r \in Page : \A s \in Page : s <= r
              /\ listed' = many
              /\ UNCHANGED <<owner, pc, work, exit>>
           \/ /\ Page = Rest
              /\ many = Cardinality(Existing(owner))
              /\ cursor' = 0 /\ listed' = 0
              /\ \/ /\ owner < Len(Owned)
                    /\ owner' = owner + 1
                    /\ UNCHANGED <<pc, work>>
                 \/ /\ owner = Len(Owned)
                    /\ pc' = "reading"
                    /\ work' = Chunks(Len(seen))
                    /\ UNCHANGED owner
              /\ UNCHANGED exit
           \/ /\ Page = Rest
              /\ many # Cardinality(Existing(owner))
              /\ Exit("2")
              /\ UNCHANGED <<owner, cursor, listed, work>>
  /\ UNCHANGED <<github, changes, reads, exhausted, queries, board, publish, body, past>>

\* Mutant: a page that breaks is tried again without an end.
ListBreaksForever ==
  /\ pc = "listing"
  /\ tries' = (tries + 1) % Attempts
  /\ UNCHANGED <<github, changes, pc, exit, owner, cursor, listed, withPrs, reading,
                 board, publish, body, past>>

\* Nothing came back: the page is tried again, and again.
ListBreaks ==
  /\ pc = "listing"
  /\ tries' = tries + 1
  /\ IF tries' < Attempts THEN UNCHANGED <<pc, exit>> ELSE Exit("2")
  /\ UNCHANGED <<github, changes, owner, cursor, listed, withPrs, reading, board,
                 publish, body, past>>

\* The answer is an error, or not a listing: no board without this owner.
ListRefused ==
  /\ pc = "listing"
  /\ Exit("2")
  /\ UNCHANGED <<github, changes, listing, withPrs, reading, board, publish, body, past>>

-----------------------------------------------------------------------------
(***************************************************************************)
(* The batched reads.  `work` holds the batches to come, in order.         *)
(***************************************************************************)
Task == Head(work)
Size == Task.last - Task.first + 1
InTask == {withPrs[i] : i \in Task.first..Task.last}

Unread(why) == [kind |-> "unavailable", why |-> why]

\* One page of the pull requests of r.
ReadOf(r, numbers) ==
  [kind |-> "read", gate |-> GateOf(gates[r]),
   found |-> [n \in numbers |-> prs[r][n]],
   truncated |-> Cardinality(DOMAIN prs[r]) > Cardinality(numbers)]

\* The budget is exhausted: what is left is unavailable, without a query.
SkipBatch ==
  /\ pc = "reading" /\ work # <<>>
  /\ exhausted
  /\ reads' = reads \o [i \in 1..Size |-> Unread("exhausted")]
  /\ work' = Tail(work)
  /\ UNCHANGED <<github, changes, pc, listing, withPrs, exhausted, queries, result, past>>

\* The pages of pull requests a batch may be answered with.
Pages ==
  {shown \in [InTask -> SUBSET Number] :
     \A r \in InTask : /\ shown[r] \subseteq DOMAIN prs[r]
                       /\ Cardinality(shown[r]) = Least(PrPage, Cardinality(DOMAIN prs[r]))}

\* A batch is answered.  Repositories that are gone, or too heavy to be
\* answered in full, have a null alias; of the others one page is `shown`.
\* The answer may say that the budget does not cover another query.
ReadBatch ==
  /\ pc = "reading" /\ work # <<>>
  /\ ~exhausted
  /\ \E null \in SUBSET (InTask \cap (Heavy \cup (Repo \ repos))), shown \in Pages :
       reads' = reads \o
         [i \in 1..Size |->
            LET r == withPrs[Task.first + i - 1]
            IN IF r \in null THEN Unread("null") ELSE ReadOf(r, shown[r])]
  /\ work' = Tail(work)
  /\ exhausted' \in BOOLEAN
  /\ queries' = queries + 1
  /\ UNCHANGED <<github, changes, pc, listing, withPrs, result, past>>

\* Mutant: the second half is read first.
HalvesSwapped(t) ==
  LET half == (t.last - t.first + 1) \div 2
  IN <<[t EXCEPT !.first = t.first + half], [t EXCEPT !.last = t.first + half - 1]>>

\* The batch in two halves.
Halves(t) ==
  LET half == (t.last - t.first + 1) \div 2
  IN <<[t EXCEPT !.last = t.first + half - 1], [t EXCEPT !.first = t.first + half]>>

\* Mutants: a single repository is given up at once, or tried for ever.
BatchFailsAtOnce ==
  /\ pc = "reading" /\ work # <<>>
  /\ ~exhausted
  /\ \/ InTask \cap Heavy # {} /\ UNCHANGED faults
     \/ InTask \cap Heavy = {} /\ faults < MaxFaults /\ faults' = faults + 1
  /\ queries' = queries + 1
  /\ \/ /\ Size > 1
        /\ work' = Halves(Task) \o Tail(work)
        /\ UNCHANGED reads
     \/ /\ Size = 1
        /\ work' = Tail(work)
        /\ reads' = Append(reads, Unread("failed"))
  /\ UNCHANGED <<github, changes, pc, listing, withPrs, exhausted, result, quiet,
                 steady, owed>>

BatchFailsForever ==
  /\ pc = "reading" /\ work # <<>>
  /\ ~exhausted
  /\ \/ InTask \cap Heavy # {} /\ UNCHANGED faults
     \/ InTask \cap Heavy = {} /\ faults < MaxFaults /\ faults' = faults + 1
  /\ queries' = queries + 1
  /\ work' = IF Size > 1 THEN Halves(Task) \o Tail(work) ELSE work
  /\ UNCHANGED <<github, changes, pc, listing, withPrs, reads, exhausted, result,
                 quiet, steady, owed>>

\* A batch fails as a whole: it is split, a single repository is tried once
\* more, and then given up.
BatchFails ==
  /\ pc = "reading" /\ work # <<>>
  /\ ~exhausted
  /\ \/ InTask \cap Heavy # {} /\ UNCHANGED faults
     \/ InTask \cap Heavy = {} /\ faults < MaxFaults /\ faults' = faults + 1
  /\ queries' = queries + 1
  /\ \/ /\ Size > 1
        /\ work' = Halves(Task) \o Tail(work)
        /\ UNCHANGED reads
     \/ /\ Size = 1 /\ Task.retries > 0
        /\ work' = <<[Task EXCEPT !.retries = @ - 1]>> \o Tail(work)
        /\ UNCHANGED reads
     \/ /\ Size = 1 /\ Task.retries = 0
        /\ work' = Tail(work)
        /\ reads' = Append(reads, Unread("failed"))
  /\ UNCHANGED <<github, changes, pc, listing, withPrs, exhausted, result, quiet,
                 steady, owed>>

-----------------------------------------------------------------------------
(***************************************************************************)
(* The board is built, rendered and published.                             *)
(***************************************************************************)
Positions == DOMAIN withPrs
Readable  == {i \in Positions : reads[i].kind = "read"}

Built ==
  [placed |-> UNION {{[repo |-> withPrs[i], number |-> n,
                       reason |-> Classify(reads[i].found[n], reads[i].gate)] :
                        n \in DOMAIN reads[i].found} : i \in Readable},
   unavailable |-> {<<withPrs[i], reads[i].why>> : i \in Positions \ Readable},
   truncated |-> {withPrs[i] : i \in {j \in Readable : reads[j].truncated}}]

\* Repositories the board names as not, or not wholly, read.
Gaps(b) == {u[1] : u \in b.unavailable} \cup b.truncated

\* Every read is there: the board, and the pull requests it owes.  What `build`
\* held besides is dropped.
Build ==
  /\ pc = "reading" /\ work = <<>>
  /\ board' = Built
  /\ owed' = steady
  /\ pc' = "built"
  /\ withPrs' = <<>> /\ reads' = <<>> /\ exhausted' = FALSE /\ queries' = 0
  /\ UNCHANGED <<github, changes, listing, work, publish, body, exit, quiet,
                 steady, faults>>

\* Rows of the lists of a board when each is cut at `cap`: a line for each gap;
\* a repository or a pull request for each entry of a list, and one that tells
\* how many were cut.  What lands by itself is a number only.
Entries(b, reason) ==
  CASE reason = "NoRequiredGate" -> {p.repo : p \in {q \in b.placed : q.reason = reason}}
    [] reason = "ArmedWaiting"   -> {}
    [] OTHER                     -> {p \in b.placed : p.reason = reason}

Rows(b, cap) ==
  LET rows(reason) ==
        LET n == Cardinality(Entries(b, reason))
        IN {reason} \X (1..(IF n > cap THEN cap + 1 ELSE n))
  IN Cardinality(b.unavailable) + Cardinality(b.truncated) +
     Cardinality(UNION {rows(p.reason) : p \in b.placed})

\* render_markdown: the cap is halved until the text fits, or there is no
\* entry left to cut.
Caps == {FirstCap \div (2^k) : k \in 0..FirstCap}

Cap(b) ==
  LET fitting == {c \in Caps : c = 0 \/ Rows(b, c) <= MaxBody}
  IN CHOOSE c \in fitting : \A d \in fitting : d <= c

Text(b) == [by |-> "run", board |-> b, cap |-> Cap(b)]

\* Mutant: a truncated repository is no gap.
ExitCodeTruncatedIgnored(b) == IF b.unavailable = {} THEN "0" ELSE "6"

ExitCode(b) == IF Gaps(b) = {} THEN "0" ELSE "6"

\* The board is printed, or written to --out.  Whether --publish was given
\* matters from here on only.
Output ==
  /\ pc = "built"
  /\ publish' \in BOOLEAN
  /\ IF publish' THEN pc' = "publishing" /\ UNCHANGED exit
                 ELSE Exit(ExitCode(board))
  /\ UNCHANGED <<github, changes, listing, withPrs, reading, board, body, past>>

\* --out cannot be written.
OutputFails ==
  /\ pc = "built"
  /\ Exit("2")
  /\ UNCHANGED <<github, changes, listing, withPrs, reading, board, publish, body, past>>

\* Mutant: an answer is enough, whatever it says was stored.
PublishBelieved(stored, answered) ==
  /\ pc = "publishing"
  /\ stored = Text(board) => Rows(board, Cap(board)) <= MaxBody
  /\ body' = stored
  /\ Exit(IF answered THEN ExitCode(board) ELSE "2")
  /\ UNCHANGED <<github, changes, listing, withPrs, reading, board, publish, past>>

\* The PATCH stores the text, or something else, or nothing; its answer says
\* which, or is lost.  GitHub refuses a body that is too long.
Publish(stored, answered) ==
  /\ pc = "publishing"
  /\ stored = Text(board) => Rows(board, Cap(board)) <= MaxBody
  /\ body' = stored
  /\ Exit(IF answered /\ stored = Text(board) THEN ExitCode(board) ELSE "2")
  /\ UNCHANGED <<github, changes, listing, withPrs, reading, board, publish, past>>

-----------------------------------------------------------------------------
Run ==
  \/ Begin
  \/ ListRepos
  \/ ListBreaks
  \/ ListRefused
  \/ SkipBatch
  \/ ReadBatch
  \/ BatchFails
  \/ Build
  \/ Output
  \/ OutputFails
  \/ \E stored \in {Text(board), Foreign("nobody"), Foreign("other")}, answered \in BOOLEAN :
       Publish(stored, answered)

Next == GitHub \/ Run

Spec == Init /\ [][Next]_vars

\* A run goes on until the process ends.
FairSpec == Spec /\ WF_vars(Run /\ pc # "idle")

-----------------------------------------------------------------------------
(***************************************************************************)
(* Properties.                                                             *)
(***************************************************************************)
Ready == pc \in {"built", "publishing"} \/ exit \in {"0", "6"}

\* A pull request that was open all along is on the board, or its repository
\* is named as a gap; and then the board is not called complete.  Neither a
\* page that shifts, a batch that is split, a repository that vanishes nor an
\* exhausted budget makes one disappear.
NothingDropped ==
  Ready => \A d \in owed :
    \/ \E p \in board.placed : p.repo = d[1] /\ p.number = d[2]
    \/ d[1] \in Gaps(board) /\ exit # "0"

\* If nothing changes during a run, every pull request it read is on the board
\* for the reason its own facts and the gate of its own repository give, and
\* every repository with more pull requests than a page is truncated.
QuietBoardExact ==
  quiet /\ Ready =>
    /\ \A p \in board.placed :
         /\ p.number \in DOMAIN prs[p.repo]
         /\ p.reason = Classify(prs[p.repo][p.number], GateOf(gates[p.repo]))
    /\ board.truncated = {r \in repos : Cardinality(DOMAIN prs[r]) > PrPage}
                           \ {u[1] : u \in board.unavailable}

\* A heavy repository does not take its neighbours down: a repository is only
\* given up if it is heavy itself or failed twice on its own.
OnlyTheHeavyFail ==
  \A u \in board.unavailable : u[2] = "failed" => u[1] \in Heavy \/ faults >= 2

\* However the batches fail and are split, a repository costs three queries at
\* most.
QueriesBounded == queries <= 3 * Len(withPrs)

\* A publishing run that does not exit 2 has had its own board stored in the
\* issue, whole: the answer is believed only for what it says was stored.
PublishedAsSent ==
  publish /\ exit \in {"0", "6"} => body = Text(board) /\ Rows(board, body.cap) <= MaxBody

\* A run ends, whatever fails.
RunEnds == pc # "idle" ~> pc = "idle"

=============================================================================
