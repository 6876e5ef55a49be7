--------------------------- MODULE VerifySatisfied ---------------------------
(***************************************************************************)
(* `squabble verify-satisfied`: a process that reads a pull request page   *)
(* by page, then the gate of its base branch, and answers whether anything *)
(* is left for the agent to do.  No read is atomic with another.           *)
(*                                                                         *)
(* Sources: crates/squabble-forge/src/pr_done.rs (the paginated read),     *)
(* crates/squabble-cli/src/fetch.rs (base_gate) and                        *)
(* crates/squabble-cli/src/verify.rs (the process and its exit codes).     *)
(***************************************************************************)
EXTENDS PullRequest

CONSTANTS
  MaxPages,    \* MAX_PAGES: queries one read may take (20)
  ReviewPage   \* latestOpinionatedReviews(first: 100): reviews in one page

ASSUME PagesAssumption == MaxPages \in Nat \ {0} /\ ReviewPage \in Nat

VARIABLES
  pc,          \* what the process does next
  round,       \* queries answered
  pos,         \* per connection, nodes before the cursor
  finished,    \* connections read to their end: ctx_done, thr_done, cmt_done
  first,       \* the pull request of the first response, its head included
  observed,    \* observed_all
  open,        \* threads: the unresolved ones
  unverified,  \* unverified_commits
  required,    \* required_contexts
  types,       \* rule_types
  exit,        \* exit code of the last run
  items,       \* Verdict::agent_items of the last verdict
  held,        \* Verdict::held_by_human of the last verdict
  \* history
  quiet,       \* the world has not changed since the run started
  standing,    \* threads unresolved ever since
  red,         \* runs of the head failed ever since, acknowledged by nothing
  heads        \* heads whose contexts were read

reading == <<round, pos, finished, first, observed, open, unverified>>
gate    == <<required, types>>
answer  == <<exit, items, held>>
past    == <<quiet, standing, red, heads>>
vars    == <<world, pc, reading, gate, answer, past>>

Connection == {"contexts", "threads", "commits"}

\* A connection lists the nodes of one of these sequences.
List(c) == CASE c = "contexts" -> rollup
             [] c = "threads"  -> threads
             [] c = "commits"  -> commits

Page(c) == {i \in DOMAIN List(c) : pos[c] < i /\ i <= pos[c] + PageSize}
\* Mutant: the connection ends one node early.
IsLastEarly(c) == Len(List(c)) <= pos[c] + PageSize + 1

IsLast(c) == Len(List(c)) <= pos[c] + PageSize

Failed(i) == /\ Observed(rollup[i]).run = "Failed"
             /\ ~Acknowledged(pr, rollup[i].name)

NothingRead == [a |-> pr, asked |-> {}, head |-> 0]

Init ==
  /\ InitWorld
  /\ pc = "idle"
  /\ round = 0
  /\ pos = [c \in Connection |-> 0]
  /\ finished = {}
  /\ first = NothingRead
  /\ observed = {} /\ open = {} /\ unverified = {}
  /\ required = {} /\ types = {}
  /\ exit = "none" /\ items = {} /\ held = {}
  /\ quiet = FALSE /\ standing = {} /\ red = {} /\ heads = {}

\* The world changes, with its history.
Happen ==
  /\ World
  /\ quiet' = FALSE
  /\ standing' = standing \cap Unresolved(threads')
  /\ red' = IF head' # head THEN {} ELSE {i \in red : Failed(i)'}
  /\ UNCHANGED <<pc, reading, gate, answer, heads>>

Begin ==
  /\ pc = "idle"
  /\ pc' = "query"
  /\ round' = 0
  /\ pos' = [c \in Connection |-> 0]
  /\ finished' = {}
  /\ observed' = {} /\ open' = {} /\ unverified' = {}
  /\ required' = {} /\ types' = {}
  /\ exit' = "none" /\ items' = {} /\ held' = {}
  /\ quiet' = TRUE
  /\ standing' = Unresolved(threads)
  /\ red' = {i \in DOMAIN rollup : Failed(i)}
  /\ heads' = {}
  /\ UNCHANGED <<world, first>>

\* The process ends with an exit code.
Exit(code) == pc' = "idle" /\ exit' = code

\* One answered query.  Each connection that is not finished yields the page
\* after its cursor; the scalar fields are kept from the first response only,
\* with the first page of the reviews.
FetchPage(asked) ==
  /\ pc = "query" /\ round < MaxPages
  /\ asked \subseteq requesters
  /\ Cardinality(asked) = IF Cardinality(requesters) < ReviewPage
                            THEN Cardinality(requesters) ELSE ReviewPage
  /\ round' = round + 1
  /\ LET read(c) == c \notin finished
     IN /\ finished' = finished \cup {c \in Connection : IsLast(c)}
        /\ pos' = [c \in Connection |->
                     IF read(c) /\ ~IsLast(c) THEN pos[c] + PageSize ELSE pos[c]]
        /\ observed' = IF read("contexts")
                         THEN observed \cup {Observed(rollup[i]) : i \in Page("contexts")}
                         ELSE observed
        /\ heads' = IF read("contexts") THEN heads \cup {head} ELSE heads
        /\ open' = IF read("threads")
                     THEN open \cup (Page("threads") \cap Unresolved(threads)) ELSE open
        /\ unverified' = IF read("commits")
                           THEN unverified \cup (Page("commits") \cap Unresolved(commits))
                           ELSE unverified
  /\ first' = IF round = 0 THEN [a |-> pr, asked |-> asked, head |-> head] ELSE first
  /\ pc' = IF finished' # Connection THEN "query"
             ELSE IF first'.a.state = "Open" THEN "rules" ELSE "judge"
  /\ UNCHANGED <<world, gate, answer, quiet, standing, red>>

\* The transport fails, the response carries errors, or has no pull request.
FetchFails ==
  /\ pc = "query" /\ round < MaxPages
  /\ Exit("2")
  /\ UNCHANGED <<world, reading, gate, items, held, past>>

\* Mutants: a read that does not finish is judged, or begun again.
TooManyPagesJudged ==
  /\ pc = "query" /\ round = MaxPages
  /\ pc' = "judge"
  /\ UNCHANGED <<world, reading, gate, answer, past>>

\* A connection that does not finish is refused, never judged.
TooManyPages ==
  /\ pc = "query" /\ round = MaxPages
  /\ Exit("2")
  /\ UNCHANGED <<world, reading, gate, items, held, past>>

\* base_gate, first read: the ruleset rules of the base branch.
ReadRules ==
  /\ pc = "rules"
  /\ required' = rules.contexts
  /\ types' = rules.types
  /\ pc' = "classic"
  /\ UNCHANGED <<world, reading, answer, past>>

\* Mutant: hidden protection is no protection.
ReadClassicHidden ==
  /\ pc = "classic"
  /\ \/ /\ classic.kind = "Protected"
        /\ required' = required \cup classic.contexts
        /\ types' = types \cup TypesOf([types |-> {}], classic)
     \/ /\ classic.kind # "Protected"
        /\ UNCHANGED gate
  /\ pc' = "judge"
  /\ UNCHANGED <<world, reading, answer, past>>

\* base_gate, second read: classic protection.  A 403 is an error.
ReadClassic ==
  /\ pc = "classic"
  /\ \/ /\ classic.kind = "Protected"
        /\ required' = required \cup classic.contexts
        /\ types' = types \cup TypesOf([types |-> {}], classic)
        /\ pc' = "judge"
        /\ UNCHANGED exit
     \/ /\ classic.kind = "NotProtected"
        /\ pc' = "judge"
        /\ UNCHANGED <<gate, exit>>
     \/ /\ classic.kind = "Hidden"
        /\ Exit("2")
        /\ UNCHANGED gate
  /\ UNCHANGED <<world, reading, items, held, past>>

BaseFails ==
  /\ pc \in {"rules", "classic"}
  /\ Exit("2")
  /\ UNCHANGED <<world, reading, gate, items, held, past>>

FactsRead == Facts(first.a, first.asked, observed, open, unverified,
                   required, types)

Judge ==
  /\ pc = "judge"
  /\ items' = AgentItems(FactsRead)
  /\ held' = HumanItems(FactsRead)
  /\ Exit(IF IsDone(FactsRead) THEN "0" ELSE "5")
  /\ UNCHANGED <<world, reading, gate, past>>

-----------------------------------------------------------------------------
Verify ==
  \/ Begin
  \/ \E asked \in SUBSET requesters : FetchPage(asked)
  \/ FetchFails
  \/ TooManyPages
  \/ ReadRules
  \/ ReadClassic
  \/ BaseFails
  \/ Judge

Next == Happen \/ Verify

Spec == Init /\ [][Next]_vars

-----------------------------------------------------------------------------
(***************************************************************************)
(* Properties.                                                             *)
(***************************************************************************)
Judged == exit \in {"0", "5"}

VerifyTypeOK ==
  /\ pc \in {"idle", "query", "rules", "classic", "judge"}
  /\ round \in Nat
  /\ pos \in [Connection -> Nat]
  /\ finished \subseteq Connection
  /\ first.a \in Attributes /\ first.head \in Nat
  /\ \A o \in observed : o.run \in CheckRun
  /\ open \subseteq Nat
  /\ unverified \subseteq Nat
  /\ exit \in {"none", "0", "2", "5"}
  /\ quiet \in BOOLEAN
  /\ standing \subseteq DOMAIN threads
  /\ red \subseteq DOMAIN rollup
  /\ heads \subseteq Nat

TypeOK == WorldTypeOK /\ VerifyTypeOK

\* If nothing changes while a run reads, its answer is the one the definition
\* of done gives for the pull request as it is, however many pages each of the
\* three connections takes, and with both protection mechanisms visible or the
\* pull request no longer open (pr_done.rs: cursors, done flags, snapshot).
QuietVerdictExact ==
  quiet /\ Judged =>
    LET now == IF pr.state = "Open" THEN FactsNow
                 ELSE [FactsNow EXCEPT !.required = {}, !.types = {}]
    IN /\ items = AgentItems(now) /\ held = HumanItems(now)
       /\ pr.state = "Open" => classic.kind # "Hidden"

\* A review thread that stayed unresolved from the start of the run to its
\* verdict is agent work in the verdict of an open or merged pull request: no
\* push, new thread or resolved thread between the pages makes paging lose it.
NoThreadMissed ==
  Judged /\ first.a.state # "Closed" =>
    {<<"UnresolvedThread", t>> : t \in standing} \subseteq items

\* A run of the head that was red and unacknowledged throughout keeps the
\* verdict from being "done", required or not.
NoRedMissed ==
  exit = "0" /\ first.a.state = "Open" => red = {}

\* Exit 0 on an open pull request never leaves nobody to act: automerge is
\* armed, or the verdict names what a person must do.  The facts may stem from
\* different moments; the verdict is consistent all the same.
DoneIsNotLimbo ==
  exit = "0" /\ first.a.state = "Open" =>
    first.a.autoMerge \in Automatic \/ held # {}

\* A read that does not fit in MAX_PAGES queries is never judged: a verdict
\* means that every connection was read to its end.
NeverPartial == Judged => finished = Connection

(***************************************************************************)
(* What the documentation says, and the code does not.                     *)
(***************************************************************************)

=============================================================================
