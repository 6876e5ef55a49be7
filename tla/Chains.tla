-------------------------------- MODULE Chains --------------------------------
(***************************************************************************)
(* `squabble chains`: a process that reads the workflows of the requested  *)
(* repositories (checkouts, and GitHub in batches), follows their          *)
(* upstreams level by level, resolves the names of all upstreams, and      *)
(* analyses the graph.  Repositories are pushed to, moved, hidden and      *)
(* deleted while it reads.                                                 *)
(*                                                                         *)
(* Sources: crates/squabble-cli/src/chains.rs (the process),               *)
(* crates/squabble-forge/src/lib.rs (batched reads),                       *)
(* crates/squabble-forge/src/rest.rs (names) and                           *)
(* crates/squabble-fight/src/chains.rs (checkouts).                        *)
(***************************************************************************)
EXTENDS ChainAnalysis

CONSTANTS
  Account,    \* owners of repositories
  OwnerOf,    \* per name its owner, or NoOwner: not an owner/name slug
  NoOwner,
  Batch,      \* --batch
  Trees,      \* workflows a repository may get by a push
  Scenarios   \* what is asked for, and GitHub at first: members of Scenario

Nobody == 0

\* The workflows of a repository at its default branch, or of a checkout.
Head1 == [rev : Nat, files : Workflows]

\* `home` says under which name the repository now lives that a name leads to.
\* `faults` and `changes` bound failures of calls and changes of GitHub.
Scenario ==
  [locals : Seq([repo : Repo, tree : Head1]), remote : Seq(Repo), follow : Nat,
   canonical : BOOLEAN, home : [Repo -> Repo \cup {Nobody}], hidden : SUBSET Repo,
   accounts : SUBSET Account, tree : [Repo -> Head1], faults : Nat, changes : Nat]

ASSUME ScenarioAssumption ==
  /\ Scenarios \subseteq Scenario
  /\ \A s \in Scenarios : \A n \in Repo :
       s.home[n] # Nobody => s.home[s.home[n]] = s.home[n]
  /\ Batch \in Nat \ {0} /\ Trees \subseteq Workflows
  /\ OwnerOf \in [Repo -> Account \cup {NoOwner}] /\ NoOwner \notin Account

VARIABLES
  home,      \* GitHub: the repository each name leads to
  hidden,    \* repositories the token may not see
  accounts,  \* owners that exist
  tree,      \* default branch of each repository
  changes,   \* changes left
  views,     \* per name, the repositories it has led to in sight (history)
  lasting,   \* owners that have existed all along (history)
  current,   \* names that led to themselves, in sight, since reading ended (history)
  asked,     \* the scenario
  locals,    \* checkouts still to read
  level,     \* levels still to follow
  wanted,    \* repositories of the fetch in progress, with their roles
  got,       \* its snapshots so far, by position
  spent,     \* the budget does not cover another query of this fetch
  targets,   \* names still to resolve
  adding,    \* files of the last snapshot whose edges are still to be added
  probed,    \* names whose snapshot is in the graph
  faults,    \* failures left
  pc,        \* "sources", "fetch", "follow", "resolve", "owner" or "analysis"
  exit       \* exit code, or -1

history == <<views, lasting, current>>
world   == <<home, hidden, accounts, tree, changes, history>>
sources == <<asked, locals, level>>
fetch   == <<wanted, got, spent>>
record  == <<adding, probed>>
process == <<sources, fetch, record, targets, faults, pc, exit>>
vars    == <<world, process, graph, analysis>>

\* The repository a name leads to, if the token may see it.
Visible(n) == home[n] # Nobody /\ home[n] \notin hidden

View(n) == IF Visible(n) THEN home[n] ELSE Nobody

Own == {n \in Repo : View(n) = n}

NoFilesLeft == [repo |-> Nobody, files |-> <<>>]

Init ==
  \E s \in Scenarios :
    /\ home = s.home /\ hidden = s.hidden /\ accounts = s.accounts /\ tree = s.tree
    /\ changes = s.changes /\ views = [n \in Repo |-> {View(n)}] /\ lasting = accounts
    /\ current = {}
    /\ asked = s /\ locals = s.locals /\ level = s.follow /\ faults = s.faults
    /\ wanted = <<>> /\ got = <<>> /\ spent = FALSE
    /\ targets = {} /\ adding = NoFilesLeft /\ probed = {} /\ pc = "sources" /\ exit = 0 - 1
    /\ graph = EmptyGraph /\ stage = "reading" /\ NotAnalysed

-----------------------------------------------------------------------------
(***************************************************************************)
(* GitHub.                                                                 *)
(***************************************************************************)
Lives(r) == home[r] = r

Change == changes > 0 /\ stage = "reading" /\ changes' = changes - 1

Push(r) ==
  /\ Lives(r) /\ Change
  /\ \E files \in Trees : tree' = [tree EXCEPT ![r] = [rev |-> @.rev + 1, files |-> files]]
  /\ UNCHANGED <<home, hidden, accounts>>

\* Renamed or transferred: the old names lead to the new one.
Move(r, m) ==
  /\ Lives(r) /\ home[m] = Nobody /\ OwnerOf[m] \in accounts /\ Change
  /\ home' = [n \in Repo |-> IF home[n] = r \/ n = m THEN m ELSE home[n]]
  /\ tree' = [tree EXCEPT ![m] = tree[r]]
  /\ hidden' = IF r \in hidden THEN (hidden \ {r}) \cup {m} ELSE hidden \ {m}
  /\ UNCHANGED accounts

Hide(r) ==
  /\ Lives(r) /\ Change
  /\ hidden' = IF r \in hidden THEN hidden \ {r} ELSE hidden \cup {r}
  /\ UNCHANGED <<home, accounts, tree>>

Delete(r) ==
  /\ Lives(r) /\ Change
  /\ home' = [n \in Repo |-> IF home[n] = r THEN Nobody ELSE home[n]]
  /\ hidden' = hidden \ {r}
  /\ UNCHANGED <<accounts, tree>>

\* An account without repositories is closed, or a free name is taken.
TurnAccount(o) ==
  /\ Change
  /\ \A r \in Repo : Lives(r) => OwnerOf[r] # o
  /\ accounts' = IF o \in accounts THEN accounts \ {o} ELSE accounts \cup {o}
  /\ UNCHANGED <<home, hidden, tree>>

\* Reading is over.
Resolving == pc \in {"resolve", "owner", "analysis"}

GitHub ==
  /\ \/ \E r \in Repo : Push(r) \/ Hide(r) \/ Delete(r) \/ \E m \in Repo : Move(r, m)
     \/ \E o \in Account : TurnAccount(o)
  /\ views' = [n \in Repo |-> views[n] \cup {View(n)'}]
  /\ lasting' = lasting \cap accounts'
  /\ current' = IF Resolving THEN current \cup Own' ELSE current
  /\ UNCHANGED <<process, graph, analysis>>

-----------------------------------------------------------------------------
(***************************************************************************)
(* Reading.                                                                *)
(***************************************************************************)
ScannedAt(rev) == [status |-> "Scanned", rev |-> rev]
NotFound    == [status |-> "NotFound", rev |-> NoRev]
Unavailable == [status |-> "Unavailable", rev |-> NoRev]

Snapshot(repo, scan, files, canonical, noted) ==
  [repo |-> repo, scan |-> scan, files |-> files, canonical |-> canonical,
   noted |-> noted]

Fault == faults > 0 /\ faults' = faults - 1
NoFault == UNCHANGED faults

\* A checkout is read completely, with the commit at HEAD (NoRev: it cannot be
\* told), or counts as unread.
SnapshotLocal(source) ==
  Snapshot(source.repo, ScannedAt(source.tree.rev), source.tree.files, source.repo, FALSE)

\* The graph is folded from its start after every level; the fold goes on where
\* it was, so each snapshot is recorded once.
Records(snap, role) ==
  /\ graph' = Recorded(graph, snap, role)
  /\ adding' = [repo |-> snap.repo, files |-> [f \in Counted(snap, role) |-> snap.files[f]]]
  /\ probed' = probed \cup {snap.repo}

NothingToAdd == DOMAIN adding.files = {}

\* The next file of the snapshot recorded last.
AddFile ==
  /\ pc \in {"sources", "fetch"} /\ ~NothingToAdd
  /\ LET f == CHOOSE x \in DOMAIN adding.files : \A y \in DOMAIN adding.files : x <= y
     IN  /\ graph' = AddEdges(graph, adding.repo, f, adding.files[f])
         /\ adding' = [adding EXCEPT !.files = [x \in DOMAIN @ \ {f} |-> @[x]]]
  /\ UNCHANGED <<world, sources, fetch, targets, probed, faults, pc, exit, analysis>>

ReadLocal ==
  /\ pc = "sources" /\ locals # <<>> /\ NothingToAdd
  /\ LET source == Head(locals) IN
     \/ Records(SnapshotLocal(source), Subject) /\ NoFault
     \/ /\ Records(Snapshot(source.repo, Unavailable, NoFiles, source.repo, TRUE), Subject)
        /\ Fault
  /\ locals' = Tail(locals)
  /\ UNCHANGED <<world, asked, level, fetch, targets, pc, exit, analysis>>

\* The start of `fetch_workflows`: what is not a slug is not asked for.
Fetch(list) ==
  /\ wanted' = list
  /\ got' = [i \in {j \in DOMAIN list : OwnerOf[list[j].repo] = NoOwner} |->
               Snapshot(list[i].repo, Unavailable, NoFiles, list[i].repo, FALSE)]
  /\ spent' = FALSE
  /\ pc' = "fetch"

\* The repositories asked of GitHub are fetched, if there are any.
ReadRemote ==
  /\ pc = "sources" /\ locals = <<>> /\ NothingToAdd
  /\ IF asked.remote # <<>>
     THEN Fetch([i \in DOMAIN asked.remote |-> [repo |-> asked.remote[i], role |-> Subject]])
     ELSE pc' = "follow" /\ UNCHANGED <<wanted, got, spent>>
  /\ UNCHANGED <<world, sources, record, targets, faults, exit, graph, analysis>>

\* The next batch of positions.
Chunk ==
  LET left == DOMAIN wanted \ DOMAIN got
  IN  {i \in left : Cardinality({j \in left : j < i}) < Batch}

\* What an alias answers when nothing fails: the repository the name leads to.
AnswerOf(n) ==
  IF Visible(n)
  THEN Snapshot(n, ScannedAt(tree[home[n]].rev), tree[home[n]].files, home[n], home[n] # n)
  ELSE Snapshot(n, NotFound, NoFiles, n, FALSE)

\* Mutant: a null alias is a repository that does not exist, whatever the error.
FailedAnswersDead(n) == {Snapshot(n, NotFound, NoFiles, n, FALSE)}

\* A null alias with another error, and an incomplete or failed field of a node.
FailedAnswers(n) ==
  {Snapshot(n, Unavailable, NoFiles, n, FALSE)}
    \cup (IF Visible(n) THEN {Snapshot(n, Unavailable, NoFiles, home[n], TRUE)} ELSE {})

Answered(batch, answer) ==
  got' = [i \in DOMAIN got \cup batch |-> IF i \in DOMAIN got THEN got[i] ELSE answer[i]]

\* One query: everything answered, or one alias failed, or the whole query; the
\* sample of the budget may say that another query is not covered.
FetchBatch ==
  LET batch == Chunk
      good  == [i \in batch |-> AnswerOf(wanted[i].repo)]
  IN  /\ pc = "fetch" /\ batch # {} /\ ~spent
      /\ \/ NoFault /\ Answered(batch, good) /\ UNCHANGED spent
         \/ Fault /\ Answered(batch, good) /\ spent' = TRUE
         \/ /\ Fault /\ UNCHANGED spent
            /\ \E i \in batch : \E bad \in FailedAnswers(wanted[i].repo) :
                 Answered(batch, [good EXCEPT ![i] = bad])
         \/ /\ Fault /\ UNCHANGED spent
            /\ Answered(batch, [i \in batch |->
                 Snapshot(wanted[i].repo, Unavailable, NoFiles, wanted[i].repo, FALSE)])
      /\ UNCHANGED <<world, sources, wanted, record, targets, pc, exit, graph, analysis>>

\* Without budget the rest is marked, not asked for.
SkipBatch ==
  /\ pc = "fetch" /\ Chunk # {} /\ spent
  /\ Answered(Chunk, [i \in Chunk |->
       Snapshot(wanted[i].repo, Unavailable, NoFiles, wanted[i].repo, FALSE)])
  /\ UNCHANGED <<world, sources, wanted, spent, record, targets, faults, pc, exit>>
  /\ UNCHANGED <<graph, analysis>>

\* Mutant: the snapshot is that of another position.
PairedLast(i) ==
  [snap |-> got[CHOOSE j \in DOMAIN got : \A k \in DOMAIN got : k <= j],
   role |-> wanted[i].role]

\* Snapshots are paired with roles by position.
Paired(i) == [snap |-> got[i], role |-> wanted[i].role]

\* Once every position has its snapshot, they are recorded in their order.
RecordNext ==
  /\ pc = "fetch" /\ DOMAIN wanted # {} /\ DOMAIN wanted \subseteq DOMAIN got
  /\ NothingToAdd
  /\ LET i == CHOOSE j \in DOMAIN wanted : \A k \in DOMAIN wanted : j <= k
     IN  /\ Records(Paired(i).snap, Paired(i).role)
         /\ wanted' = [j \in DOMAIN wanted \ {i} |-> wanted[j]]
  /\ UNCHANGED <<world, sources, got, spent, targets, faults, pc, exit, analysis>>

FetchEnds ==
  /\ pc = "fetch" /\ DOMAIN wanted = {} /\ NothingToAdd
  /\ got' = <<>> /\ spent' = FALSE
  /\ pc' = "follow"
  /\ UNCHANGED <<world, sources, wanted, record, targets, faults, exit, graph, analysis>>

\* Upstreams of what was read that were not read themselves.
FollowLevel ==
  /\ pc = "follow" /\ level > 0
  /\ LET next == UpstreamRoles(graph) IN
     IF DOMAIN next = {}
     THEN level' = 0 /\ UNCHANGED <<wanted, got, spent, pc>>
     ELSE level' = level - 1 /\ Fetch(next)
  /\ UNCHANGED <<world, asked, locals, record, targets, faults, exit, graph, analysis>>

\* Mutant: a name that was probed is not resolved again.
UnresolvedUnread(g) == {e.to : e \in EdgesOf(g)} \ DOMAIN g.scans

\* Names to resolve: every upstream whose canonical name is not known.
Unresolved(g) == {e.to : e \in EdgesOf(g)} \ DOMAIN g.canonical

\* The note of a run that checks no names.
NoNames == Note(Nobody, "unchecked")

ReadingEnds ==
  /\ pc = "follow" /\ level = 0
  /\ IF asked.canonical
     THEN targets' = Unresolved(graph) /\ UNCHANGED graph
     ELSE graph' = [graph EXCEPT !.notes = @ \cup {NoNames}] /\ UNCHANGED targets
  /\ pc' = "resolve" /\ current' = Own
  /\ UNCHANGED <<home, hidden, accounts, tree, changes, views, lasting>>
  /\ UNCHANGED <<sources, fetch, record, faults, exit, analysis>>

-----------------------------------------------------------------------------
(***************************************************************************)
(* Names.                                                                  *)
(***************************************************************************)
NextTarget == CHOOSE n \in targets : \A m \in targets : n <= m

Unverified(n) == graph' = [graph EXCEPT !.notes = @ \cup {Note(n, "unverified")}]

Resolved == pc' = "resolve" /\ targets' = targets \ {NextTarget}

\* The response names the repository, by its full name or a redirect.
NameAnswers(n) ==
  graph' = [graph EXCEPT !.canonical = RecordCanonical(@, n, home[n])]

\* One read of a name: it answers with a name, without one (a redirect by id, a
\* failure) or with 404, which asks for the owner.
ResolveName ==
  /\ pc = "resolve" /\ targets # {}
  /\ LET n == NextTarget IN
     \/ /\ OwnerOf[n] = NoOwner /\ Unverified(n) /\ Resolved /\ NoFault
     \/ /\ OwnerOf[n] # NoOwner
        /\ \/ Fault /\ Unverified(n) /\ Resolved
           \/ NoFault /\ Visible(n) /\ NameAnswers(n) /\ Resolved
           \/ NoFault /\ ~Visible(n) /\ pc' = "owner" /\ UNCHANGED <<graph, targets>>
  /\ UNCHANGED <<world, sources, fetch, record, exit, analysis>>

\* Absence is established only if the owner is gone too.
OwnerVerdict(n) ==
  IF OwnerOf[n] \in accounts THEN Unverified(n)
  ELSE graph' = [graph EXCEPT !.scans = RecordScan(@, n, NotFound)]

ProbeOwner ==
  /\ pc = "owner"
  /\ \/ NoFault /\ OwnerVerdict(NextTarget)
     \/ Fault /\ Unverified(NextTarget)
  /\ Resolved
  /\ UNCHANGED <<world, sources, fetch, record, exit, analysis>>

NamesEnd ==
  /\ pc = "resolve" /\ targets = {}
  /\ pc' = "analysis" /\ stage' = "cycles"
  /\ UNCHANGED <<world, sources, fetch, record, targets, faults, exit>>
  /\ UNCHANGED <<graph, tarjan, cycles, confirmed, walk, routes, landing>>

-----------------------------------------------------------------------------
\* 2: nothing was read; 4: a blocking finding; 0.
ExitFor ==
  IF ~\E r \in DOMAIN graph.scans : Scanned(graph, r) THEN 2
  ELSE IF Blocking(cycles, confirmed, graph) THEN 4
  ELSE 0

Report ==
  /\ pc = "analysis" /\ stage = "done" /\ exit < 0
  /\ exit' = ExitFor
  /\ UNCHANGED <<world, sources, fetch, record, targets, faults, pc, graph, analysis>>

Finished == exit >= 0 /\ UNCHANGED vars

Run ==
  \/ ReadLocal \/ ReadRemote \/ FetchBatch \/ SkipBatch \/ RecordNext \/ AddFile
  \/ FetchEnds \/ FollowLevel  \/ ReadingEnds \/ ResolveName \/ ProbeOwner \/ NamesEnd
  \/ pc = "analysis" /\ Analyse /\ UNCHANGED <<world, process>>
  \/ Report

Next == GitHub \/ Run \/ Finished

Spec == Init /\ [][Next]_vars
-----------------------------------------------------------------------------
(***************************************************************************)
(* Properties.                                                             *)
(***************************************************************************)
Analysed == pc = "analysis" /\ stage = "done"

\* Repositories of which a checkout was given.
Checkouts == {asked.locals[i].repo : i \in DOMAIN asked.locals}

\* An upstream of a confirmed reference that was not to be had under the name it
\* is written by once reading had ended is reported as moved to a repository it
\* led to during the run, or as dead, or a note says that its name was not
\* verified: no failed call, no rename while the run reads and no order of them
\* hides it. The caveat of a read is no such note. Only a checkout, or a read
\* under this name before it went, covers up that it is gone (collect,
\* resolve_canonical, record_scan, analyse).
NothingHidden ==
  Analysed =>
    \A e \in confirmed :
      LET n == e.to IN
      n \notin current /\ {Note(n, "unverified"), NoNames} \cap graph.notes = {} =>
        \/ \E m \in MovedUpstreams(graph, confirmed) :
             m.written = n /\ m.canonical \in views[n] /\ e \in m.consumers
        \/ n \in DeadUpstreams(graph)
        \/ Scanned(graph, n) /\ (n \in Checkouts \/ n \in views[n]) /\ Nobody \in views[n]

\* What is said of an upstream was so during the run: it led to where it is said
\* to have moved; a dead one could not be seen, and if it was only resolved by
\* name its owner was gone. A failed read, a spent budget and a failed probe are
\* never deaths (parse_chains_response, resolve_canonical).
FindingsHaveGround ==
  Analysed =>
    /\ \A m \in MovedUpstreams(graph, confirmed) :
         m.canonical \in views[m.written] \ {m.written, Nobody}
    /\ \A n \in DeadUpstreams(graph) :
         Nobody \in views[n] /\ (n \in probed \/ OwnerOf[n] \notin lasting)

\* What blocks is in reach: exit 4 has a cycle, a dead name, or a moved name
\* that a requested repository or a file it calls at its exact revision uses;
\* and the edges of a followed repository are of files that something read
\* calls (upstream_roles, graph_from_snapshots, confirmed_edges, exit_for).
BlamesWhatIsCalled ==
  /\ Analysed =>
       \A e \in EdgesOf(graph) :
         e.from \in graph.subjects \/ \E d \in EdgesOf(graph) : Carries(d, e)
  /\ exit = 4 =>
       \/ cycles # {} \/ DeadUpstreams(graph) # {}
       \/ \E e \in EdgesOf(graph) :
            /\ e.to \in DOMAIN graph.canonical
            /\ \/ e.from \in graph.subjects
               \/ \E d \in EdgesOf(graph) : Carries(d, e) /\ PinnedRevision(graph, d)

=============================================================================
