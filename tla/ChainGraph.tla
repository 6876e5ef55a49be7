------------------------------ MODULE ChainGraph ------------------------------
(***************************************************************************)
(* The dependency graph `squabble chains` reads and what it reports of it, *)
(* as operators: what one more snapshot adds to the graph, which upstreams *)
(* are followed, which edges confirm others, and the findings.  The        *)
(* algorithms on the graph (cycles, confirmed edges, routes, landing       *)
(* order, longest chain) are the actions of ChainAnalysis.                 *)
(*                                                                         *)
(* A repository is a number: the order of numbers is the order of names,   *)
(* and a number stands for every spelling of a name.  Pins and revisions   *)
(* are numbers per repository.                                             *)
(*                                                                         *)
(* Sources: crates/squabble-core/src/chains.rs and                         *)
(* crates/squabble-fight/src/chains.rs.                                    *)
(***************************************************************************)
EXTENDS Naturals, Sequences, SequencesExt

CONSTANTS
  Repo,   \* names of repositories, as written or canonical
  File    \* names of workflow files

NoFile == 0

ASSUME NameAssumption == Repo \subseteq Nat \ {0} /\ File \subseteq Nat \ {0}

\* A full SHA, or a tag or branch.
Pin == [sha : BOOLEAN, ref : Nat]

\* A `uses:` reference that extraction keeps: an upstream, the reusable workflow
\* that is called (NoFile: an action) and the pin.  Local, docker and malformed
\* references give no edge.
Use == [to : Repo, call : File \cup {NoFile}, pin : Pin]

Edge == [from : Repo, file : File, to : Repo, call : File \cup {NoFile}, pin : Pin]

ScanStatus == [status : {"Scanned", "NotFound", "Unavailable"}, rev : Nat]

NoRev == 0

\* The references of each file; one that is not there has none.
Workflows == [File -> Seq(Use)]

NoFiles == [f \in File |-> <<>>]

\* What a source returned; `canonical` is the name itself when it could not
\* tell, `noted` says that the source left a caveat.
RepoSnapshot ==
  [repo : Repo, scan : ScanStatus, files : Workflows, canonical : Repo,
   noted : BOOLEAN]

Role == [subject : BOOLEAN, files : SUBSET File]

Subject == [subject |-> TRUE, files |-> {}]

Upstream(files) == [subject |-> FALSE, files |-> files]

\* The first of a set of names or positions.
Least(S) == CHOOSE x \in S : \A y \in S : x <= y

\* A function with one more argument, or another value there.
With(f, x, value) == [y \in DOMAIN f \cup {x} |-> IF y = x THEN value ELSE f[y]]

-----------------------------------------------------------------------------
(***************************************************************************)
(* From snapshots to a graph.                                              *)
(***************************************************************************)
ExtractEdges(repo, file, uses) ==
  [i \in DOMAIN uses |->
     [from |-> repo, file |-> file, to |-> uses[i].to, call |-> uses[i].call,
      pin |-> uses[i].pin]]

\* Only a complete read gives edges; of an upstream, only the files called.
Counted(snap, role) ==
  {f \in File : /\ snap.scan.status = "Scanned" /\ snap.files[f] # <<>>
                /\ role.subject \/ f \in role.files}

\* A successful scan is kept; otherwise the last result counts.
RecordScan(scans, repo, scan) ==
  IF repo \in DOMAIN scans /\ scans[repo].status = "Scanned" THEN scans
  ELSE [r \in DOMAIN scans \cup {repo} |-> IF r = repo THEN scan ELSE scans[r]]

\* A name that resolves to itself is not recorded.
RecordCanonical(canonical, written, name) ==
  IF written = name THEN canonical
  ELSE [r \in DOMAIN canonical \cup {written} |-> IF r = written THEN name ELSE canonical[r]]

EmptyGraph ==
  [scans |-> <<>>, edges |-> <<>>, subjects |-> {}, canonical |-> <<>>,
   notes |-> {}]

\* A note of the report: a caveat of a read, a name that was not verified, or,
\* of no name, that none was.
Note(repo, says) == [about |-> repo, says |-> says]

\* One turn of the loop over snapshots and roles, up to the files.
Recorded(g, snap, role) ==
  [g EXCEPT
     !.scans     = RecordScan(@, snap.repo, snap.scan),
     !.subjects  = IF role.subject THEN @ \cup {snap.repo} ELSE @,
     !.canonical = RecordCanonical(@, snap.repo, snap.canonical),
     !.notes     = IF snap.noted THEN @ \cup {Note(snap.repo, "caveat")} ELSE @]

\* One turn of the loop over the files of a snapshot.
AddEdges(g, repo, file, uses) ==
  [g EXCEPT !.edges = @ \o ExtractEdges(repo, file, uses)]

EdgesOf(g) == {g.edges[i] : i \in DOMAIN g.edges}

\* Upstreams that were not probed, with the reusable workflows called on them,
\* by name, which is their order.
UpstreamRoles(g) ==
  LET called(r) == {e.call : e \in {d \in EdgesOf(g) : d.to = r}} \ {NoFile}
  IN  [r \in {e.to : e \in EdgesOf(g)} \ DOMAIN g.scans |->
         [repo |-> r, role |-> Upstream(called(r))]]

-----------------------------------------------------------------------------
IsSelf(e) == e.from = e.to

Scanned(g, r) == r \in DOMAIN g.scans /\ g.scans[r].status = "Scanned"

ScannedRevision(g, r) == IF Scanned(g, r) THEN g.scans[r].rev ELSE NoRev

CanonicalOf(g, r) == IF r \in DOMAIN g.canonical THEN g.canonical[r] ELSE r

\* Consumer and upstream, a repository that calls itself left out.
RepoEdges(g) == {<<e.from, e.to>> : e \in {d \in EdgesOf(g) : ~IsSelf(d)}}

Nodes(g) ==
  DOMAIN g.scans \cup {e.from : e \in EdgesOf(g)} \cup {e.to : e \in EdgesOf(g)}

\* The upstream was read at exactly the revision that is pinned.
PinnedRevision(g, e) ==
  e.pin.sha /\ ScannedRevision(g, e.to) # NoRev /\ e.pin.ref = ScannedRevision(g, e.to)

\* Edge `inner` is of the file that `caller` calls.
Carries(caller, inner) ==
  caller.call # NoFile /\ caller.to = inner.from /\ caller.call = inner.file

\* What the edges known to be confirmed add: those of requested repositories, and
\* those that exact pins lead to.
Additions(g, known) ==
  {e \in EdgesOf(g) \ known :
     /\ Scanned(g, e.from)
     /\ \/ e.from \in g.subjects
        \/ \E caller \in known : Carries(caller, e) /\ PinnedRevision(g, caller)}

\* How an upstream reaches a consumer: its pin, the repositories passed through
\* and whether the last of them was read at the pinned revision.
DirectRoute(e) == [target |-> e.to, pin |-> e.pin, via |-> <<>>, basis |-> "Direct"]

CarriedRoute(g, call, via, e) ==
  [target |-> e.to, pin |-> e.pin, via |-> via,
   basis |-> IF PinnedRevision(g, call) THEN "PinnedRevision" ELSE "ScannedRevision"]

-----------------------------------------------------------------------------
(***************************************************************************)
(* Findings.                                                               *)
(***************************************************************************)
FromScanned(g) == {e \in EdgesOf(g) : Scanned(g, e.from)}

\* Targets that were probed and not found.
DeadUpstreams(g) ==
  {e.to : e \in {d \in EdgesOf(g) :
     d.to \in DOMAIN g.scans /\ g.scans[d.to].status = "NotFound"}}

MovedUpstreams(g, confirmed) ==
  LET uses(r) == {e \in FromScanned(g) : e.to = r}
  IN  {[written |-> r, canonical |-> g.canonical[r],
        consumers |-> uses(r) \cap confirmed, unconfirmed |-> uses(r) \ confirmed] :
         r \in {n \in DOMAIN g.canonical : uses(n) # {}}}

\* Upstreams, by canonical name, that scanned consumers pin differently.
PinSkews(g) ==
  {CanonicalOf(g, e.to) : e \in
     {d \in FromScanned(g) : \E o \in FromScanned(g) :
        CanonicalOf(g, o.to) = CanonicalOf(g, d.to) /\ o.pin # d.pin}}

\* Consumers that pin an upstream by tag or branch.
MutablePins(g) ==
  {e.from : e \in {d \in FromScanned(g) : ~d.pin.sha /\ ~IsSelf(d)}}

\* Referenced and never probed.
Frontier(g) == {e.to : e \in EdgesOf(g)} \ DOMAIN g.scans

Blocking(cycles, confirmed, g) ==
  \/ cycles # {}
  \/ DeadUpstreams(g) # {}
  \/ \E m \in MovedUpstreams(g, confirmed) : m.consumers # {}

=============================================================================
