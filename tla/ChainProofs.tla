----------------------------- MODULE ChainProofs -----------------------------
(***************************************************************************)
(* The landing order of Chains, for every graph it may read: rounds land   *)
(* after all their upstreams, and where the order stops a set of           *)
(* repositories wait for one another.  The order is built while the graph  *)
(* no longer changes, which is what OrderInv adds.  So are the others of   *)
(* its analyses: cycles (SearchInv), longest chain (WeighInv), confirmed   *)
(* edges (LeastInv) and routes (RoutesInv) are exact for every graph.      *)
(*                                                                         *)
(* What Chains reports of names, for every GitHub and every failure: no    *)
(* upstream that is not to be had under its name is passed over without a  *)
(* note, what is said of one was so, and only calls that were read are     *)
(* blamed.                                                                 *)
(* ReadInv says what each answer, each file still to be added and each     *)
(* name settled so far has to do with GitHub and with the graph.           *)
(***************************************************************************)
EXTENDS Chains, FiniteSetTheorems, NaturalsInduction, WellFoundedInduction, TLAPS

\* The graph changes only before the analysis; the order grows only in its stage.
Staged ==
  /\ pc # "analysis" => stage = "reading"
  /\ stage \in {"reading", "cycles", "confirm", "routes"} => order = <<>>
  /\ stuck => stage = "done"

\* The rounds are sets of repositories of the graph.
Rounds == order \in Seq(SUBSET Nodes(graph))

\* Where the order stops, something is left and nothing of it is ready.
Stopped == stuck => Landed # Nodes(graph) /\ Ready(Landed) = {}

\* The order so far is one, and its end is justified.
OrderInv == Staged /\ Rounds /\ LandsUpstreamsFirst /\ Stopped

\* What a node waits for is a node.
LEMMA UpstreamsAreNodes ==
  ASSUME NEW r PROVE UpstreamsOf(r) \subseteq Nodes(graph)
BY DEF UpstreamsOf, RepoEdges, Nodes

\* What has landed is made of nodes.
LEMMA LandedAreNodes == Rounds => Landed \subseteq Nodes(graph)
BY DEF Rounds, Landed, ToSet

\* What has landed is in a round.
LEMMA LandedInRound ==
  ASSUME Rounds, NEW u \in Landed PROVE \E j \in 1..Len(order) : u \in order[j]
<1>1. \A j \in DOMAIN order : j \in 1..Len(order)
  BY DEF Rounds
<1> QED
  BY <1>1 DEF Landed, ToSet

\* A step that leaves graph, order, stuck and stage alone leaves the claims.
LEMMA OrderKept ==
  ASSUME OrderInv, UNCHANGED <<graph, order, stuck>>
  PROVE  Rounds' /\ LandsUpstreamsFirst' /\ Stopped'
BY DEF OrderInv, Rounds, LandsUpstreamsFirst, Stopped, Landed, Ready, UpstreamsOf

\* Before the analysis there is nothing to keep.
LEMMA NoOrderYet ==
  ASSUME order' = <<>>, ~stuck'
  PROVE  Rounds' /\ LandsUpstreamsFirst' /\ Stopped'
BY DEF Rounds, LandsUpstreamsFirst, Stopped

\* One round of the landing order.
LEMMA LandKeeps == ASSUME OrderInv, Land, UNCHANGED pc PROVE OrderInv'
<1>1. stage = "order" /\ ~stuck /\ UNCHANGED graph
  BY DEF Land, OrderInv, Staged
<1>2. Staged'
  BY DEF Land, OrderInv, Staged
<1>3. CASE UNCHANGED order
  <2>1. stuck' => Landed # Nodes(graph) /\ Ready(Landed) = {}
    BY <1>1, <1>3 DEF Land
  <2>2. Rounds' /\ LandsUpstreamsFirst'
    BY <1>1, <1>3 DEF OrderInv, Rounds, LandsUpstreamsFirst, UpstreamsOf
  <2>3. Stopped'
    BY <1>1, <1>3, <2>1 DEF Stopped, Landed, Ready, UpstreamsOf
  <2> QED
    BY <1>2, <2>2, <2>3 DEF OrderInv
<1>4. CASE order' = Append(order, Ready(Landed)) /\ UNCHANGED stuck
  <2> DEFINE new == Ready(Landed)
             n   == Len(order) + 1
  <2>1. new \subseteq Nodes(graph) /\ order \in Seq(SUBSET Nodes(graph)) /\ Rounds
    BY DEF Ready, OrderInv, Rounds
  <2>2. Rounds'
    BY <1>1, <1>4, <2>1 DEF Rounds
  <2>3. /\ DOMAIN order' = 1..n /\ order'[n] = new
        /\ \A i \in 1..(n - 1) : order'[i] = order[i]
        /\ DOMAIN order = 1..(n - 1) /\ n \in Nat
    BY <1>4, <2>1
  <2>4. \A r \in new : r \notin Landed /\ UpstreamsOf(r) \subseteq Landed
    BY DEF Ready
  <2>5. \A r \in new : \A j \in 1..(n - 1) : r \notin order[j]
    BY <2>3, <2>4 DEF Landed, ToSet
  <2>6. \A r \in new : \A u \in UpstreamsOf(r) : \E j \in 1..(n - 1) : u \in order[j]
    BY <2>1, <2>3, <2>4, LandedInRound
  <2>7. \A r : UpstreamsOf(r)' = UpstreamsOf(r)
    BY <1>1 DEF UpstreamsOf
  <2> HIDE DEF new, n
  <2>8. ASSUME NEW i \in DOMAIN order', NEW r \in order'[i]
        PROVE  /\ \A j \in 1..(i - 1) : r \notin order'[j]
               /\ \A u \in UpstreamsOf(r) : \E j \in 1..(i - 1) : u \in order'[j]
    <3>1. CASE i = n
      BY <2>3, <2>5, <2>6, <2>8, <3>1
    <3>2. CASE i \in 1..(n - 1)
      <4>1. /\ \A j \in 1..(i - 1) : r \notin order[j]
            /\ \A u \in UpstreamsOf(r) : \E j \in 1..(i - 1) : u \in order[j]
        BY <2>3, <2>8, <3>2 DEF OrderInv, LandsUpstreamsFirst
      <4> QED
        BY <2>3, <3>2, <4>1
    <3> QED
      BY <2>3, <2>8, <3>1, <3>2
  <2>9. LandsUpstreamsFirst'
    BY <2>7, <2>8 DEF LandsUpstreamsFirst
  <2>10. Stopped'
    BY <1>1, <1>4 DEF Stopped
  <2> QED
    BY <1>2, <2>2, <2>9, <2>10 DEF OrderInv
<1> QED
  BY <1>3, <1>4 DEF Land

\* The other steps of the analysis do not touch the order.
LEMMA AnalyseKeeps ==
  ASSUME OrderInv, Analyse, UNCHANGED pc PROVE OrderInv'
<1>1. CASE Land
  BY <1>1, LandKeeps
<1>2. CASE Root
  <2>1. UNCHANGED <<graph, order, stuck>> /\ Staged'
    BY <1>2 DEF Root, landing, OrderInv, Staged
  <2> QED
    BY <2>1, OrderKept DEF OrderInv
<1>3. CASE FollowEdge \/ Return \/ Follow \/ FollowReturns
  <2>1. UNCHANGED <<graph, order, stuck, stage>>
    BY <1>3 DEF FollowEdge, Return, Follow, FollowReturns, landing
  <2> QED
    BY <2>1, OrderKept DEF OrderInv, Staged
<1>4. CASE Confirm \/ RoutesInto
  <2>1. UNCHANGED <<graph, order, stuck>> /\ Staged'
    BY <1>4 DEF Confirm, RoutesInto, landing, OrderInv, Staged
  <2> QED
    BY <2>1, OrderKept DEF OrderInv
<1>5. CASE Weigh \/ Trace
  <2>1. UNCHANGED <<graph, order, stuck>> /\ stage \in {"weigh", "chain"}
    BY <1>5 DEF Weigh, Trace
  <2>2. stage' \in {stage, "chain", "done"}
    BY <1>5 DEF Weigh, Trace
  <2> QED
    BY <2>1, <2>2, OrderKept DEF OrderInv, Staged
<1> QED
  BY <1>1, <1>2, <1>3, <1>4, <1>5 DEF Analyse

\* Steps that read leave the analysis where it was: at its start.
LEMMA ReadingKeeps ==
  ASSUME OrderInv, UNCHANGED <<order, stuck, stage>>, stage = "reading"
  PROVE  OrderInv'
BY NoOrderYet DEF OrderInv, Staged

\* Every step keeps the order sound.
LEMMA NextKeeps == ASSUME OrderInv, [Next]_vars PROVE OrderInv'
<1>1. CASE UNCHANGED <<pc, graph, analysis>>
  BY <1>1, OrderKept DEF analysis, landing, OrderInv, Staged
<1>2. CASE GitHub \/ Finished \/ UNCHANGED vars \/ Report
  BY <1>1, <1>2 DEF GitHub, Finished, Report, vars, process
<1>3. CASE ReadLocal \/ ReadRemote \/ FetchBatch \/ SkipBatch \/ RecordNext \/ AddFile
           \/ FetchEnds \/ FollowLevel \/ ReadingEnds \/ ResolveName \/ ProbeOwner
  <2>1. UNCHANGED analysis /\ pc # "analysis"
    BY <1>3 DEF ReadLocal, ReadRemote, FetchBatch, SkipBatch, RecordNext, AddFile,
                FetchEnds, FollowLevel, ReadingEnds, ResolveName, ProbeOwner
  <2> QED
    BY <2>1, ReadingKeeps DEF OrderInv, Staged, analysis, landing
<1>4. CASE NamesEnd
  <2>1. /\ pc' = "analysis" /\ stage' = "cycles" /\ UNCHANGED <<graph, order, stuck>>
        /\ pc # "analysis"
    BY <1>4 DEF NamesEnd, landing
  <2> QED
    BY <2>1, NoOrderYet DEF OrderInv, Staged
<1>5. CASE Analyse /\ UNCHANGED process
  BY <1>5, AnalyseKeeps DEF process
<1> QED
  BY <1>2, <1>3, <1>4, <1>5 DEF Next, Run

\* The order is sound in every state.
LEMMA OrderInvariant == Spec => []OrderInv
<1>1. Init => OrderInv
  BY NoOrderYet DEF Init, NotAnalysed, OrderInv, Staged, Rounds, LandsUpstreamsFirst, Stopped
<1> QED
  BY <1>1, NextKeeps, PTL DEF Spec

\* Whatever GitHub answers and however it changes meanwhile, the landing order
\* puts no repository before one of its upstreams and none twice.
THEOREM LandingOrderIsSound == Spec => []LandsUpstreamsFirst
<1>1. OrderInv => LandsUpstreamsFirst
  BY DEF OrderInv
<1> QED
  BY <1>1, OrderInvariant, PTL

\* "No landing order" is never a mistake: a set of repositories is left in which
\* each waits for another one of the set.
THEOREM NoOrderMeansCircle == Spec => []StuckWaitsInCircle
<1>1. OrderInv => StuckWaitsInCircle
  <2> SUFFICES ASSUME OrderInv, stuck
               PROVE  \E S \in SUBSET Nodes(graph) :
                        S # {} /\ \A r \in S : UpstreamsOf(r) \cap S # {}
    BY DEF StuckWaitsInCircle
  <2> DEFINE S == Nodes(graph) \ Landed
  <2>1. S # {} /\ S \in SUBSET Nodes(graph)
    BY LandedAreNodes DEF OrderInv, Stopped
  <2>2. ASSUME NEW r \in S PROVE UpstreamsOf(r) \cap S # {}
    <3>1. ~(UpstreamsOf(r) \subseteq Landed)
      BY <2>2 DEF OrderInv, Stopped, Ready
    <3> QED
      BY <3>1, UpstreamsAreNodes
  <2> QED
    BY <2>1, <2>2
<1> QED
  BY <1>1, OrderInvariant, PTL

-----------------------------------------------------------------------------
\* The graph is a record of its parts, of edges and names.
GraphShape ==
  /\ graph = [scans |-> graph.scans, edges |-> graph.edges, subjects |-> graph.subjects,
              canonical |-> graph.canonical, notes |-> graph.notes]
  /\ graph.edges \in Seq(Edge)
  /\ DOMAIN graph.scans \subseteq Repo /\ DOMAIN graph.canonical \subseteq Repo

\* A name leads to a repository that has this name, or nowhere, and where it
\* leads is among the views it has had.
WorldShape ==
  /\ home \in [Repo -> Repo \cup {Nobody}] /\ tree \in [Repo -> Head1]
  /\ \A n \in Repo : home[n] # Nobody => home[home[n]] = home[n]
  /\ \A n \in Repo : View(n) \in views[n]
  /\ lasting \subseteq accounts
  /\ locals \in Seq([repo : Repo, tree : Head1]) /\ asked \in Scenario
  /\ \A i \in DOMAIN locals : locals[i].repo \in Checkouts

\* Every name that is recorded as moved has led there.
NamesLead ==
  \A n \in DOMAIN graph.canonical : graph.canonical[n] \in views[n] \ {n, Nobody}

\* Every death is of a name that led nowhere in sight, and every scan of a
\* checkout, of the name itself, or of a name that is recorded as moved.
ScansHaveGround ==
  \A n \in DOMAIN graph.scans :
    /\ graph.scans[n].status = "NotFound" =>
         Nobody \in views[n] /\ (n \in probed \/ OwnerOf[n] \notin lasting)
    /\ graph.scans[n].status = "Scanned" =>
         n \in Checkouts \/ n \in views[n] \/ n \in DOMAIN graph.canonical

\* A snapshot says of its name what was so.
IsTrue(snap) ==
  LET n == snap.repo IN
  /\ n \in Repo /\ snap.files \in Workflows
  /\ snap.scan.status = "NotFound" => Nobody \in views[n]
  /\ snap.canonical # n => snap.canonical \in views[n] \ {Nobody}
  /\ snap.scan.status = "Scanned" =>
       n \in Checkouts \/ n \in views[n] \/ snap.canonical # n

\* Each snapshot at hand is true, and of the repository at its position.
GotIsTrue ==
  \A i \in DOMAIN got : IsTrue(got[i]) /\ (i \in DOMAIN wanted => got[i].repo = wanted[i].repo)

\* Something calls file f of repository r.
CalledOn(r, f) == f # NoFile /\ \E d \in EdgesOf(graph) : d.to = r /\ d.call = f

\* The files that count of an upstream are called by something that was read.
WantedIsCalled ==
  /\ DOMAIN wanted \subseteq Nat
  /\ \A i \in DOMAIN wanted :
       /\ wanted[i].repo \in Repo
       /\ wanted[i].role.subject \/ \A f \in wanted[i].role.files : CalledOn(wanted[i].repo, f)

\* Each file still to be added counts.
AddingIsCalled ==
  \A f \in DOMAIN adding.files :
    /\ f \in File /\ adding.repo \in Repo /\ adding.files[f] \in Seq(Use)
    /\ adding.repo \in graph.subjects \/ CalledOn(adding.repo, f)

\* The edges of a followed repository are of files that are called.
EdgesAreCalled ==
  \A e \in EdgesOf(graph) :
    e.from \in graph.subjects \/ \E d \in EdgesOf(graph) : Carries(d, e)

\* What was learnt of a name, if not that it could not be verified.
Settled(n) ==
  \/ n \in DOMAIN graph.canonical \/ Note(n, "unverified") \in graph.notes
  \/ n \in current
  \/ /\ n \in DOMAIN graph.scans /\ graph.scans[n].status \in {"Scanned", "NotFound"}
     /\ Nobody \in views[n]

\* Once reading is over, an upstream waits for its name or is settled.
NamesAreSettled ==
  /\ targets \subseteq Repo
  /\ Resolving => Own \subseteq current
  /\ ~Resolving \/ pc = "analysis" => targets = {}
  /\ Resolving => asked.canonical \/ NoNames \in graph.notes
  /\ Resolving /\ asked.canonical =>
       \A e \in EdgesOf(graph) : e.to \in targets \/ Settled(e.to)
  /\ pc = "owner" => targets # {} /\ Nobody \in views[NextTarget]

\* What is confirmed was read, and called at its exact revision.
ConfirmedAreCalled ==
  /\ stage = "reading" => confirmed = {}
  /\ \A e \in confirmed :
       /\ e \in FromScanned(graph)
       /\ \/ e.from \in graph.subjects
          \/ \E d \in EdgesOf(graph) : Carries(d, e) /\ PinnedRevision(graph, d)

\* Where the process is says where the analysis is.
Stages ==
  /\ pc \in {"sources", "fetch", "follow", "resolve", "owner", "analysis"}
  /\ pc # "analysis" => stage = "reading" /\ exit < 0
  /\ exit = 4 => stage = "done" /\ Blocking(cycles, confirmed, graph)

\* A set of names has a first one.
LEMMA FirstName ==
  ASSUME NEW set \in SUBSET Nat, set # {}
  PROVE  \E i \in set : \A j \in set : i <= j
<1>1. IsWellFoundedOn(OpToRel(<, Nat), Nat)
  BY NatLessThanWellFounded, Zenon
<1>2. PICK i \in set : \A j \in set : ~ (<<j, i>> \in OpToRel(<, Nat))
  BY <1>1, WFMin, Zenon
<1>3. \A j \in set : ~ (j < i)
  BY <1>2 DEF OpToRel
<1> QED
  BY <1>3

\* The next name to resolve is one of those left.
LEMMA TargetsHaveFirst ==
  ASSUME targets \subseteq Repo, targets # {}
  PROVE  NextTarget \in targets /\ NextTarget \in Repo
<1>1. \E n \in targets : \A m \in targets : n <= m
  BY FirstName, NameAssumption
<1> QED
  BY <1>1 DEF NextTarget

\* The edges of a graph are edges.
LEMMA EdgesAreEdges ==
  ASSUME GraphShape, NEW e \in EdgesOf(graph)
  PROVE  e \in Edge /\ e.to \in Repo
<1>1. PICK i \in DOMAIN graph.edges : e = graph.edges[i]
  BY DEF EdgesOf
<1>2. graph.edges \in Seq(Edge)
  BY DEF GraphShape
<1>3. e \in Edge
  BY <1>1, <1>2
<1> QED
  BY <1>3 DEF Edge

\* What was read is true, and what is called is what was read.
ReadInv ==
  /\ GraphShape /\ WorldShape /\ NamesLead /\ ScansHaveGround
  /\ GotIsTrue /\ WantedIsCalled /\ AddingIsCalled /\ EdgesAreCalled
  /\ NamesAreSettled /\ ConfirmedAreCalled /\ Stages

\* What a name has led to is not forgotten, and no owner is there anew.
HistoryGrows ==
  /\ \A n \in Repo : views[n] \subseteq views'[n]
  /\ lasting' \subseteq lasting
  /\ current \subseteq current' /\ (Resolving => Own' \subseteq current')

\* GitHub changes where names lead, and its history records it.
LEMMA ViewsAreKept ==
  ASSUME WorldShape, GitHub
  PROVE  WorldShape' /\ HistoryGrows
<1>1. /\ \A n \in Repo : views'[n] = views[n] \cup {View(n)'}
      /\ lasting' = lasting \cap accounts' /\ UNCHANGED <<asked, locals>>
      /\ current' = IF Resolving THEN current \cup Own' ELSE current
  BY DEF GitHub, process, sources
<1>2. HistoryGrows
  BY <1>1 DEF HistoryGrows
<1> DEFINE Homes == /\ home' \in [Repo -> Repo \cup {Nobody}] /\ tree' \in [Repo -> Head1]
                    /\ \A n \in Repo : home'[n] # Nobody => home'[home'[n]] = home'[n]
<1>3. Homes
  <2> USE DEF WorldShape
  <2>1. ASSUME NEW r \in Repo, Push(r)
        PROVE  Homes
    <3>1. PICK files \in Trees : tree' = [tree EXCEPT ![r] = [rev |-> @.rev + 1, files |-> files]]
      BY <2>1 DEF Push
    <3>2. tree[r] \in Head1 /\ files \in Workflows
      BY ScenarioAssumption
    <3>3. [rev |-> tree[r].rev + 1, files |-> files] \in Head1
      BY <3>2 DEF Head1
    <3>4. tree' \in [Repo -> Head1]
      BY <3>1, <3>3
    <3> QED
      BY <2>1, <3>4 DEF Push
  <2>2. ASSUME NEW r \in Repo, Hide(r)
        PROVE  Homes
    BY <2>2 DEF Hide
  <2>3. ASSUME NEW r \in Repo, Delete(r)
        PROVE  Homes
    BY <2>3, NameAssumption DEF Delete, Nobody
  <2>4. ASSUME NEW r \in Repo, NEW m \in Repo, Move(r, m)
        PROVE  Homes
    <3>1. /\ home' = [n \in Repo |-> IF home[n] = r \/ n = m THEN m ELSE home[n]]
          /\ home[m] = Nobody /\ home[r] = r
      BY <2>4 DEF Move, Lives
    <3>2. tree' \in [Repo -> Head1]
      BY <2>4 DEF Move
    <3>3. \A n \in Repo : home[n] # m
      BY <3>1, NameAssumption DEF Nobody
    <3>4. \A n \in Repo : home'[n] # Nobody => home'[home'[n]] = home'[n]
      BY <3>1, <3>3
    <3> QED
      BY <3>1, <3>2, <3>4
  <2>5. ASSUME NEW o \in Account, TurnAccount(o)
        PROVE  Homes
    BY <2>5 DEF TurnAccount
  <2> QED
    BY <2>1, <2>2, <2>3, <2>4, <2>5 DEF GitHub
<1>4. Checkouts' = Checkouts
  BY <1>1 DEF Checkouts
<1> HIDE DEF Homes
<1>5. WorldShape'
  BY <1>1, <1>3, <1>4 DEF WorldShape, Homes
<1> QED
  BY <1>2, <1>5

\* GitHub keeps what was read true: it was so when it was read.
LEMMA GitHubKeepsReads ==
  ASSUME ReadInv, GitHub
  PROVE  ReadInv'
<1>1. WorldShape' /\ HistoryGrows
  BY ViewsAreKept DEF ReadInv
<1>2. /\ UNCHANGED <<asked, wanted, got, adding, probed, targets, pc, exit, graph>>
      /\ UNCHANGED <<stage, cycles, confirmed>>
  BY DEF GitHub, process, sources, fetch, record, analysis
<1>3. GraphShape' /\ WantedIsCalled' /\ AddingIsCalled' /\ EdgesAreCalled'
  BY <1>2 DEF ReadInv, GraphShape, WantedIsCalled, AddingIsCalled, EdgesAreCalled, CalledOn
<1>4. ConfirmedAreCalled' /\ Stages'
  BY <1>2 DEF ReadInv, ConfirmedAreCalled, Stages
<1>5. NamesLead' /\ ScansHaveGround'
  BY <1>1, <1>2
     DEF ReadInv, GraphShape, NamesLead, ScansHaveGround, HistoryGrows, Checkouts
<1>6. GotIsTrue'
  BY <1>1, <1>2 DEF ReadInv, GotIsTrue, IsTrue, HistoryGrows, Checkouts
<1>7. NamesAreSettled'
  <2>1. \A n \in Repo : Settled(n) => Settled(n)'
    BY <1>1, <1>2 DEF Settled, HistoryGrows
  <2>2. \A e \in EdgesOf(graph) : e.to \in Repo
    BY EdgesAreEdges DEF ReadInv
  <2>3. targets # {} => NextTarget \in Repo
    BY TargetsHaveFirst DEF ReadInv, NamesAreSettled
  <2>4. NextTarget' = NextTarget
    BY <1>2 DEF NextTarget
  <2> QED
    BY <1>1, <1>2, <2>1, <2>2, <2>3, <2>4
       DEF ReadInv, NamesAreSettled, Resolving, HistoryGrows
<1> QED
  BY <1>1, <1>3, <1>4, <1>5, <1>6, <1>7 DEF ReadInv

\* Steps that leave the world and the graph alone keep what was learnt.
LEMMA LearntIsKept ==
  ASSUME ReadInv, UNCHANGED <<world, asked, graph, adding, probed>>
  PROVE  /\ GraphShape' /\ NamesLead' /\ ScansHaveGround' /\ AddingIsCalled' /\ EdgesAreCalled'
         /\ \A n : Settled(n)' <=> Settled(n)
         /\ \A snap : IsTrue(snap)' <=> IsTrue(snap)
         /\ \A r, f : CalledOn(r, f)' <=> CalledOn(r, f)
<1>1. /\ GraphShape' /\ NamesLead' /\ ScansHaveGround'
      /\ \A n : Settled(n)' <=> Settled(n)
  BY DEF ReadInv, GraphShape, NamesLead, ScansHaveGround, Settled, Checkouts, world, history
<1>2. \A r, f : CalledOn(r, f)' <=> CalledOn(r, f)
  BY DEF CalledOn
<1>3. AddingIsCalled' /\ EdgesAreCalled'
  BY <1>2 DEF ReadInv, AddingIsCalled, EdgesAreCalled
<1>4. \A snap : IsTrue(snap)' <=> IsTrue(snap)
  BY DEF IsTrue, Checkouts, world, history
<1> QED
  BY <1>1, <1>2, <1>3, <1>4

\* Before names are resolved there is nothing to settle, and nothing analysed.
LEMMA NothingSettledYet ==
  ASSUME ReadInv, ~Resolving, ~Resolving', UNCHANGED <<targets, exit, analysis>>,
         pc' \in {"sources", "fetch", "follow"}
  PROVE  NamesAreSettled' /\ ConfirmedAreCalled' /\ Stages'
<1>1. targets = {} /\ stage = "reading" /\ exit < 0 /\ confirmed = {}
  BY DEF ReadInv, NamesAreSettled, Stages, Resolving, ConfirmedAreCalled
<1>2. targets' = {} /\ stage' = "reading" /\ exit' < 0 /\ confirmed' = {}
  BY <1>1 DEF analysis
<1> QED
  BY <1>2 DEF NamesAreSettled, Stages, Resolving, ConfirmedAreCalled

\* A fetch begins with what is no slug, of which nothing is claimed.
LEMMA FetchBegins ==
  ASSUME ReadInv, NEW list, Fetch(list), UNCHANGED <<world, asked, graph, adding, probed>>,
         DOMAIN list \subseteq Nat, \A i \in DOMAIN list : list[i].repo \in Repo,
         \A i \in DOMAIN list :
           list[i].role.subject \/ \A f \in list[i].role.files : CalledOn(list[i].repo, f)
  PROVE  GotIsTrue' /\ WantedIsCalled'
<1>1. /\ wanted' = list
      /\ got' = [i \in {j \in DOMAIN list : OwnerOf[list[j].repo] = NoOwner} |->
                   Snapshot(list[i].repo, Unavailable, NoFiles, list[i].repo, FALSE)]
  BY DEF Fetch
<1>2. WantedIsCalled'
  BY <1>1, LearntIsKept DEF WantedIsCalled
<1>3. NoFiles \in Workflows
  BY DEF NoFiles, Workflows
<1>4. \A r \in Repo : LET s == Snapshot(r, Unavailable, NoFiles, r, FALSE)
                      IN  IsTrue(s) /\ s.repo = r
  BY <1>3 DEF Snapshot, Unavailable, IsTrue
<1>5. GotIsTrue'
  BY <1>1, <1>4, LearntIsKept DEF GotIsTrue
<1> QED
  BY <1>2, <1>5

\* Asking GitHub claims nothing yet.
LEMMA ReadRemoteKeepsReads ==
  ASSUME ReadInv, ReadRemote
  PROVE  ReadInv'
<1>1. /\ pc = "sources" /\ UNCHANGED <<world, asked, locals, graph, adding, probed>>
      /\ UNCHANGED <<targets, exit, analysis>>
  BY DEF ReadRemote, sources, record
<1>2. pc' \in {"fetch", "follow"}
  BY DEF ReadRemote, Fetch
<1>3. NamesAreSettled' /\ ConfirmedAreCalled' /\ Stages'
  BY <1>1, <1>2, NothingSettledYet DEF Resolving
<1>4. GotIsTrue' /\ WantedIsCalled'
  <2>1. CASE asked.remote # <<>>
    <3> DEFINE list == [i \in DOMAIN asked.remote |-> [repo |-> asked.remote[i], role |-> Subject]]
    <3>1. asked.remote \in Seq(Repo)
      BY DEF ReadInv, WorldShape, Scenario
    <3>2. DOMAIN list \subseteq Nat /\ \A i \in DOMAIN list : list[i].repo \in Repo
      BY <3>1
    <3>3. \A i \in DOMAIN list : list[i].role.subject
      BY DEF Subject
    <3>4. Fetch(list)
      BY <2>1 DEF ReadRemote
    <3> HIDE DEF list
    <3> QED
      BY <1>1, <3>2, <3>3, <3>4, FetchBegins
  <2>2. CASE asked.remote = <<>>
    <3>1. UNCHANGED <<wanted, got>>
      BY <2>2 DEF ReadRemote
    <3> QED
      BY <1>1, <3>1, LearntIsKept DEF ReadInv, GotIsTrue, WantedIsCalled
  <2> QED
    BY <2>1, <2>2
<1>5. WorldShape'
  BY <1>1 DEF ReadInv, WorldShape, View, Visible, Checkouts, world, history
<1> QED
  BY <1>1, <1>3, <1>4, <1>5, LearntIsKept DEF ReadInv

\* What is followed is called by an edge of the graph.
LEMMA FollowLevelKeepsReads ==
  ASSUME ReadInv, FollowLevel
  PROVE  ReadInv'
<1>1. /\ pc = "follow" /\ UNCHANGED <<world, asked, locals, graph, adding, probed>>
      /\ UNCHANGED <<targets, exit, analysis>>
  BY DEF FollowLevel, record
<1>2. pc' \in {"fetch", "follow"}
  BY <1>1 DEF FollowLevel, Fetch
<1>3. NamesAreSettled' /\ ConfirmedAreCalled' /\ Stages'
  BY <1>1, <1>2, NothingSettledYet DEF Resolving
<1>4. GotIsTrue' /\ WantedIsCalled'
  <2> DEFINE list == UpstreamRoles(graph)
  <2>1. CASE Fetch(list)
    <3>1. DOMAIN list = {e.to : e \in EdgesOf(graph)} \ DOMAIN graph.scans
      BY DEF UpstreamRoles
    <3>2. DOMAIN list \subseteq Repo
      BY <3>1, EdgesAreEdges DEF ReadInv
    <3>3. \A r \in DOMAIN list :
            /\ list[r].repo = r
            /\ list[r].role.files = {e.call : e \in {d \in EdgesOf(graph) : d.to = r}} \ {NoFile}
      BY DEF UpstreamRoles, Upstream
    <3>4. \A r \in DOMAIN list : \A f \in list[r].role.files : CalledOn(list[r].repo, f)
      BY <3>3 DEF CalledOn
    <3> HIDE DEF list
    <3> QED
      BY <1>1, <2>1, <3>2, <3>3, <3>4, FetchBegins, NameAssumption
  <2>2. CASE UNCHANGED <<wanted, got>>
    BY <1>1, <2>2, LearntIsKept DEF ReadInv, GotIsTrue, WantedIsCalled
  <2> QED
    BY <2>1, <2>2 DEF FollowLevel
<1>5. WorldShape'
  BY <1>1 DEF ReadInv, WorldShape, View, Visible, Checkouts, world, history
<1> QED
  BY <1>1, <1>3, <1>4, <1>5, LearntIsKept DEF ReadInv

\* Answers that are true and in place are added to those at hand.
LEMMA AnswersAreAdded ==
  ASSUME ReadInv, NEW batch, NEW answer, Answered(batch, answer),
         UNCHANGED <<world, asked, graph, wanted, adding, probed>>,
         \A i \in batch : /\ i \in DOMAIN wanted
                         /\ IsTrue(answer[i]) /\ answer[i].repo = wanted[i].repo
  PROVE  GotIsTrue' /\ WantedIsCalled'
<1>1. /\ DOMAIN got' = DOMAIN got \cup batch
      /\ \A i \in DOMAIN got' : got'[i] = IF i \in DOMAIN got THEN got[i] ELSE answer[i]
  BY DEF Answered
<1>2. WantedIsCalled'
  BY LearntIsKept DEF ReadInv, WantedIsCalled
<1>3. GotIsTrue'
  BY <1>1, LearntIsKept DEF ReadInv, GotIsTrue
<1> QED
  BY <1>2, <1>3

\* Each answer of GitHub is true when it is given.
LEMMA AnswersAreTrue ==
  ASSUME WorldShape, NEW n \in Repo
  PROVE  /\ IsTrue(AnswerOf(n)) /\ AnswerOf(n).repo = n
         /\ \A bad \in FailedAnswers(n) : IsTrue(bad) /\ bad.repo = n
         /\ LET none == Snapshot(n, Unavailable, NoFiles, n, FALSE)
            IN  IsTrue(none) /\ none.repo = n
<1>1. NoFiles \in Workflows
  BY DEF NoFiles, Workflows
<1>2. ASSUME NEW scan, NEW files \in Workflows, NEW canonical, NEW noted,
             scan.status = "NotFound" => ~Visible(n),
             canonical # n => Visible(n) /\ canonical = home[n],
             scan.status = "Scanned" => Visible(n) /\ canonical = home[n]
      PROVE  LET s == Snapshot(n, scan, files, canonical, noted) IN IsTrue(s) /\ s.repo = n
  <2>1. IF Visible(n) THEN home[n] \in views[n] \ {Nobody} ELSE Nobody \in views[n]
    BY DEF WorldShape, View, Visible
  <2> QED
    BY <1>2, <2>1 DEF IsTrue, Snapshot
<1>3. Visible(n) => tree[home[n]].files \in Workflows
  <2>1. Visible(n) => home[n] \in Repo
    BY DEF WorldShape, Visible
  <2> QED
    BY <2>1 DEF WorldShape, Head1
<1>4. IsTrue(AnswerOf(n)) /\ AnswerOf(n).repo = n
  <2>1. CASE Visible(n)
    BY <1>2, <1>3, <2>1 DEF AnswerOf, ScannedAt
  <2>2. CASE ~Visible(n)
    BY <1>1, <1>2, <2>2 DEF AnswerOf, NotFound
  <2> QED
    BY <2>1, <2>2
<1>5. \A bad \in FailedAnswers(n) : IsTrue(bad) /\ bad.repo = n
  <2>1. LET s == Snapshot(n, Unavailable, NoFiles, n, FALSE) IN IsTrue(s) /\ s.repo = n
    BY <1>1, <1>2 DEF Unavailable
  <2>2. Visible(n) => LET s == Snapshot(n, Unavailable, NoFiles, home[n], TRUE)
                      IN  IsTrue(s) /\ s.repo = n
    BY <1>1, <1>2 DEF Unavailable
  <2> QED
    BY <2>1, <2>2 DEF FailedAnswers
<1>6. LET none == Snapshot(n, Unavailable, NoFiles, n, FALSE) IN IsTrue(none) /\ none.repo = n
  BY <1>1, <1>2 DEF Unavailable
<1> QED
  BY <1>4, <1>5, <1>6

\* A query, whole or with failures, and a batch that is skipped.
LEMMA BatchKeepsReads ==
  ASSUME ReadInv, FetchBatch \/ SkipBatch
  PROVE  ReadInv'
<1>1. /\ pc = "fetch" /\ pc' = "fetch" /\ UNCHANGED <<world, asked, locals, graph, adding, probed>>
      /\ UNCHANGED <<wanted, targets, exit, analysis>>
  BY DEF FetchBatch, SkipBatch, sources, record
<1>2. NamesAreSettled' /\ ConfirmedAreCalled' /\ Stages'
  BY <1>1, NothingSettledYet DEF Resolving
<1>3. \A i \in Chunk : i \in DOMAIN wanted /\ wanted[i].repo \in Repo
  BY DEF Chunk, ReadInv, WantedIsCalled
<1> DEFINE good == [i \in Chunk |-> AnswerOf(wanted[i].repo)]
           none == [i \in Chunk |->
                      Snapshot(wanted[i].repo, Unavailable, NoFiles, wanted[i].repo, FALSE)]
<1>4. \A i \in Chunk : IsTrue(good[i]) /\ good[i].repo = wanted[i].repo
  BY <1>3, AnswersAreTrue DEF ReadInv
<1>5. \A i \in Chunk : IsTrue(none[i]) /\ none[i].repo = wanted[i].repo
  BY <1>3, AnswersAreTrue DEF ReadInv
<1>6. \A i \in Chunk : \A bad \in FailedAnswers(wanted[i].repo) :
        LET a == [good EXCEPT ![i] = bad]
        IN  \A j \in Chunk : IsTrue(a[j]) /\ a[j].repo = wanted[j].repo
  BY <1>3, <1>4, AnswersAreTrue DEF ReadInv
<1>7. \/ Answered(Chunk, good)
      \/ Answered(Chunk, none)
      \/ \E i \in Chunk : \E bad \in FailedAnswers(wanted[i].repo) :
           Answered(Chunk, [good EXCEPT ![i] = bad])
  BY DEF FetchBatch, SkipBatch
<1> HIDE DEF good, none
<1>8. GotIsTrue' /\ WantedIsCalled'
  <2>1. CASE Answered(Chunk, good)
    BY <1>1, <1>3, <1>4, <2>1, AnswersAreAdded
  <2>2. CASE Answered(Chunk, none)
    BY <1>1, <1>3, <1>5, <2>2, AnswersAreAdded
  <2>3. ASSUME NEW i \in Chunk, NEW bad \in FailedAnswers(wanted[i].repo),
               Answered(Chunk, [good EXCEPT ![i] = bad])
        PROVE  GotIsTrue' /\ WantedIsCalled'
    <3> DEFINE a == [good EXCEPT ![i] = bad]
    <3>1. \A j \in Chunk : j \in DOMAIN wanted /\ IsTrue(a[j]) /\ a[j].repo = wanted[j].repo
      BY <1>3, <1>6
    <3> HIDE DEF a
    <3>2. Answered(Chunk, a)
      BY <2>3 DEF a
    <3> QED
      BY <1>1, <3>1, <3>2, AnswersAreAdded
  <2> QED
    BY <1>7, <2>1, <2>2, <2>3
<1>9. WorldShape'
  BY <1>1 DEF ReadInv, WorldShape, View, Visible, Checkouts, world, history
<1> QED
  BY <1>1, <1>2, <1>8, <1>9, LearntIsKept DEF ReadInv

\* The end of a fetch drops its snapshots.
LEMMA FetchEndsKeepsReads ==
  ASSUME ReadInv, FetchEnds
  PROVE  ReadInv'
<1>1. /\ pc = "fetch" /\ pc' = "follow" /\ UNCHANGED <<world, asked, locals, graph, adding, probed>>
      /\ UNCHANGED <<wanted, targets, exit, analysis>> /\ got' = <<>>
  BY DEF FetchEnds, sources, record
<1>2. NamesAreSettled' /\ ConfirmedAreCalled' /\ Stages'
  BY <1>1, NothingSettledYet DEF Resolving
<1>3. GotIsTrue' /\ WantedIsCalled'
  BY <1>1, LearntIsKept DEF ReadInv, GotIsTrue, WantedIsCalled
<1>4. WorldShape'
  BY <1>1 DEF ReadInv, WorldShape, View, Visible, Checkouts, world, history
<1> QED
  BY <1>1, <1>2, <1>3, <1>4, LearntIsKept DEF ReadInv

\* What recording a snapshot leaves of the graph.
LEMMA RecordedFields ==
  ASSUME GraphShape, NEW snap, NEW role
  PROVE  LET h == Recorded(graph, snap, role) IN
         /\ h.scans = RecordScan(graph.scans, snap.repo, snap.scan)
         /\ h.edges = graph.edges
         /\ h.subjects = IF role.subject THEN graph.subjects \cup {snap.repo} ELSE graph.subjects
         /\ h.canonical = RecordCanonical(graph.canonical, snap.repo, snap.canonical)
         /\ h.notes = IF snap.noted THEN graph.notes \cup {Note(snap.repo, "caveat")} ELSE graph.notes
         /\ h = [scans |-> h.scans, edges |-> h.edges, subjects |-> h.subjects,
                 canonical |-> h.canonical, notes |-> h.notes]
<1> DEFINE S == RecordScan(graph.scans, snap.repo, snap.scan)
           C == RecordCanonical(graph.canonical, snap.repo, snap.canonical)
<1>1. Recorded(graph, snap, role) =
        [graph EXCEPT
           !.scans     = S,
           !.subjects  = IF role.subject THEN @ \cup {snap.repo} ELSE @,
           !.canonical = C,
           !.notes     = IF snap.noted THEN @ \cup {Note(snap.repo, "caveat")} ELSE @]
  BY DEF Recorded
<1> HIDE DEF S, C
<1>2. graph = [scans |-> graph.scans, edges |-> graph.edges, subjects |-> graph.subjects,
               canonical |-> graph.canonical, notes |-> graph.notes]
  BY DEF GraphShape
<1>3. LET h == Recorded(graph, snap, role) IN
      /\ h.scans = S /\ h.edges = graph.edges
      /\ h.subjects = IF role.subject THEN graph.subjects \cup {snap.repo} ELSE graph.subjects
      /\ h.canonical = C
      /\ h.notes = IF snap.noted THEN graph.notes \cup {Note(snap.repo, "caveat")} ELSE graph.notes
      /\ h = [scans |-> h.scans, edges |-> h.edges, subjects |-> h.subjects,
              canonical |-> h.canonical, notes |-> h.notes]
  BY <1>1, <1>2
<1> QED
  BY <1>3 DEF S, C

\* A true snapshot that is recorded keeps the graph true, and its files that
\* count are called.
LEMMA RecordsAreTrue ==
  ASSUME ReadInv, NEW snap, NEW role, Records(snap, role), IsTrue(snap),
         role.subject \/ \A f \in role.files : CalledOn(snap.repo, f),
         UNCHANGED <<world, asked>>
  PROVE  /\ GraphShape' /\ NamesLead' /\ ScansHaveGround' /\ AddingIsCalled' /\ EdgesAreCalled'
         /\ \A s : IsTrue(s)' <=> IsTrue(s)
         /\ \A r, f : CalledOn(r, f)' <=> CalledOn(r, f)
<1> DEFINE repo == snap.repo
<1>1. /\ graph'.scans = RecordScan(graph.scans, repo, snap.scan)
      /\ graph'.edges = graph.edges
      /\ graph'.subjects = IF role.subject THEN graph.subjects \cup {repo} ELSE graph.subjects
      /\ graph'.canonical = RecordCanonical(graph.canonical, repo, snap.canonical)
      /\ graph' = [scans |-> graph'.scans, edges |-> graph'.edges,
                   subjects |-> graph'.subjects, canonical |-> graph'.canonical,
                   notes |-> graph'.notes]
  <2>1. graph' = Recorded(graph, snap, role)
    BY DEF Records
  <2> QED
    BY <2>1, RecordedFields DEF ReadInv
<1>2. /\ repo \in Repo /\ snap.files \in Workflows
      /\ snap.scan.status = "NotFound" => Nobody \in views[repo]
      /\ snap.canonical # repo => snap.canonical \in views[repo] \ {Nobody}
      /\ snap.scan.status = "Scanned" =>
           repo \in Checkouts \/ repo \in views[repo] \/ snap.canonical # repo
  BY DEF IsTrue
<1>3. /\ adding' = [repo |-> repo, files |-> [f \in Counted(snap, role) |-> snap.files[f]]]
      /\ probed' = probed \cup {repo}
  BY DEF Records
<1>4. views' = views /\ lasting' = lasting /\ Checkouts' = Checkouts
  BY DEF world, history, Checkouts
<1>5. EdgesOf(graph)' = EdgesOf(graph)
  BY <1>1 DEF EdgesOf
<1> HIDE DEF repo
<1>6. GraphShape'
  BY <1>1, <1>2 DEF ReadInv, GraphShape, RecordScan, RecordCanonical
<1>7. NamesLead'
  BY <1>1, <1>2, <1>4 DEF ReadInv, NamesLead, RecordCanonical
<1>8. ScansHaveGround'
  <2>1. /\ \A n \in DOMAIN graph.canonical : n \in DOMAIN graph'.canonical
        /\ snap.canonical # repo => repo \in DOMAIN graph'.canonical
    BY <1>1 DEF RecordCanonical
  <2>2. \A n \in DOMAIN graph'.scans :
          \/ n \in DOMAIN graph.scans /\ graph'.scans[n] = graph.scans[n]
          \/ n = repo /\ graph'.scans[n] = snap.scan
    BY <1>1 DEF RecordScan
  <2>3. repo \in probed' /\ probed \subseteq probed'
    BY <1>3
  <2> QED
    BY <1>2, <1>4, <2>1, <2>2, <2>3 DEF ReadInv, ScansHaveGround
<1>9. \A r, f : CalledOn(r, f)' <=> CalledOn(r, f)
  BY <1>5 DEF CalledOn
<1>10. EdgesAreCalled'
  BY <1>1, <1>5 DEF ReadInv, EdgesAreCalled
<1>11. AddingIsCalled'
  <2>1. /\ adding'.repo = repo /\ DOMAIN adding'.files = Counted(snap, role)
        /\ \A f \in Counted(snap, role) : adding'.files[f] = snap.files[f]
    BY <1>3
  <2>2. \A f \in Counted(snap, role) :
          f \in File /\ snap.files[f] \in Seq(Use) /\ (role.subject \/ f \in role.files)
    BY <1>2 DEF Counted, Workflows
  <2>3. role.subject => repo \in graph'.subjects
    BY <1>1
  <2>4. role.subject \/ \A f \in role.files : CalledOn(repo, f)'
    BY <1>9 DEF repo
  <2> QED
    BY <1>2, <2>1, <2>2, <2>3, <2>4 DEF AddingIsCalled
<1>12. \A s : IsTrue(s)' <=> IsTrue(s)
  BY <1>4 DEF IsTrue
<1> QED
  BY <1>6, <1>7, <1>8, <1>9, <1>10, <1>11, <1>12

\* A checkout is of a requested repository: all its files count.
LEMMA ReadLocalKeepsReads ==
  ASSUME ReadInv, ReadLocal
  PROVE  ReadInv'
<1>1. /\ pc = "sources" /\ pc' = "sources" /\ UNCHANGED <<world, asked, wanted, got>>
      /\ UNCHANGED <<targets, exit, analysis>> /\ locals # <<>> /\ locals' = Tail(locals)
  BY DEF ReadLocal, fetch
<1>2. NamesAreSettled' /\ ConfirmedAreCalled' /\ Stages'
  BY <1>1, NothingSettledYet DEF Resolving
<1>3. locals \in Seq([repo : Repo, tree : Head1])
  BY DEF ReadInv, WorldShape
<1> DEFINE source == Head(locals)
<1>4. /\ source.repo \in Repo /\ source.tree.files \in Workflows
      /\ source.repo \in Checkouts
  <2> DEFINE Given == [repo : Repo, tree : Head1]
  <2>1. locals \in Seq(Given) /\ locals # <<>>
    BY <1>1, <1>3
  <2> HIDE DEF Given
  <2>2. source \in Given /\ source = locals[1] /\ 1 \in DOMAIN locals
    BY <2>1
  <2> QED
    BY <2>2 DEF Given, Head1, ReadInv, WorldShape
<1>5. WorldShape'
  <2> DEFINE Given == [repo : Repo, tree : Head1]
  <2>1. locals \in Seq(Given) /\ locals # <<>>
    BY <1>1, <1>3
  <2> HIDE DEF Given
  <2>2. /\ Tail(locals) \in Seq(Given)
        /\ \A i \in DOMAIN Tail(locals) :
             i + 1 \in DOMAIN locals /\ Tail(locals)[i] = locals[i + 1]
    BY <2>1
  <2> QED
    BY <1>1, <2>2
       DEF Given, ReadInv, WorldShape, View, Visible, Checkouts, world, history
<1>6. PICK snap : Records(snap, Subject) /\ IsTrue(snap)
  <2>1. NoFiles \in Workflows
    BY DEF NoFiles, Workflows
  <2>2. IsTrue(SnapshotLocal(source))
    BY <1>4 DEF IsTrue, SnapshotLocal, Snapshot, ScannedAt
  <2>3. IsTrue(Snapshot(source.repo, Unavailable, NoFiles, source.repo, TRUE))
    BY <1>4, <2>1 DEF IsTrue, Snapshot, Unavailable
  <2> QED
    BY <2>2, <2>3 DEF ReadLocal
<1>7. Subject.subject
  BY DEF Subject
<1>8. /\ GraphShape' /\ NamesLead' /\ ScansHaveGround' /\ AddingIsCalled' /\ EdgesAreCalled'
      /\ \A s : IsTrue(s)' <=> IsTrue(s)
      /\ \A r, f : CalledOn(r, f)' <=> CalledOn(r, f)
  BY <1>1, <1>6, <1>7, RecordsAreTrue
<1>9. GotIsTrue' /\ WantedIsCalled'
  BY <1>1, <1>8 DEF ReadInv, GotIsTrue, WantedIsCalled
<1> QED
  BY <1>2, <1>5, <1>8, <1>9 DEF ReadInv

\* Each snapshot is recorded with the role of its own position.
LEMMA RecordNextKeepsReads ==
  ASSUME ReadInv, RecordNext
  PROVE  ReadInv'
<1>1. /\ pc = "fetch" /\ pc' = "fetch" /\ UNCHANGED <<world, asked, locals, got>>
      /\ UNCHANGED <<targets, exit, analysis>> /\ DOMAIN wanted # {}
      /\ DOMAIN wanted \subseteq DOMAIN got
  BY DEF RecordNext, sources
<1>2. NamesAreSettled' /\ ConfirmedAreCalled' /\ Stages'
  BY <1>1, NothingSettledYet DEF Resolving
<1> DEFINE i == CHOOSE j \in DOMAIN wanted : \A k \in DOMAIN wanted : j <= k
<1>3. i \in DOMAIN wanted
  <2>1. \E j \in DOMAIN wanted : \A k \in DOMAIN wanted : j <= k
    BY <1>1, FirstName DEF ReadInv, WantedIsCalled
  <2> QED
    BY <2>1
<1>4. /\ Records(Paired(i).snap, Paired(i).role)
      /\ wanted' = [j \in DOMAIN wanted \ {i} |-> wanted[j]]
  BY DEF RecordNext
<1> HIDE DEF i
<1>5. Records(got[i], wanted[i].role)
  BY <1>4 DEF Paired
<1>6. IsTrue(got[i]) /\ got[i].repo = wanted[i].repo
  BY <1>1, <1>3 DEF ReadInv, GotIsTrue
<1>7. wanted[i].role.subject \/ \A f \in wanted[i].role.files : CalledOn(got[i].repo, f)
  BY <1>3, <1>6 DEF ReadInv, WantedIsCalled
<1>8. /\ GraphShape' /\ NamesLead' /\ ScansHaveGround' /\ AddingIsCalled' /\ EdgesAreCalled'
      /\ \A s : IsTrue(s)' <=> IsTrue(s)
      /\ \A r, f : CalledOn(r, f)' <=> CalledOn(r, f)
  BY <1>1, <1>5, <1>6, <1>7, RecordsAreTrue
<1>9. GotIsTrue' /\ WantedIsCalled'
  BY <1>1, <1>4, <1>8 DEF ReadInv, GotIsTrue, WantedIsCalled
<1>10. WorldShape'
  BY <1>1 DEF ReadInv, WorldShape, View, Visible, Checkouts, world, history
<1> QED
  BY <1>2, <1>8, <1>9, <1>10 DEF ReadInv

\* The edges of a file join those at hand.
LEMMA EdgesAreJoined ==
  ASSUME GraphShape, NEW repo \in Repo, NEW f \in File, NEW uses \in Seq(Use),
         graph' = AddEdges(graph, repo, f, uses)
  PROVE  /\ GraphShape' /\ EdgesOf(graph) \subseteq EdgesOf(graph')
         /\ \A e \in EdgesOf(graph') : e \in EdgesOf(graph) \/ (e.from = repo /\ e.file = f)
         /\ graph'.subjects = graph.subjects /\ graph'.scans = graph.scans
         /\ graph'.canonical = graph.canonical /\ graph'.notes = graph.notes
<1> DEFINE new == ExtractEdges(repo, f, uses)
<1>1. new \in Seq(Edge) /\ \A i \in DOMAIN new : new[i].from = repo /\ new[i].file = f
  <2>1. \A i \in DOMAIN uses : uses[i] \in Use
    OBVIOUS
  <2>2. \A i \in DOMAIN uses :
          [from |-> repo, file |-> f, to |-> uses[i].to, call |-> uses[i].call,
           pin |-> uses[i].pin] \in Edge
    BY <2>1 DEF Use, Edge
  <2>3. Len(uses) \in Nat /\ DOMAIN uses = 1..Len(uses)
    OBVIOUS
  <2>4. new \in [1..Len(uses) -> Edge]
    BY <2>2, <2>3 DEF ExtractEdges
  <2>5. new \in Seq(Edge)
    BY <2>3, <2>4
  <2> QED
    BY <2>5 DEF ExtractEdges
<1>2. /\ graph = [scans |-> graph.scans, edges |-> graph.edges, subjects |-> graph.subjects,
                  canonical |-> graph.canonical, notes |-> graph.notes]
      /\ graph.edges \in Seq(Edge)
  BY DEF GraphShape
<1>3. graph' = [graph EXCEPT !.edges = graph.edges \o new]
  BY <1>2 DEF AddEdges
<1> HIDE DEF new
<1>4. /\ graph'.scans = graph.scans /\ graph'.edges = graph.edges \o new
      /\ graph'.subjects = graph.subjects /\ graph'.canonical = graph.canonical
      /\ graph'.notes = graph.notes
      /\ graph' = [scans |-> graph'.scans, edges |-> graph'.edges, subjects |-> graph'.subjects,
                   canonical |-> graph'.canonical, notes |-> graph'.notes]
  BY <1>2, <1>3
<1> DEFINE old == graph.edges
<1>5. \A i \in DOMAIN (old \o new) :
        (old \o new)[i] = IF i <= Len(old) THEN old[i] ELSE new[i - Len(old)]
  BY <1>1, <1>2
<1>6. \A i \in DOMAIN (old \o new) :
        IF i <= Len(old) THEN i \in DOMAIN old ELSE i - Len(old) \in DOMAIN new
  BY <1>1, <1>2
<1>7. \A i \in DOMAIN old : i \in DOMAIN (old \o new) /\ i <= Len(old)
  BY <1>1, <1>2
<1>8. old \o new \in Seq(Edge)
  BY <1>1, <1>2
<1> HIDE DEF old
<1>9. EdgesOf(graph') = {(old \o new)[i] : i \in DOMAIN (old \o new)}
  BY <1>4 DEF EdgesOf, old
<1>10. EdgesOf(graph) = {old[i] : i \in DOMAIN old}
  BY DEF EdgesOf, old
<1>11. EdgesOf(graph) \subseteq EdgesOf(graph')
  BY <1>5, <1>7, <1>9, <1>10
<1>12. \A e \in EdgesOf(graph') : e \in EdgesOf(graph) \/ (e.from = repo /\ e.file = f)
  BY <1>1, <1>5, <1>6, <1>9, <1>10
<1>13. GraphShape'
  BY <1>4, <1>8 DEF GraphShape, old
<1> QED
  BY <1>4, <1>11, <1>12, <1>13

\* The edges added are of a file that counts.
LEMMA AddFileKeepsReads ==
  ASSUME ReadInv, AddFile
  PROVE  ReadInv'
<1>1. /\ pc \in {"sources", "fetch"} /\ pc' = pc /\ UNCHANGED <<world, asked, locals, got>>
      /\ UNCHANGED <<wanted, targets, exit, analysis, probed>> /\ DOMAIN adding.files # {}
  BY DEF AddFile, sources, fetch, NothingToAdd
<1>2. NamesAreSettled' /\ ConfirmedAreCalled' /\ Stages'
  BY <1>1, NothingSettledYet DEF Resolving
<1> DEFINE f == CHOOSE x \in DOMAIN adding.files : \A y \in DOMAIN adding.files : x <= y
<1>3. f \in DOMAIN adding.files
  <2>1. DOMAIN adding.files \subseteq Nat
    BY NameAssumption DEF ReadInv, AddingIsCalled
  <2>2. \E x \in DOMAIN adding.files : \A y \in DOMAIN adding.files : x <= y
    BY <1>1, <2>1, FirstName
  <2> QED
    BY <2>2
<1>4. /\ graph' = AddEdges(graph, adding.repo, f, adding.files[f])
      /\ adding' = [adding EXCEPT !.files = [x \in DOMAIN @ \ {f} |-> @[x]]]
  BY DEF AddFile
<1> HIDE DEF f
<1>5. /\ f \in File /\ adding.repo \in Repo /\ adding.files[f] \in Seq(Use)
      /\ adding.repo \in graph.subjects \/ CalledOn(adding.repo, f)
  BY <1>3 DEF ReadInv, AddingIsCalled
<1>6. /\ GraphShape' /\ EdgesOf(graph) \subseteq EdgesOf(graph')
      /\ \A e \in EdgesOf(graph') : e \in EdgesOf(graph) \/ (e.from = adding.repo /\ e.file = f)
      /\ graph'.subjects = graph.subjects /\ graph'.scans = graph.scans
      /\ graph'.canonical = graph.canonical /\ graph'.notes = graph.notes
  BY <1>4, <1>5, EdgesAreJoined DEF ReadInv
<1>7. \A r, x : CalledOn(r, x) => CalledOn(r, x)'
  BY <1>6 DEF CalledOn
<1>8. EdgesAreCalled'
  <2>1. ASSUME NEW e \in EdgesOf(graph')
        PROVE  e.from \in graph'.subjects \/ \E d \in EdgesOf(graph') : Carries(d, e)
    <3>1. CASE e \in EdgesOf(graph)
      BY <1>6, <3>1 DEF ReadInv, EdgesAreCalled
    <3>2. CASE e.from = adding.repo /\ e.file = f
      BY <1>5, <1>6, <3>2 DEF CalledOn, Carries
    <3> QED
      BY <1>6, <2>1, <3>1, <3>2
  <2> QED
    BY <2>1 DEF EdgesAreCalled
<1>9. NamesLead' /\ ScansHaveGround' /\ WorldShape'
  BY <1>1, <1>6
     DEF ReadInv, NamesLead, ScansHaveGround, WorldShape, View, Visible, Checkouts, world, history
<1>10. GotIsTrue'
  BY <1>1 DEF ReadInv, GotIsTrue, IsTrue, Checkouts, world, history
<1>11. WantedIsCalled'
  BY <1>1, <1>7 DEF ReadInv, WantedIsCalled
<1>12. AddingIsCalled'
  <2> SUFFICES ASSUME NEW x \in DOMAIN adding'.files
               PROVE  /\ x \in File /\ adding'.repo \in Repo /\ adding'.files[x] \in Seq(Use)
                      /\ adding'.repo \in graph'.subjects \/ CalledOn(adding.repo, x)'
    BY DEF AddingIsCalled
  <2>1. /\ adding'.repo = adding.repo /\ x \in DOMAIN adding.files
        /\ adding'.files[x] = adding.files[x]
    BY <1>4
  <2>2. /\ x \in File /\ adding.repo \in Repo /\ adding.files[x] \in Seq(Use)
        /\ adding.repo \in graph.subjects \/ CalledOn(adding.repo, x)
    BY <2>1 DEF ReadInv, AddingIsCalled
  <2> QED
    BY <1>6, <1>7, <2>1, <2>2
<1> QED
  BY <1>2, <1>6, <1>8, <1>9, <1>10, <1>11, <1>12 DEF ReadInv

\* What is learnt of a name adds to the graph what is so.
LEMMA NamesAreLearnt ==
  ASSUME ReadInv, NEW n \in Repo, UNCHANGED <<world, fetch, record, asked, locals>>,
         \/ Unverified(n)
         \/ NameAnswers(n) /\ Visible(n) /\ Resolving
         \/ /\ graph' = [graph EXCEPT !.scans = RecordScan(@, n, NotFound)]
            /\ OwnerOf[n] \notin accounts /\ Nobody \in views[n]
  PROVE  /\ GraphShape' /\ WorldShape' /\ NamesLead' /\ ScansHaveGround'
         /\ GotIsTrue' /\ WantedIsCalled' /\ AddingIsCalled' /\ EdgesAreCalled'
         /\ \A m : Settled(m) => Settled(m)'
         /\ Settled(n)' /\ graph.notes \subseteq graph'.notes
         /\ EdgesOf(graph)' = EdgesOf(graph)
<1>1. /\ UNCHANGED <<home, hidden, accounts, tree, views, lasting, current>>
      /\ UNCHANGED <<asked, locals, wanted, got, adding, probed, Checkouts>>
  BY DEF world, history, fetch, record, Checkouts
<1>2. /\ graph = [scans |-> graph.scans, edges |-> graph.edges, subjects |-> graph.subjects,
                  canonical |-> graph.canonical, notes |-> graph.notes]
      /\ graph.edges \in Seq(Edge)
      /\ DOMAIN graph.scans \subseteq Repo /\ DOMAIN graph.canonical \subseteq Repo
  BY DEF ReadInv, GraphShape
<1> DEFINE S == RecordScan(graph.scans, n, NotFound)
           C == RecordCanonical(graph.canonical, n, home[n])
           Same == /\ graph' = [scans |-> graph'.scans, edges |-> graph'.edges,
                                subjects |-> graph'.subjects, canonical |-> graph'.canonical,
                                notes |-> graph'.notes]
                   /\ graph'.edges = graph.edges /\ graph'.subjects = graph.subjects
           Kept == /\ GraphShape' /\ NamesLead' /\ ScansHaveGround'
                   /\ \A m : Settled(m) => Settled(m)'
                   /\ Settled(n)' /\ graph.notes \subseteq graph'.notes
<1>3. Same
  BY <1>2 DEF Unverified, NameAnswers
<1>4. ASSUME Unverified(n)
      PROVE  Kept
  <2>1. /\ graph'.scans = graph.scans /\ graph'.canonical = graph.canonical
        /\ graph'.notes = graph.notes \cup {Note(n, "unverified")}
    BY <1>2, <1>4 DEF Unverified
  <2>2. Kept
    BY <1>1, <1>2, <1>3, <2>1
       DEF ReadInv, GraphShape, NamesLead, ScansHaveGround, Settled
  <2> QED
    BY <2>2
<1>5. ASSUME NameAnswers(n), Visible(n), Resolving
      PROVE  Kept
  <2>1. graph' = [graph EXCEPT !.canonical = C]
    BY <1>5 DEF NameAnswers
  <2> HIDE DEF C
  <2>2. /\ graph'.scans = graph.scans /\ graph'.canonical = C /\ graph'.notes = graph.notes
    BY <1>2, <2>1
  <2>3. /\ DOMAIN C \subseteq Repo /\ DOMAIN graph.canonical \subseteq DOMAIN C
        /\ \A m \in DOMAIN C : m # n => m \in DOMAIN graph.canonical /\ C[m] = graph.canonical[m]
        /\ home[n] # n => n \in DOMAIN C /\ C[n] = home[n]
        /\ home[n] = n => C = graph.canonical
    BY <1>2 DEF C, RecordCanonical
  <2>4. /\ home[n] \in views[n] \ {Nobody}
        /\ home[n] = n => n \in current
    BY <1>5 DEF ReadInv, WorldShape, NamesAreSettled, Own, View, Visible
  <2>5. GraphShape' /\ ScansHaveGround' /\ (\A m : Settled(m) => Settled(m)')
    BY <1>1, <1>2, <1>3, <2>2, <2>3
       DEF ReadInv, GraphShape, ScansHaveGround, Settled
  <2>6. NamesLead'
    BY <1>1, <2>2, <2>3, <2>4 DEF ReadInv, NamesLead
  <2>7. Settled(n)' /\ graph.notes \subseteq graph'.notes
    BY <1>1, <2>2, <2>3, <2>4 DEF Settled
  <2> QED
    BY <2>5, <2>6, <2>7
<1>6. ASSUME graph' = [graph EXCEPT !.scans = RecordScan(@, n, NotFound)],
             OwnerOf[n] \notin accounts, Nobody \in views[n]
      PROVE  Kept
  <2>1. graph' = [graph EXCEPT !.scans = S]
    BY <1>6
  <2> HIDE DEF S
  <2>2. /\ graph'.scans = S /\ graph'.canonical = graph.canonical /\ graph'.notes = graph.notes
    BY <1>2, <2>1
  <2>3. /\ DOMAIN S = DOMAIN graph.scans \cup {n}
        /\ \A m \in DOMAIN S : m # n => S[m] = graph.scans[m]
        /\ S[n].status \in {"Scanned", "NotFound"}
        /\ S[n].status = "Scanned" => n \in DOMAIN graph.scans /\ S[n] = graph.scans[n]
    BY DEF S, RecordScan, NotFound
  <2>4. GraphShape' /\ NamesLead'
    BY <1>1, <1>2, <1>3, <2>2, <2>3 DEF ReadInv, GraphShape, NamesLead
  <2>5. ScansHaveGround'
    <3>1. OwnerOf[n] \notin lasting
      BY <1>6 DEF ReadInv, WorldShape
    <3> QED
      BY <1>1, <1>6, <2>2, <2>3, <3>1 DEF ReadInv, ScansHaveGround
  <2>6. Settled(n)' /\ graph.notes \subseteq graph'.notes
    BY <1>1, <1>6, <2>2, <2>3 DEF Settled
  <2>7. \A m : Settled(m) => Settled(m)'
    BY <1>1, <2>2, <2>3, <2>6 DEF Settled
  <2> QED
    BY <2>4, <2>5, <2>6, <2>7
<1>7. Kept
  <2> HIDE DEF Kept
  <2> QED
    BY <1>4, <1>5, <1>6 DEF Kept
<1>8. EdgesOf(graph)' = EdgesOf(graph)
  BY <1>3 DEF EdgesOf
<1>9. \A r, f : CalledOn(r, f)' <=> CalledOn(r, f)
  BY <1>8 DEF CalledOn
<1>10. AddingIsCalled' /\ EdgesAreCalled' /\ WantedIsCalled'
  BY <1>1, <1>3, <1>8, <1>9 DEF ReadInv, AddingIsCalled, EdgesAreCalled, WantedIsCalled
<1>11. GotIsTrue' /\ WorldShape'
  BY <1>1 DEF ReadInv, GotIsTrue, IsTrue, WorldShape, View, Visible
<1> QED
  BY <1>7, <1>8, <1>10, <1>11

\* At the end of reading every unresolved upstream waits for its name.
LEMMA ReadingEndsKeepsReads ==
  ASSUME ReadInv, ReadingEnds
  PROVE  ReadInv'
<1>1. /\ pc = "follow" /\ pc' = "resolve" /\ UNCHANGED <<fetch, record, asked, locals>>
      /\ UNCHANGED <<home, hidden, accounts, tree, views, lasting>> /\ current' = Own
      /\ UNCHANGED <<exit, analysis>>
  BY DEF ReadingEnds, sources
<1>2. targets = {} /\ stage = "reading" /\ exit < 0 /\ confirmed = {}
  BY <1>1 DEF ReadInv, NamesAreSettled, Stages, Resolving, ConfirmedAreCalled
<1>3. stage' = "reading" /\ exit' < 0 /\ confirmed' = {}
  BY <1>1, <1>2 DEF analysis
<1>4. ConfirmedAreCalled' /\ Stages'
  BY <1>1, <1>3 DEF ConfirmedAreCalled, Stages
<1>5. CASE asked.canonical
  <2>1. targets' = Unresolved(graph) /\ graph' = graph
    BY <1>5 DEF ReadingEnds
  <2>2. /\ GraphShape' /\ AddingIsCalled' /\ EdgesAreCalled'
        /\ \A r, f : CalledOn(r, f)' <=> CalledOn(r, f)
    BY <1>1, <2>1
       DEF ReadInv, GraphShape, AddingIsCalled, EdgesAreCalled, CalledOn, record
  <2>3. NamesLead' /\ ScansHaveGround' /\ GotIsTrue' /\ WantedIsCalled' /\ WorldShape'
    BY <1>1, <2>1, <2>2
       DEF ReadInv, NamesLead, ScansHaveGround, GotIsTrue, IsTrue, WantedIsCalled, WorldShape,
           View, Visible, Checkouts, fetch, record
  <2>4. targets' \subseteq Repo
    BY <2>1, EdgesAreEdges DEF ReadInv, Unresolved
  <2>5. \A e \in EdgesOf(graph') : e.to \in targets' \/ e.to \in DOMAIN graph'.canonical
    BY <2>1 DEF Unresolved
  <2>6. Own' = current'
    BY <1>1 DEF Own, View, Visible
  <2>7. NamesAreSettled'
    BY <1>1, <1>5, <2>4, <2>5, <2>6 DEF NamesAreSettled, Settled, Resolving
  <2> QED
    BY <1>4, <2>2, <2>3, <2>7 DEF ReadInv
<1>6. CASE ~asked.canonical
  <2>1. graph' = [graph EXCEPT !.notes = @ \cup {NoNames}] /\ targets' = {}
    BY <1>2, <1>6 DEF ReadingEnds
  <2>2. /\ graph = [scans |-> graph.scans, edges |-> graph.edges, subjects |-> graph.subjects,
                    canonical |-> graph.canonical, notes |-> graph.notes]
    BY DEF ReadInv, GraphShape
  <2>3. /\ graph'.scans = graph.scans /\ graph'.canonical = graph.canonical
        /\ graph'.edges = graph.edges /\ graph'.subjects = graph.subjects
        /\ NoNames \in graph'.notes
        /\ graph' = [scans |-> graph'.scans, edges |-> graph'.edges,
                     subjects |-> graph'.subjects, canonical |-> graph'.canonical,
                     notes |-> graph'.notes]
    BY <2>1, <2>2
  <2>4. EdgesOf(graph)' = EdgesOf(graph)
    BY <2>3 DEF EdgesOf
  <2>5. \A r, f : CalledOn(r, f)' <=> CalledOn(r, f)
    BY <2>4 DEF CalledOn
  <2>6. AddingIsCalled' /\ EdgesAreCalled' /\ WantedIsCalled'
    BY <1>1, <2>3, <2>4, <2>5
       DEF ReadInv, AddingIsCalled, EdgesAreCalled, WantedIsCalled, fetch, record
  <2>7. GraphShape' /\ NamesLead' /\ ScansHaveGround'
    BY <1>1, <2>3
       DEF ReadInv, GraphShape, NamesLead, ScansHaveGround, Checkouts, record
  <2>8. GotIsTrue' /\ WorldShape'
    BY <1>1
       DEF ReadInv, GotIsTrue, IsTrue, WorldShape, View, Visible, Checkouts, fetch
  <2>9. Own' = current'
    BY <1>1 DEF Own, View, Visible
  <2>10. NamesAreSettled'
    BY <1>1, <1>6, <2>1, <2>3, <2>9 DEF NamesAreSettled, Resolving
  <2> QED
    BY <1>4, <2>6, <2>7, <2>8, <2>10 DEF ReadInv
<1> QED
  BY <1>5, <1>6

\* A name that is settled is taken off those to resolve.
LEMMA SettledNamesGo ==
  ASSUME ReadInv, pc \in {"resolve", "owner"}, Resolved, NEW n, n = NextTarget,
         UNCHANGED <<world, asked, exit, analysis>>,
         \A m : Settled(m) => Settled(m)', Settled(n)',
         graph.notes \subseteq graph'.notes, EdgesOf(graph)' = EdgesOf(graph)
  PROVE  NamesAreSettled' /\ ConfirmedAreCalled' /\ Stages'
<1>1. stage = "reading" /\ exit < 0 /\ confirmed = {} /\ pc' = "resolve"
  BY DEF ReadInv, Stages, ConfirmedAreCalled, Resolved
<1>2. stage' = "reading" /\ exit' < 0 /\ confirmed' = {}
  BY <1>1 DEF analysis
<1>3. ConfirmedAreCalled' /\ Stages'
  BY <1>1, <1>2 DEF ConfirmedAreCalled, Stages
<1>4. targets' = targets \ {n}
  BY DEF Resolved
<1>5. NamesAreSettled'
  <2>1. Own' = Own /\ current' = current
    BY DEF Own, View, Visible, world, history
  <2> QED
    BY <1>1, <1>4, <2>1 DEF ReadInv, NamesAreSettled, Resolving
<1> QED
  BY <1>3, <1>5

\* A name is settled, noted, or waits for the probe of its owner.
LEMMA ResolveNameKeepsReads ==
  ASSUME ReadInv, ResolveName
  PROVE  ReadInv'
<1>1. /\ pc = "resolve" /\ targets # {} /\ UNCHANGED <<world, fetch, record, asked, locals>>
      /\ UNCHANGED <<exit, analysis>>
  BY DEF ResolveName, sources
<1>2. PICK n \in Repo : n = NextTarget /\ n \in targets
  BY <1>1, TargetsHaveFirst DEF ReadInv, NamesAreSettled
<1>3. \/ Unverified(n) /\ Resolved
      \/ Visible(n) /\ NameAnswers(n) /\ Resolved
      \/ ~Visible(n) /\ pc' = "owner" /\ UNCHANGED <<graph, targets>>
  BY <1>2 DEF ResolveName
<1>4. CASE (Unverified(n) \/ (NameAnswers(n) /\ Visible(n))) /\ Resolved
  <2>1. /\ GraphShape' /\ WorldShape' /\ NamesLead' /\ ScansHaveGround'
        /\ GotIsTrue' /\ WantedIsCalled' /\ AddingIsCalled' /\ EdgesAreCalled'
        /\ \A m : Settled(m) => Settled(m)'
        /\ Settled(n)' /\ graph.notes \subseteq graph'.notes
        /\ EdgesOf(graph)' = EdgesOf(graph)
    BY <1>1, <1>2, <1>4, NamesAreLearnt DEF Resolving
  <2>2. NamesAreSettled' /\ ConfirmedAreCalled' /\ Stages'
    BY <1>1, <1>2, <1>4, <2>1, SettledNamesGo
  <2> QED
    BY <2>1, <2>2 DEF ReadInv
<1>5. CASE ~Visible(n) /\ pc' = "owner" /\ UNCHANGED <<graph, targets>>
  <2>1. /\ GraphShape' /\ NamesLead' /\ ScansHaveGround' /\ AddingIsCalled' /\ EdgesAreCalled'
        /\ \A m : Settled(m)' <=> Settled(m)
        /\ \A snap : IsTrue(snap)' <=> IsTrue(snap)
        /\ \A r, f : CalledOn(r, f)' <=> CalledOn(r, f)
    BY <1>1, <1>5, LearntIsKept DEF record
  <2>2. GotIsTrue' /\ WantedIsCalled' /\ WorldShape'
    BY <1>1, <2>1
       DEF ReadInv, GotIsTrue, WantedIsCalled, WorldShape, View, Visible, Checkouts, fetch, world, history
  <2>3. NextTarget' = n /\ Nobody \in views'[n] /\ Own' = Own /\ current' = current
    BY <1>1, <1>2, <1>5
       DEF NextTarget, ReadInv, WorldShape, Own, View, Visible, world, history
  <2>4. NamesAreSettled'
    BY <1>1, <1>5, <2>1, <2>3 DEF ReadInv, NamesAreSettled, Resolving
  <2>5. ConfirmedAreCalled' /\ Stages'
    BY <1>1, <1>5 DEF ReadInv, ConfirmedAreCalled, Stages, analysis
  <2> QED
    BY <2>1, <2>2, <2>4, <2>5 DEF ReadInv
<1> QED
  BY <1>3, <1>4, <1>5

\* A death by name has the absence of the owner for its ground.
LEMMA ProbeOwnerKeepsReads ==
  ASSUME ReadInv, ProbeOwner
  PROVE  ReadInv'
<1>1. /\ pc = "owner" /\ Resolved /\ UNCHANGED <<world, fetch, record, asked, locals>>
      /\ UNCHANGED <<exit, analysis>> /\ (OwnerVerdict(NextTarget) \/ Unverified(NextTarget))
  BY DEF ProbeOwner, sources
<1>2. targets # {} /\ Nobody \in views[NextTarget]
  BY <1>1 DEF ReadInv, NamesAreSettled
<1>3. PICK n \in Repo : n = NextTarget /\ n \in targets
  BY <1>2, TargetsHaveFirst DEF ReadInv, NamesAreSettled
<1>4. \/ Unverified(n)
      \/ /\ graph' = [graph EXCEPT !.scans = RecordScan(@, n, NotFound)]
         /\ OwnerOf[n] \notin accounts /\ Nobody \in views[n]
  BY <1>1, <1>2, <1>3 DEF OwnerVerdict
<1>5. /\ GraphShape' /\ WorldShape' /\ NamesLead' /\ ScansHaveGround'
      /\ GotIsTrue' /\ WantedIsCalled' /\ AddingIsCalled' /\ EdgesAreCalled'
      /\ \A m : Settled(m) => Settled(m)'
      /\ Settled(n)' /\ graph.notes \subseteq graph'.notes
      /\ EdgesOf(graph)' = EdgesOf(graph)
  BY <1>1, <1>3, <1>4, NamesAreLearnt
<1>6. NamesAreSettled' /\ ConfirmedAreCalled' /\ Stages'
  BY <1>1, <1>3, <1>5, SettledNamesGo
<1> QED
  BY <1>5, <1>6 DEF ReadInv

\* Once the graph is complete it stays, and so does what was learnt.
LEMMA AnalysisKeepsReads ==
  ASSUME ReadInv, pc \in {"resolve", "analysis"}, pc' = "analysis", targets = {},
         UNCHANGED <<world, sources, fetch, record, targets, graph>>,
         ConfirmedAreCalled', Stages'
  PROVE  ReadInv'
<1>1. /\ GraphShape' /\ NamesLead' /\ ScansHaveGround' /\ AddingIsCalled' /\ EdgesAreCalled'
      /\ \A m : Settled(m)' <=> Settled(m)
      /\ \A snap : IsTrue(snap)' <=> IsTrue(snap)
      /\ \A r, f : CalledOn(r, f)' <=> CalledOn(r, f)
  BY LearntIsKept DEF record, sources
<1>2. GotIsTrue' /\ WantedIsCalled' /\ WorldShape'
  BY <1>1
     DEF ReadInv, GotIsTrue, WantedIsCalled, WorldShape, View, Visible, Checkouts, fetch, world,
         history, sources
<1>3. NamesAreSettled'
  BY <1>1 DEF ReadInv, NamesAreSettled, Resolving, Own, View, Visible, sources, world, history
<1> QED
  BY <1>1, <1>2, <1>3 DEF ReadInv

\* The analysis starts when no name is left.
LEMMA NamesEndKeepsReads ==
  ASSUME ReadInv, NamesEnd
  PROVE  ReadInv'
<1>1. /\ pc = "resolve" /\ pc' = "analysis" /\ targets = {} /\ stage' = "cycles"
      /\ UNCHANGED <<world, sources, fetch, record, targets, graph, exit, confirmed>>
  BY DEF NamesEnd
<1>2. stage = "reading" /\ exit < 0
  BY <1>1 DEF ReadInv, Stages
<1>3. confirmed' = {} /\ exit' < 0
  BY <1>1, <1>2 DEF ReadInv, ConfirmedAreCalled
<1>4. ConfirmedAreCalled' /\ Stages'
  BY <1>1, <1>3 DEF ConfirmedAreCalled, Stages
<1> QED
  BY <1>1, <1>4, AnalysisKeepsReads

\* Only calls that were read are confirmed.
LEMMA AnalyseKeepsConfirmed ==
  ASSUME ReadInv, Analyse, UNCHANGED exit, pc = "analysis", UNCHANGED pc
  PROVE  ConfirmedAreCalled' /\ Stages' /\ UNCHANGED graph
<1>1. UNCHANGED graph /\ stage \notin {"reading", "done"} /\ stage' # "reading"
  BY DEF Analyse, Root, FollowEdge, Return, Confirm, RoutesInto, Follow, FollowReturns,
         Land, Weigh, Trace
<1>2. Stages'
  BY <1>1 DEF ReadInv, Stages
<1>3. ASSUME UNCHANGED confirmed
      PROVE  ConfirmedAreCalled'
  BY <1>1, <1>3 DEF ReadInv, ConfirmedAreCalled
<1>4. ASSUME confirmed' = confirmed \cup Additions(graph, confirmed)
      PROVE  ConfirmedAreCalled'
  <2>1. \A e \in confirmed : e \in FromScanned(graph) /\ e \in EdgesOf(graph)
    BY DEF ReadInv, ConfirmedAreCalled, FromScanned
  <2>2. \A e \in Additions(graph, confirmed) :
          /\ e \in FromScanned(graph)
          /\ \/ e.from \in graph.subjects
             \/ \E d \in EdgesOf(graph) : Carries(d, e) /\ PinnedRevision(graph, d)
    BY <2>1 DEF Additions, FromScanned
  <2> QED
    BY <1>1, <1>4, <2>2 DEF ReadInv, ConfirmedAreCalled
<1>5. UNCHANGED confirmed \/ confirmed' = confirmed \cup Additions(graph, confirmed)
  BY DEF Analyse, Root, FollowEdge, Return, Confirm, RoutesInto, Follow, FollowReturns,
         Land, Weigh, Trace
<1> QED
  BY <1>1, <1>2, <1>3, <1>4, <1>5

\* Exit 4 is reported of a blocking finding.
LEMMA ReportKeepsReads ==
  ASSUME ReadInv, Report
  PROVE  ReadInv'
<1>1. /\ pc = "analysis" /\ pc' = "analysis" /\ stage = "done" /\ exit' = ExitFor
      /\ UNCHANGED <<world, sources, fetch, record, targets, graph, stage, cycles, confirmed>>
  BY DEF Report, analysis
<1>2. targets = {}
  BY <1>1 DEF ReadInv, NamesAreSettled
<1>3. ConfirmedAreCalled'
  BY <1>1 DEF ReadInv, ConfirmedAreCalled
<1>4. Stages'
  BY <1>1 DEF Stages, ExitFor
<1> QED
  BY <1>1, <1>2, <1>3, <1>4, AnalysisKeepsReads

\* At first nothing is claimed.
LEMMA NothingIsReadFirst ==
  ASSUME Init
  PROVE  ReadInv
<1> PICK s \in Scenarios :
      /\ home = s.home /\ hidden = s.hidden /\ accounts = s.accounts /\ tree = s.tree
      /\ views = [n \in Repo |-> {View(n)}] /\ lasting = accounts
      /\ asked = s /\ locals = s.locals
      /\ wanted = <<>> /\ got = <<>>
      /\ targets = {} /\ adding = NoFilesLeft /\ pc = "sources" /\ exit = 0 - 1
      /\ graph = EmptyGraph /\ stage = "reading" /\ NotAnalysed
  BY DEF Init
<1>1. /\ s \in Scenario
      /\ \A n \in Repo : s.home[n] # Nobody => s.home[s.home[n]] = s.home[n]
  BY ScenarioAssumption
<1>2. WorldShape
  BY <1>1 DEF WorldShape, Scenario, Checkouts
<1>3. /\ graph.scans = <<>> /\ graph.edges = <<>> /\ graph.canonical = <<>>
      /\ GraphShape
  BY DEF GraphShape, EmptyGraph
<1>4. EdgesOf(graph) = {}
  BY <1>3 DEF EdgesOf
<1>5. NamesLead /\ ScansHaveGround /\ EdgesAreCalled
  BY <1>3, <1>4 DEF NamesLead, ScansHaveGround, EdgesAreCalled
<1>6. GotIsTrue /\ WantedIsCalled /\ AddingIsCalled
  BY DEF GotIsTrue, WantedIsCalled, AddingIsCalled, NoFilesLeft
<1>7. NamesAreSettled /\ ConfirmedAreCalled /\ Stages
  BY DEF NamesAreSettled, ConfirmedAreCalled, Stages, Resolving, NotAnalysed
<1> QED
  BY <1>2, <1>3, <1>5, <1>6, <1>7 DEF ReadInv

\* Every step keeps what was read true.
LEMMA NextKeepsReads ==
  ASSUME ReadInv, [Next]_vars
  PROVE  ReadInv'
<1>1. ASSUME pc = "analysis", Analyse, UNCHANGED <<world, process>>
      PROVE  ReadInv'
  <2>1. UNCHANGED <<world, sources, fetch, record, targets, pc, exit>>
    BY <1>1 DEF process
  <2>2. targets = {}
    BY <1>1 DEF ReadInv, NamesAreSettled
  <2>3. ConfirmedAreCalled' /\ Stages' /\ UNCHANGED graph
    BY <1>1, <2>1, AnalyseKeepsConfirmed
  <2> QED
    BY <1>1, <2>1, <2>2, <2>3, AnalysisKeepsReads
<1>2. ASSUME UNCHANGED vars
      PROVE  ReadInv'
  <2>1. /\ UNCHANGED <<world, asked, locals, wanted, got, targets, adding, probed, pc, exit>>
        /\ UNCHANGED <<graph, stage, cycles, confirmed>>
    BY <1>2 DEF vars, process, sources, fetch, record, analysis
  <2>2. /\ GraphShape' /\ NamesLead' /\ ScansHaveGround' /\ AddingIsCalled' /\ EdgesAreCalled'
        /\ \A m : Settled(m)' <=> Settled(m)
        /\ \A snap : IsTrue(snap)' <=> IsTrue(snap)
        /\ \A r, f : CalledOn(r, f)' <=> CalledOn(r, f)
    BY <2>1, LearntIsKept
  <2>3. GotIsTrue' /\ WantedIsCalled' /\ WorldShape'
    BY <2>1, <2>2
       DEF ReadInv, GotIsTrue, WantedIsCalled, WorldShape, View, Visible, Checkouts, world, history
  <2>4. NamesAreSettled'
    BY <2>1, <2>2 DEF ReadInv, NamesAreSettled, Resolving, NextTarget, Own, View, Visible, world, history
  <2>5. ConfirmedAreCalled' /\ Stages'
    BY <2>1 DEF ReadInv, ConfirmedAreCalled, Stages
  <2> QED
    BY <2>2, <2>3, <2>4, <2>5 DEF ReadInv
<1>3. CASE GitHub
  BY <1>3, GitHubKeepsReads
<1>4. CASE ReadLocal
  BY <1>4, ReadLocalKeepsReads
<1>5. CASE ReadRemote
  BY <1>5, ReadRemoteKeepsReads
<1>6. CASE FetchBatch \/ SkipBatch
  BY <1>6, BatchKeepsReads
<1>7. CASE RecordNext
  BY <1>7, RecordNextKeepsReads
<1>8. CASE AddFile
  BY <1>8, AddFileKeepsReads
<1>9. CASE FetchEnds
  BY <1>9, FetchEndsKeepsReads
<1>10. CASE FollowLevel
  BY <1>10, FollowLevelKeepsReads
<1>11. CASE ReadingEnds
  BY <1>11, ReadingEndsKeepsReads
<1>12. CASE ResolveName
  BY <1>12, ResolveNameKeepsReads
<1>13. CASE ProbeOwner
  BY <1>13, ProbeOwnerKeepsReads
<1>14. CASE NamesEnd
  BY <1>14, NamesEndKeepsReads
<1>15. CASE Report
  BY <1>15, ReportKeepsReads
<1>16. CASE Finished
  BY <1>2, <1>16 DEF Finished
<1> QED
  BY <1>1, <1>2, <1>3, <1>4, <1>5, <1>6, <1>7, <1>8, <1>9, <1>10, <1>11, <1>12, <1>13,
     <1>14, <1>15, <1>16 DEF Next, Run

\* What was read stays true, and what is called is what was read.
THEOREM ReadsAreTrue == Spec => []ReadInv
<1>1. Init => ReadInv
  BY NothingIsReadFirst
<1>2. ReadInv /\ [Next]_vars => ReadInv'
  BY NextKeepsReads
<1> QED
  BY <1>1, <1>2, PTL DEF Spec

\* No upstream of a confirmed reference that is not to be had under its name once
\* reading has ended is passed over without a note that its name was not
\* verified: it is reported as moved to where it led, or as dead, or it was read
\* under its name, or from a checkout, before it went.
THEOREM NothingIsHidden == Spec => []NothingHidden
<1>1. ReadInv => NothingHidden
  <2> SUFFICES ASSUME ReadInv, Analysed, NEW e \in confirmed, e.to \notin current,
                      {Note(e.to, "unverified"), NoNames} \cap graph.notes = {}
               PROVE  \/ \E m \in MovedUpstreams(graph, confirmed) :
                           /\ m.written = e.to /\ m.canonical \in views[e.to]
                           /\ e \in m.consumers
                      \/ e.to \in DeadUpstreams(graph)
                      \/ /\ Scanned(graph, e.to) /\ (e.to \in Checkouts \/ e.to \in views[e.to])
                         /\ Nobody \in views[e.to]
    BY DEF NothingHidden
  <2> DEFINE n == e.to
  <2>1. e \in FromScanned(graph) /\ e \in EdgesOf(graph)
    BY DEF ReadInv, ConfirmedAreCalled, FromScanned
  <2>2. Note(n, "unverified") \notin graph.notes /\ NoNames \notin graph.notes
    OBVIOUS
  <2>3. Settled(n)
    BY <2>1, <2>2 DEF ReadInv, NamesAreSettled, Resolving, Analysed
  <2>4. ASSUME n \in DOMAIN graph.canonical
        PROVE  \E m \in MovedUpstreams(graph, confirmed) :
                 m.written = n /\ m.canonical \in views[n] /\ e \in m.consumers
    <3>1. graph.canonical[n] \in views[n]
      BY <2>4 DEF ReadInv, NamesLead
    <3> DEFINE uses(r) == {d \in FromScanned(graph) : d.to = r}
               found(r) == [written |-> r, canonical |-> graph.canonical[r],
                            consumers |-> uses(r) \cap confirmed,
                            unconfirmed |-> uses(r) \ confirmed]
    <3>2. e \in uses(n)
      BY <2>1
    <3>3. MovedUpstreams(graph, confirmed)
            = {found(r) : r \in {x \in DOMAIN graph.canonical : uses(x) # {}}}
      BY DEF MovedUpstreams
    <3>4. /\ found(n).written = n /\ found(n).canonical \in views[n]
          /\ e \in found(n).consumers
      BY <3>1, <3>2
    <3> HIDE DEF uses, found
    <3>5. found(n) \in MovedUpstreams(graph, confirmed)
      BY <2>4, <3>2, <3>3
    <3> QED
      BY <3>4, <3>5
  <2>5. ASSUME n \in DOMAIN graph.scans, graph.scans[n].status = "NotFound"
        PROVE  n \in DeadUpstreams(graph)
    BY <2>1, <2>5 DEF DeadUpstreams
  <2>6. ASSUME n \in DOMAIN graph.scans, graph.scans[n].status = "Scanned"
        PROVE  /\ Scanned(graph, n)
               /\ n \in Checkouts \/ n \in views[n] \/ n \in DOMAIN graph.canonical
    BY <2>6 DEF Scanned, ReadInv, ScansHaveGround
  <2> QED
    BY <2>2, <2>3, <2>4, <2>5, <2>6 DEF Settled
<1> QED
  BY <1>1, ReadsAreTrue, PTL

\* What is said of an upstream was so: it led where it is said to have moved, or
\* could not be seen, its owner gone if only its name was asked for; never for a
\* failed read, a spent budget or a failed probe of its owner.
THEOREM FindingsAreReal == Spec => []FindingsHaveGround
<1>1. ReadInv => FindingsHaveGround
  <2>1. \A n \in DeadUpstreams(graph) :
          n \in DOMAIN graph.scans /\ graph.scans[n].status = "NotFound"
    BY DEF DeadUpstreams
  <2>2. \A m \in MovedUpstreams(graph, confirmed) :
          m.written \in DOMAIN graph.canonical /\ m.canonical = graph.canonical[m.written]
    BY DEF MovedUpstreams
  <2> QED
    BY <2>1, <2>2 DEF ReadInv, NamesLead, ScansHaveGround, FindingsHaveGround
<1> QED
  BY <1>1, ReadsAreTrue, PTL

\* Exit 4 blames what is called: a cycle, a dead name, or a moved name that a
\* requested repository or a file it calls at its exact revision uses.
THEOREM BlameIsCalledFor == Spec => []BlamesWhatIsCalled
<1>1. ReadInv => BlamesWhatIsCalled
  <2> SUFFICES ASSUME ReadInv PROVE BlamesWhatIsCalled
    OBVIOUS
  <2>1. \A e \in EdgesOf(graph) :
          e.from \in graph.subjects \/ \E d \in EdgesOf(graph) : Carries(d, e)
    BY DEF ReadInv, EdgesAreCalled
  <2>2. ASSUME exit = 4, cycles = {}, DeadUpstreams(graph) = {}
        PROVE  \E e \in EdgesOf(graph) :
                 /\ e.to \in DOMAIN graph.canonical
                 /\ \/ e.from \in graph.subjects
                    \/ \E d \in EdgesOf(graph) : Carries(d, e) /\ PinnedRevision(graph, d)
    <3>1. PICK m \in MovedUpstreams(graph, confirmed) : m.consumers # {}
      BY <2>2 DEF ReadInv, Stages, Blocking
    <3>2. PICK r \in DOMAIN graph.canonical :
            m.consumers = {d \in FromScanned(graph) : d.to = r} \cap confirmed
      BY DEF MovedUpstreams
    <3>3. PICK e \in confirmed : e \in FromScanned(graph) /\ e.to = r
      BY <3>1, <3>2
    <3> QED
      BY <3>3 DEF ReadInv, ConfirmedAreCalled, FromScanned
  <2> QED
    BY <2>1, <2>2 DEF BlamesWhatIsCalled
<1> QED
  BY <1>1, ReadsAreTrue, PTL

-----------------------------------------------------------------------------
\* A set of edges to which the rule of `confirmed_edges` adds nothing.
ConfirmsNothing(S) == S \subseteq EdgesOf(graph) /\ Additions(graph, S) = {}

\* What is confirmed so far is in every such set, and is one once the rounds end.
LeastInv ==
  /\ pc # "analysis" => stage = "reading"
  /\ stage = "reading" => confirmed = {}
  /\ confirmed \subseteq EdgesOf(graph)
  /\ \A S \in SUBSET EdgesOf(graph) : ConfirmsNothing(S) => confirmed \subseteq S
  /\ stage \in {"routes", "order", "weigh", "chain", "done"} => ConfirmsNothing(confirmed)

\* The confirmed edges that `analyse` goes on with are the least set closed under
\* the rule: all that a chain of exact pins from a requested repository reaches.
ConfirmedIsLeast ==
  stage \in {"routes", "order", "weigh", "chain", "done"} =>
    /\ ConfirmsNothing(confirmed)
    /\ \A S \in SUBSET EdgesOf(graph) : ConfirmsNothing(S) => confirmed \subseteq S

\* More that is known adds no less.
LEMMA AdditionsGrow ==
  ASSUME NEW S, NEW T \in SUBSET S, NEW e \in Additions(graph, T)
  PROVE  e \in S \/ e \in Additions(graph, S)
BY DEF Additions

\* With graph and confirmed edges alone, only the end of the rounds matters.
LEMMA LeastKept ==
  ASSUME LeastInv, UNCHANGED <<graph, confirmed>>,
         pc' # "analysis" => stage' = "reading", stage' = "reading" => stage = "reading",
         stage' \in {"routes", "order", "weigh", "chain", "done"} => ConfirmsNothing(confirmed)
  PROVE  LeastInv'
<1>1. \A S : ConfirmsNothing(S)' <=> ConfirmsNothing(S)
  BY DEF ConfirmsNothing
<1> QED
  BY <1>1 DEF LeastInv

\* Every step keeps the confirmed edges least.
LEMMA NextKeepsLeast == ASSUME LeastInv, [Next]_vars PROVE LeastInv'
<1>1. ASSUME stage = "reading", UNCHANGED <<stage, confirmed>>
      PROVE  LeastInv'
  BY <1>1 DEF LeastInv
<1>2. ASSUME UNCHANGED <<pc, graph, stage, confirmed>>
      PROVE  LeastInv'
  BY <1>2, LeastKept DEF LeastInv
<1>3. CASE GitHub \/ Finished \/ UNCHANGED vars \/ Report
  BY <1>2, <1>3 DEF GitHub, Finished, Report, vars, process, analysis
<1>4. CASE ReadLocal \/ ReadRemote \/ FetchBatch \/ SkipBatch \/ RecordNext \/ AddFile
           \/ FetchEnds \/ FollowLevel \/ ReadingEnds \/ ResolveName \/ ProbeOwner
  <2>1. UNCHANGED analysis /\ pc # "analysis"
    BY <1>4 DEF ReadLocal, ReadRemote, FetchBatch, SkipBatch, RecordNext, AddFile,
                FetchEnds, FollowLevel, ReadingEnds, ResolveName, ProbeOwner
  <2> QED
    BY <1>1, <2>1 DEF LeastInv, analysis
<1>5. CASE NamesEnd
  <2>1. /\ pc' = "analysis" /\ stage' = "cycles" /\ UNCHANGED <<graph, confirmed>>
    BY <1>5 DEF NamesEnd
  <2> QED
    BY <2>1, LeastKept
<1>6. ASSUME Analyse, pc = "analysis", UNCHANGED pc
      PROVE  LeastInv'
  <2>1. CASE Root \/ FollowEdge \/ Return
    <3>1. UNCHANGED <<graph, confirmed>> /\ stage' \in {"cycles", "confirm"}
      BY <2>1 DEF Root, FollowEdge, Return
    <3> QED
      BY <1>6, <3>1, LeastKept
  <2>2. CASE RoutesInto \/ Follow \/ FollowReturns \/ Land \/ Weigh \/ Trace
    <3>1. /\ UNCHANGED <<graph, confirmed>> /\ stage \in {"routes", "order", "weigh", "chain"}
          /\ stage' \in {"routes", "order", "weigh", "chain", "done"}
      BY <2>2 DEF RoutesInto, Follow, FollowReturns, Land, Weigh, Trace
    <3> QED
      BY <1>6, <3>1, LeastKept DEF LeastInv
  <2>3. CASE Confirm /\ Additions(graph, confirmed) = {}
    <3>1. UNCHANGED <<graph, confirmed>> /\ stage' = "routes"
      BY <2>3 DEF Confirm
    <3> QED
      BY <1>6, <2>3, <3>1, LeastKept DEF LeastInv, ConfirmsNothing
  <2>4. CASE Confirm /\ Additions(graph, confirmed) # {}
    <3>1. /\ confirmed' = confirmed \cup Additions(graph, confirmed)
          /\ UNCHANGED graph /\ stage' = "confirm"
      BY <2>4 DEF Confirm
    <3>2. confirmed' \subseteq EdgesOf(graph)
      BY <3>1 DEF LeastInv, Additions
    <3>3. ASSUME NEW S \in SUBSET EdgesOf(graph), ConfirmsNothing(S)
          PROVE  confirmed' \subseteq S
      BY <3>1, <3>3, AdditionsGrow DEF LeastInv, ConfirmsNothing
    <3>4. \A S : ConfirmsNothing(S)' <=> ConfirmsNothing(S)
      BY <3>1 DEF ConfirmsNothing
    <3> QED
      BY <1>6, <3>1, <3>2, <3>3, <3>4 DEF LeastInv
  <2> QED
    BY <1>6, <2>1, <2>2, <2>3, <2>4 DEF Analyse
<1> QED
  BY <1>3, <1>4, <1>5, <1>6 DEF Next, Run, process

\* The rounds of confirmation end at the least closed set of edges, for every
\* graph: nothing reachable is left out, and nothing else is let in.
THEOREM ConfirmationIsLeast == Spec => []ConfirmedIsLeast
<1>1. Init => LeastInv
  BY DEF Init, NotAnalysed, LeastInv
<1>2. LeastInv => ConfirmedIsLeast
  BY DEF LeastInv, ConfirmedIsLeast
<1> QED
  BY <1>1, <1>2, NextKeepsLeast, PTL DEF Spec

-----------------------------------------------------------------------------
(***************************************************************************)
(* Cycles.  Tarjan's search, for every graph: SearchInv says of frames,    *)
(* stack, numbers and low links what makes the roots of components known.  *)
(***************************************************************************)
\* What can be reached is in every closed set with the start.
LEMMA ReachedIsLeast ==
  ASSUME NEW start, NEW steps, NEW among, NEW S \in SUBSET among, start \subseteq S,
         \A p \in steps : p[1] \in S => p[2] \in S
  PROVE  Reached(start, steps, among) \subseteq S
BY DEF Reached

\* What can be reached is closed, and has the start.
LEMMA ReachedIsClosed ==
  ASSUME NEW start, NEW steps, NEW among, start \subseteq among
  PROVE  /\ start \subseteq Reached(start, steps, among)
         /\ Reached(start, steps, among) \subseteq among
         /\ \A p \in steps : p[1] \in Reached(start, steps, among) /\ p[2] \in among =>
              p[2] \in Reached(start, steps, among)
BY DEF Reached

\* A pair of the graph is one of a node and an upstream, which differ.
LEMMA StepsAreUpstreams ==
  /\ \A p \in RepoEdges(graph) :
       /\ p[2] \in UpstreamsOf(p[1]) /\ p[1] \in Nodes(graph) /\ p[2] \in Nodes(graph)
  /\ \A r : \A u \in UpstreamsOf(r) :
       /\ <<r, u>> \in RepoEdges(graph) /\ u # r /\ u \in Nodes(graph) /\ r \in Nodes(graph)
<1>1. \A p \in RepoEdges(graph) : \E e \in EdgesOf(graph) :
        p = <<e.from, e.to>> /\ e.from # e.to
  BY DEF RepoEdges, IsSelf
<1>2. ASSUME NEW p \in RepoEdges(graph)
      PROVE  p[2] \in UpstreamsOf(p[1]) /\ p[1] \in Nodes(graph) /\ p[2] \in Nodes(graph)
  BY <1>1 DEF UpstreamsOf, Nodes
<1>3. ASSUME NEW r, NEW u \in UpstreamsOf(r)
      PROVE  <<r, u>> \in RepoEdges(graph) /\ u # r /\ u \in Nodes(graph) /\ r \in Nodes(graph)
  <2>1. PICK p \in RepoEdges(graph) : p[1] = r /\ p[2] = u
    BY <1>3 DEF UpstreamsOf
  <2>2. PICK e \in EdgesOf(graph) : p = <<e.from, e.to>> /\ e.from # e.to
    BY <1>1
  <2> QED
    BY <1>2, <2>1, <2>2
<1> QED
  BY <1>2, <1>3

\* All upstreams of a node: its upstreams, and theirs.
LEMMA AllUpstreamsClosed ==
  ASSUME NEW r
  PROVE  /\ UpstreamsOf(r) \subseteq AllUpstreams(r)
         /\ AllUpstreams(r) \subseteq Nodes(graph)
         /\ \A q \in AllUpstreams(r) : UpstreamsOf(q) \subseteq AllUpstreams(r)
<1>1. UpstreamsOf(r) \subseteq Nodes(graph)
  BY UpstreamsAreNodes
<1>2. /\ UpstreamsOf(r) \subseteq AllUpstreams(r)
      /\ AllUpstreams(r) \subseteq Nodes(graph)
      /\ \A p \in RepoEdges(graph) : p[1] \in AllUpstreams(r) /\ p[2] \in Nodes(graph) =>
           p[2] \in AllUpstreams(r)
  BY <1>1, ReachedIsClosed DEF AllUpstreams
<1>3. ASSUME NEW q \in AllUpstreams(r), NEW u \in UpstreamsOf(q)
      PROVE  u \in AllUpstreams(r)
  <2>1. <<q, u>> \in RepoEdges(graph) /\ u \in Nodes(graph)
    BY <1>3, StepsAreUpstreams
  <2>2. <<q, u>>[1] = q /\ <<q, u>>[2] = u
    OBVIOUS
  <2> QED
    BY <1>2, <2>1, <2>2
<1> QED
  BY <1>2, <1>3

\* They are in every set that has its upstreams and, with a node, those of it.
LEMMA AllUpstreamsLeast ==
  ASSUME NEW r, NEW S \in SUBSET Nodes(graph), UpstreamsOf(r) \subseteq S,
         \A x \in S : UpstreamsOf(x) \subseteq S
  PROVE  AllUpstreams(r) \subseteq S
<1>1. \A p \in RepoEdges(graph) : p[1] \in S => p[2] \in S
  BY StepsAreUpstreams
<1> QED
  BY <1>1, ReachedIsLeast DEF AllUpstreams

\* What is upstream of an upstream is upstream.
LEMMA UpstreamIsTransitive ==
  ASSUME NEW r, NEW q \in AllUpstreams(r)
  PROVE  AllUpstreams(q) \subseteq AllUpstreams(r)
BY AllUpstreamsClosed, AllUpstreamsLeast

\* Least of a set of naturals is its least element.
LEMMA LeastIsFirst ==
  ASSUME NEW S \in SUBSET Nat, S # {}
  PROVE  Least(S) \in S /\ \A x \in S : Least(S) <= x
<1>1. \E x \in S : \A y \in S : x <= y
  BY FirstName
<1> QED
  BY <1>1 DEF Least

\* Nodes that were numbered.
Visited == DOMAIN tarjan.index

\* Those on the stack, and those with a component.
OnStack == ToSet(tarjan.stack)
Placed  == Visited \ OnStack

\* Nodes are numbered in the order of their visits.
Numbered ==
  /\ tarjan = [frames |-> tarjan.frames, index |-> tarjan.index, low |-> tarjan.low,
               stack |-> tarjan.stack]
  /\ IsFiniteSet(Visited) /\ Visited \subseteq Nodes(graph)
  /\ tarjan.index \in [Visited -> Nat] /\ tarjan.low \in [Visited -> Nat]
  /\ \A v \in Visited : tarjan.index[v] < Cardinality(Visited)
  /\ \A v, w \in Visited : tarjan.index[v] = tarjan.index[w] => v = w

\* The stack has the later nodes above the earlier ones.
Stacked ==
  /\ tarjan.stack \in Seq(Visited)
  /\ \A i, j \in DOMAIN tarjan.stack :
       i < j => tarjan.index[tarjan.stack[j]] < tarjan.index[tarjan.stack[i]]

\* So have the frames, each for an edge that its caller has left.
Framed ==
  /\ tarjan.frames \in Seq([node : OnStack, left : SUBSET Nodes(graph)])
  /\ \A i \in DOMAIN tarjan.frames :
       tarjan.frames[i].left \subseteq UpstreamsOf(tarjan.frames[i].node)
  /\ \A i, j \in DOMAIN tarjan.frames :
       i < j => tarjan.index[tarjan.frames[j].node] < tarjan.index[tarjan.frames[i].node]
  /\ \A i \in DOMAIN tarjan.frames : i > 1 =>
       tarjan.frames[i - 1].node \in tarjan.frames[i].left

\* An edge is left if a frame is to follow it.
IsLeft(u, w) ==
  \E i \in DOMAIN tarjan.frames : tarjan.frames[i].node = u /\ w \in tarjan.frames[i].left

\* The visit of a node is under way.
HasFrame(u) == \E i \in DOMAIN tarjan.frames : tarjan.frames[i].node = u

\* Edges that were followed lead to visited nodes and lower the link.
EdgesFollowed ==
  \A u \in OnStack : \A w \in UpstreamsOf(u) :
    \/ IsLeft(u, w)
    \/ w \in Visited /\ (w \in OnStack => tarjan.low[u] <= tarjan.index[w])

\* Nothing leads out of the components found.
PlacedIsClosed == \A v \in Placed : UpstreamsOf(v) \subseteq Placed

\* A low link is the number of a node on the stack that can be reached.
LowIsReached ==
  \A v \in OnStack :
    /\ tarjan.low[v] <= tarjan.index[v]
    /\ \E u \in OnStack :
         tarjan.index[u] = tarjan.low[v] /\ (u = v \/ u \in AllUpstreams(v))

\* A node on the stack that was left is no root.
LeftAreNoRoots ==
  \A v \in OnStack : HasFrame(v) \/ tarjan.low[v] < tarjan.index[v]

\* A frame's node reaches all that is above it on the stack.
FramesReach ==
  \A i \in DOMAIN tarjan.frames : \A v \in OnStack :
    tarjan.index[tarjan.frames[i].node] < tarjan.index[v] =>
      v \in AllUpstreams(tarjan.frames[i].node)

\* Its low link is the lowest of those between it and the next frame above.
FramesAreLow ==
  \A i \in DOMAIN tarjan.frames : \A u \in OnStack :
    /\ tarjan.index[tarjan.frames[i].node] <= tarjan.index[u]
    /\ i > 1 => tarjan.index[u] < tarjan.index[tarjan.frames[i - 1].node]
    => tarjan.low[tarjan.frames[i].node] <= tarjan.low[u]

\* The cycles so far are the components of the nodes that have one.
CyclesSoFar == cycles = {Component(r) : r \in Placed} \ {{}}

\* The search ends with every node visited and no visit under way.
SearchEnds ==
  stage \notin {"reading", "cycles"} => tarjan.frames = <<>> /\ Visited = Nodes(graph)

\* What the search keeps at each of its steps.
Search ==
  /\ Numbered /\ Stacked /\ Framed
  /\ EdgesFollowed /\ PlacedIsClosed /\ LowIsReached /\ LeftAreNoRoots
  /\ FramesReach /\ FramesAreLow /\ CyclesSoFar

\* It is so from the first node on.
SearchInv ==
  /\ stage \in Stage /\ (pc # "analysis" => stage = "reading")
  /\ stage = "reading" => tarjan = StartTarjan /\ cycles = {}
  /\ stage # "reading" => Search /\ SearchEnds

\* A frame of `visit`.
Frame == [node : Nodes(graph), left : SUBSET Nodes(graph)]

\* A sequence with one more element at its head.
LEMMA PushedOn ==
  ASSUME NEW S, NEW s \in Seq(S), NEW x \in S
  PROVE  /\ <<x>> \o s \in Seq(S) /\ Len(<<x>> \o s) = Len(s) + 1
         /\ DOMAIN (<<x>> \o s) = 1..(Len(s) + 1) /\ DOMAIN s = 1..Len(s)
         /\ (<<x>> \o s)[1] = x
         /\ \A i \in DOMAIN s : i + 1 \in 2..(Len(s) + 1) /\ (<<x>> \o s)[i + 1] = s[i]
         /\ \A i \in 2..(Len(s) + 1) : i - 1 \in DOMAIN s /\ (<<x>> \o s)[i] = s[i - 1]
OBVIOUS

\* A sequence without its head.
LEMMA PoppedOff ==
  ASSUME NEW S, NEW s \in Seq(S), s # <<>>
  PROVE  /\ Tail(s) \in Seq(S) /\ Len(Tail(s)) = Len(s) - 1 /\ Len(s) \in Nat \ {0}
         /\ DOMAIN Tail(s) = 1..(Len(s) - 1) /\ DOMAIN s = 1..Len(s)
         /\ Head(s) = s[1] /\ 1 \in DOMAIN s /\ s[1] \in S
         /\ \A i \in DOMAIN Tail(s) : i + 1 \in DOMAIN s /\ Tail(s)[i] = s[i + 1]
OBVIOUS

\* An element of a sequence is at one of its positions, and of its set.
LEMMA SeqElement ==
  ASSUME NEW S, NEW s \in Seq(S), NEW i \in DOMAIN s
  PROVE  i \in 1..Len(s) /\ s[i] \in S /\ Len(s) \in Nat
OBVIOUS

\* A sequence of a set is one of a larger set.
LEMMA SeqWidens ==
  ASSUME NEW S, NEW T, S \subseteq T, NEW s \in Seq(S)
  PROVE  s \in Seq(T)
OBVIOUS

\* The nodes of a graph are names, which are numbers.
LEMMA NodesAreNames == ASSUME GraphShape PROVE Nodes(graph) \subseteq Repo \cap Nat
<1>1. \A e \in EdgesOf(graph) : e.from \in Repo /\ e.to \in Repo
  BY EdgesAreEdges DEF Edge
<1> QED
  BY <1>1, NameAssumption DEF GraphShape, Nodes

\* Numbers, links, stack and frames are what they seem.
LEMMA SearchTypes ==
  ASSUME Numbered, Stacked, Framed
  PROVE  /\ OnStack \subseteq Visited /\ Visited \subseteq Nodes(graph)
         /\ Cardinality(Visited) \in Nat
         /\ \A v \in Visited : tarjan.index[v] \in Nat /\ tarjan.low[v] \in Nat
         /\ tarjan.stack \in Seq(Visited)
         /\ DOMAIN tarjan.low = Visited
         /\ tarjan.frames \in Seq(Frame)
         /\ \A i \in DOMAIN tarjan.frames :
              /\ i \in 1..Len(tarjan.frames)
              /\ tarjan.frames[i] \in Frame /\ tarjan.frames[i].node \in OnStack
              /\ tarjan.frames[i].left \subseteq UpstreamsOf(tarjan.frames[i].node)
<1>1. tarjan.stack \in Seq(Visited) /\ DOMAIN tarjan.stack = 1..Len(tarjan.stack)
  BY DEF Stacked
<1>2. OnStack \subseteq Visited
  BY <1>1 DEF OnStack, ToSet
<1>3. Cardinality(Visited) \in Nat
  BY FS_CardinalityType DEF Numbered
<1>4. Visited \subseteq Nodes(graph) /\ DOMAIN tarjan.low = Visited
  BY DEF Numbered
<1>5. \A v \in Visited : tarjan.index[v] \in Nat /\ tarjan.low[v] \in Nat
  BY DEF Numbered
<1>6. [node : OnStack, left : SUBSET Nodes(graph)] \subseteq Frame
  BY <1>2, <1>4 DEF Frame
<1>7. tarjan.frames \in Seq([node : OnStack, left : SUBSET Nodes(graph)])
  BY DEF Framed
<1>8. tarjan.frames \in Seq(Frame)
  BY <1>6, <1>7, SeqWidens
<1>9. ASSUME NEW i \in DOMAIN tarjan.frames
      PROVE  /\ i \in 1..Len(tarjan.frames)
             /\ tarjan.frames[i] \in Frame /\ tarjan.frames[i].node \in OnStack
             /\ tarjan.frames[i].left \subseteq UpstreamsOf(tarjan.frames[i].node)
  <2>1. i \in 1..Len(tarjan.frames) /\ tarjan.frames[i] \in [node : OnStack, left : SUBSET Nodes(graph)]
    BY <1>7, <1>9, SeqElement
  <2>2. tarjan.frames[i].node \in OnStack
    BY <2>1
  <2> QED
    BY <1>6, <1>9, <2>1, <2>2 DEF Framed
<1> QED
  BY <1>1, <1>2, <1>3, <1>4, <1>5, <1>8, <1>9

\* The nodes below the top frame are below its node on the stack.
LEMMA FramesDiffer ==
  ASSUME Numbered, Stacked, Framed
  PROVE  \A i, j \in DOMAIN tarjan.frames :
           tarjan.frames[i].node = tarjan.frames[j].node => i = j
<1> SUFFICES ASSUME NEW i \in DOMAIN tarjan.frames, NEW j \in DOMAIN tarjan.frames,
                    tarjan.frames[i].node = tarjan.frames[j].node, i # j
             PROVE  FALSE
  OBVIOUS
<1>1. /\ i \in Nat /\ j \in Nat
      /\ tarjan.index[tarjan.frames[i].node] \in Nat
  BY SearchTypes
<1>2. CASE i < j
  BY <1>1, <1>2 DEF Framed
<1>3. CASE j < i
  BY <1>1, <1>3 DEF Framed
<1> QED
  BY <1>1, <1>2, <1>3

\* Entering a node numbers it and puts it on the stack.
LEMMA EnterNumbers ==
  ASSUME Numbered, Stacked, Framed, UNCHANGED graph,
         NEW r \in Nodes(graph), r \notin Visited, tarjan' = Enter(tarjan, r)
  PROVE  /\ Visited' = Visited \cup {r} /\ OnStack' = OnStack \cup {r} /\ Placed' = Placed
         /\ \A v \in Visited :
              /\ tarjan'.index[v] = tarjan.index[v] /\ tarjan'.low[v] = tarjan.low[v]
              /\ tarjan.index[v] < tarjan'.index[r]
         /\ tarjan'.low[r] = tarjan'.index[r] /\ tarjan'.index[r] \in Nat
         /\ Numbered' /\ Stacked'
<1> DEFINE n == Cardinality(Visited)
<1>1. /\ tarjan'.index = With(tarjan.index, r, n) /\ tarjan'.low = With(tarjan.low, r, n)
      /\ tarjan'.stack = <<r>> \o tarjan.stack
      /\ tarjan' = [frames |-> tarjan'.frames, index |-> tarjan'.index, low |-> tarjan'.low,
                    stack |-> tarjan'.stack]
  BY DEF Enter, Visited
<1>2. n \in Nat /\ OnStack \subseteq Visited /\ tarjan.stack \in Seq(Visited)
  BY SearchTypes
<1> HIDE DEF n
<1>3. /\ Visited' = Visited \cup {r}
      /\ tarjan'.index[r] = n /\ \A v \in Visited : tarjan'.index[v] = tarjan.index[v]
  BY <1>1 DEF With, Visited
<1>4. /\ DOMAIN tarjan'.low = Visited \cup {r}
      /\ tarjan'.low[r] = n /\ \A v \in Visited : tarjan'.low[v] = tarjan.low[v]
  <2>1. DOMAIN tarjan.low = Visited
    BY SearchTypes
  <2> QED
    BY <1>1, <2>1 DEF With
<1>5. IsFiniteSet(Visited') /\ Cardinality(Visited') = n + 1
  BY <1>3, FS_AddElement DEF Numbered, n
<1>6. \A v \in Visited : tarjan.index[v] < n
  BY DEF Numbered, n
<1>7. Numbered'
  <2>1. Visited' \subseteq Nodes(graph)'
    BY <1>3, SearchTypes
  <2>2. \A v \in Visited : tarjan.index[v] \in Nat /\ tarjan.low[v] \in Nat
    BY SearchTypes
  <2>3. tarjan'.index \in [Visited' -> Nat]
    BY <1>1, <1>2, <1>3, <2>2 DEF With, Visited
  <2>4. tarjan'.low \in [Visited' -> Nat]
    BY <1>1, <1>2, <1>3, <1>4, <2>2 DEF With
  <2>5. \A v \in Visited' : tarjan'.index[v] < n + 1
    BY <1>2, <1>3, <1>6, <2>2
  <2>6. \A v, w \in Visited' : tarjan'.index[v] = tarjan'.index[w] => v = w
    BY <1>2, <1>3, <1>6, <2>2 DEF Numbered
  <2> QED
    BY <1>1, <1>5, <2>1, <2>3, <2>4, <2>5, <2>6 DEF Numbered
<1>8. /\ DOMAIN tarjan'.stack = 1..(Len(tarjan.stack) + 1) /\ tarjan'.stack \in Seq(Visited')
      /\ DOMAIN tarjan.stack = 1..Len(tarjan.stack)
      /\ tarjan'.stack[1] = r
      /\ \A i \in 2..(Len(tarjan.stack) + 1) :
           i - 1 \in DOMAIN tarjan.stack /\ tarjan'.stack[i] = tarjan.stack[i - 1]
      /\ \A i \in DOMAIN tarjan.stack :
           i + 1 \in 2..(Len(tarjan.stack) + 1) /\ tarjan'.stack[i + 1] = tarjan.stack[i]
  <2>1. tarjan.stack \in Seq(Visited') /\ r \in Visited'
    BY <1>2, <1>3
  <2> QED
    BY <1>1, <2>1, PushedOn
<1>9. Len(tarjan.stack) \in Nat
  BY <1>2
<1>10. OnStack' = OnStack \cup {r}
  <2>1. \A i \in DOMAIN tarjan'.stack : i = 1 \/ i \in 2..(Len(tarjan.stack) + 1)
    BY <1>8, <1>9
  <2>2. OnStack' \subseteq OnStack \cup {r}
    BY <1>8, <2>1 DEF OnStack, ToSet
  <2>3. 1 \in DOMAIN tarjan'.stack /\ \A i \in DOMAIN tarjan.stack : i + 1 \in DOMAIN tarjan'.stack
    BY <1>8, <1>9
  <2>4. \A i \in DOMAIN tarjan.stack : tarjan'.stack[i + 1] = tarjan.stack[i]
    BY <1>8
  <2>5. ASSUME NEW v \in OnStack PROVE v \in OnStack'
    <3>1. PICK i \in DOMAIN tarjan.stack : tarjan.stack[i] = v
      BY <2>5 DEF OnStack, ToSet
    <3>2. i + 1 \in DOMAIN tarjan'.stack /\ tarjan'.stack[i + 1] = v
      BY <2>3, <2>4, <3>1
    <3> QED
      BY <3>2 DEF OnStack, ToSet
  <2>6. r \in OnStack'
    <3>1. tarjan'.stack[1] = r
      BY <1>8
    <3> QED
      BY <2>3, <3>1 DEF OnStack, ToSet
  <2> QED
    BY <2>2, <2>5, <2>6
<1>11. Stacked'
  <2> SUFFICES ASSUME NEW i \in DOMAIN tarjan'.stack, NEW j \in DOMAIN tarjan'.stack, i < j
               PROVE  tarjan'.index[tarjan'.stack[j]] < tarjan'.index[tarjan'.stack[i]]
    BY <1>8 DEF Stacked
  <2>1. j \in 2..(Len(tarjan.stack) + 1) /\ i \in 1..(Len(tarjan.stack) + 1)
    BY <1>8, <1>9
  <2>2. j - 1 \in DOMAIN tarjan.stack /\ tarjan'.stack[j] = tarjan.stack[j - 1]
        /\ tarjan.stack[j - 1] \in Visited
    BY <1>2, <1>8, <2>1
  <2>3. CASE i = 1
    BY <1>3, <1>6, <1>8, <2>2, <2>3
  <2>4. CASE i # 1
    <3>1. i \in 2..(Len(tarjan.stack) + 1)
      BY <2>1, <2>4
    <3>2. i - 1 \in DOMAIN tarjan.stack /\ tarjan'.stack[i] = tarjan.stack[i - 1]
        /\ tarjan.stack[i - 1] \in Visited
      BY <1>2, <1>8, <3>1
    <3>3. i - 1 < j - 1
      BY <2>1
    <3> QED
      BY <1>3, <2>2, <3>2, <3>3 DEF Stacked
  <2> QED
    BY <2>3, <2>4
<1>12. Placed' = Placed
  BY <1>2, <1>3, <1>10 DEF Placed
<1> QED
  BY <1>2, <1>3, <1>4, <1>6, <1>7, <1>10, <1>11, <1>12

\* With the graph nothing changes of what is upstream of what.
LEMMA UpstreamsKept ==
  ASSUME UNCHANGED graph
  PROVE  /\ Nodes(graph)' = Nodes(graph) /\ RepoEdges(graph)' = RepoEdges(graph)
         /\ \A r : /\ UpstreamsOf(r)' = UpstreamsOf(r)
                   /\ AllUpstreams(r)' = AllUpstreams(r)
                   /\ Component(r)' = Component(r)
<1>1. \A r : UpstreamsOf(r)' = UpstreamsOf(r) /\ AllUpstreams(r)' = AllUpstreams(r)
  BY DEF UpstreamsOf, AllUpstreams
<1> QED
  BY <1>1 DEF Component

\* A node entered is the node of a new frame, with all its edges left.
LEMMA EnterFrames ==
  ASSUME Numbered, Stacked, Framed, UNCHANGED graph,
         NEW r \in Nodes(graph), r \notin Visited, tarjan' = Enter(tarjan, r),
         tarjan.frames = <<>> \/ r \in tarjan.frames[1].left
  PROVE  /\ DOMAIN tarjan'.frames = 1..(Len(tarjan.frames) + 1) /\ Len(tarjan.frames) \in Nat
         /\ tarjan'.frames[1].node = r /\ DOMAIN tarjan.frames = 1..Len(tarjan.frames)
         /\ \A i \in 2..(Len(tarjan.frames) + 1) :
              i - 1 \in DOMAIN tarjan.frames /\ tarjan'.frames[i] = tarjan.frames[i - 1]
         /\ \A u, w : IsLeft(u, w)' <=> IsLeft(u, w) \/ (u = r /\ w \in UpstreamsOf(r))
         /\ \A u : HasFrame(u)' <=> HasFrame(u) \/ u = r
         /\ Framed'
<1> DEFINE new == [node |-> r, left |-> UpstreamsOf(r)]
           n   == Len(tarjan.frames)
           NewFrame == [node : OnStack', left : SUBSET Nodes(graph)']
<1>1. tarjan'.frames = <<new>> \o tarjan.frames
  BY DEF Enter
<1>2. OnStack' = OnStack \cup {r} /\ OnStack \subseteq Visited
  BY EnterNumbers, SearchTypes
<1>3. tarjan.frames \in Seq(NewFrame)
  <2>1. [node : OnStack, left : SUBSET Nodes(graph)] \subseteq NewFrame
    BY <1>2
  <2>2. tarjan.frames \in Seq([node : OnStack, left : SUBSET Nodes(graph)])
    BY DEF Framed
  <2> HIDE DEF NewFrame
  <2> QED
    BY <2>1, <2>2, SeqWidens
<1>4. new \in NewFrame /\ new.node = r /\ new.left = UpstreamsOf(r)
  BY <1>2, UpstreamsAreNodes
<1> HIDE DEF new, NewFrame
<1>5. /\ DOMAIN tarjan'.frames = 1..(n + 1) /\ n \in Nat /\ tarjan'.frames \in Seq(NewFrame)
      /\ DOMAIN tarjan.frames = 1..n
      /\ tarjan'.frames[1] = new
      /\ \A i \in 2..(n + 1) :
           i - 1 \in DOMAIN tarjan.frames /\ tarjan'.frames[i] = tarjan.frames[i - 1]
      /\ \A i \in DOMAIN tarjan.frames :
           i + 1 \in 2..(n + 1) /\ tarjan'.frames[i + 1] = tarjan.frames[i]
  BY <1>1, <1>3, <1>4, PushedOn
<1> HIDE DEF n
<1>6. \A i \in DOMAIN tarjan'.frames : i = 1 \/ i \in 2..(n + 1)
  BY <1>5
<1>7. ASSUME NEW u, NEW w
      PROVE  IsLeft(u, w)' <=> IsLeft(u, w) \/ (u = r /\ w \in UpstreamsOf(r))
  <2>1. ASSUME NEW i \in DOMAIN tarjan.frames, tarjan.frames[i].node = u, w \in tarjan.frames[i].left
        PROVE  IsLeft(u, w)'
    <3>1. i + 1 \in DOMAIN tarjan'.frames /\ tarjan'.frames[i + 1] = tarjan.frames[i]
      BY <1>5
    <3> QED
      BY <2>1, <3>1 DEF IsLeft
  <2>2. 1 \in DOMAIN tarjan'.frames
    BY <1>5
  <2>3. u = r /\ w \in UpstreamsOf(r) => IsLeft(u, w)'
    BY <1>4, <1>5, <2>2 DEF IsLeft
  <2>4. ASSUME NEW i \in DOMAIN tarjan'.frames, tarjan'.frames[i].node = u, w \in tarjan'.frames[i].left
        PROVE  IsLeft(u, w) \/ (u = r /\ w \in UpstreamsOf(r))
    BY <1>4, <1>5, <1>6, <2>4 DEF IsLeft
  <2> QED
    BY <2>1, <2>3, <2>4 DEF IsLeft
<1>8. ASSUME NEW u
      PROVE  HasFrame(u)' <=> HasFrame(u) \/ u = r
  <2>1. ASSUME NEW i \in DOMAIN tarjan.frames, tarjan.frames[i].node = u
        PROVE  HasFrame(u)'
    <3>1. i + 1 \in DOMAIN tarjan'.frames /\ tarjan'.frames[i + 1] = tarjan.frames[i]
      BY <1>5
    <3> QED
      BY <2>1, <3>1 DEF HasFrame
  <2>2. 1 \in DOMAIN tarjan'.frames
    BY <1>5
  <2>3. u = r => HasFrame(u)'
    BY <1>4, <1>5, <2>2 DEF HasFrame
  <2>4. ASSUME NEW i \in DOMAIN tarjan'.frames, tarjan'.frames[i].node = u
        PROVE  HasFrame(u) \/ u = r
    BY <1>4, <1>5, <1>6, <2>4 DEF HasFrame
  <2> QED
    BY <2>1, <2>3, <2>4 DEF HasFrame
<1>9. Framed'
  <2>1. tarjan'.frames \in Seq([node : OnStack', left : SUBSET Nodes(graph)'])
    BY <1>5 DEF NewFrame
  <2>2. ASSUME NEW i \in DOMAIN tarjan'.frames
        PROVE  tarjan'.frames[i].left \subseteq UpstreamsOf(tarjan.frames[i].node)'
    <3>1. CASE i = 1
      BY <1>4, <1>5, <3>1, UpstreamsKept
    <3>2. CASE i \in 2..(n + 1)
      <4>1. i - 1 \in DOMAIN tarjan.frames /\ tarjan'.frames[i] = tarjan.frames[i - 1]
        BY <1>5, <3>2
      <4>2. tarjan'.frames[i].left \subseteq UpstreamsOf(tarjan'.frames[i].node)
        BY <4>1, SearchTypes
      <4> QED
        BY <4>2, UpstreamsKept
    <3> QED
      BY <1>6, <3>1, <3>2
  <2>3. ASSUME NEW i \in DOMAIN tarjan'.frames, NEW j \in DOMAIN tarjan'.frames, i < j
        PROVE  tarjan'.index[tarjan'.frames[j].node] < tarjan'.index[tarjan'.frames[i].node]
    <3>1. j \in 2..(n + 1)
      BY <1>5, <2>3
    <3>2. /\ j - 1 \in DOMAIN tarjan.frames /\ tarjan'.frames[j] = tarjan.frames[j - 1]
          /\ tarjan.frames[j - 1].node \in Visited
      BY <1>2, <1>5, <3>1, SearchTypes
    <3>3. CASE i = 1
      BY <1>4, <1>5, <3>2, <3>3, EnterNumbers
    <3>4. CASE i \in 2..(n + 1)
      <4>1. /\ i - 1 \in DOMAIN tarjan.frames /\ tarjan'.frames[i] = tarjan.frames[i - 1]
            /\ tarjan.frames[i - 1].node \in Visited /\ i - 1 < j - 1
        <5>1. i - 1 \in DOMAIN tarjan.frames /\ tarjan'.frames[i] = tarjan.frames[i - 1]
          BY <1>5, <3>4
        <5>2. i - 1 < j - 1
          BY <1>5, <2>3, <3>1, <3>4
        <5> QED
          BY <1>2, <5>1, <5>2, SearchTypes
      <4>2. tarjan.index[tarjan.frames[j - 1].node] < tarjan.index[tarjan.frames[i - 1].node]
        BY <3>2, <4>1 DEF Framed
      <4> QED
        BY <3>2, <4>1, <4>2, EnterNumbers
    <3> QED
      BY <1>6, <3>3, <3>4
  <2>4. ASSUME NEW i \in DOMAIN tarjan'.frames, i > 1
        PROVE  tarjan'.frames[i - 1].node \in tarjan'.frames[i].left
    <3>1. /\ i \in 2..(n + 1) /\ i - 1 \in DOMAIN tarjan.frames
          /\ tarjan'.frames[i] = tarjan.frames[i - 1]
      BY <1>5, <1>6, <2>4
    <3>2. CASE i = 2
      <4>1. tarjan.frames # <<>>
        BY <3>1
      <4> QED
        BY <1>4, <1>5, <3>1, <3>2, <4>1
    <3>3. CASE i # 2
      <4>1. i - 1 \in 2..(n + 1) /\ i - 1 > 1
        BY <1>5, <3>1, <3>3
      <4>2. tarjan'.frames[i - 1] = tarjan.frames[i - 1 - 1]
        BY <1>5, <4>1
      <4> QED
        BY <3>1, <4>1, <4>2 DEF Framed
    <3> QED
      BY <3>2, <3>3
  <2> QED
    BY <2>1, <2>2, <2>3, <2>4 DEF Framed
<1> QED
  BY <1>4, <1>5, <1>7, <1>8, <1>9 DEF n

\* Entering a node keeps the search.
LEMMA EnterKeeps ==
  ASSUME Search, UNCHANGED <<graph, cycles>>,
         NEW r \in Nodes(graph), r \notin Visited, tarjan' = Enter(tarjan, r),
         tarjan.frames = <<>> \/ r \in tarjan.frames[1].left
  PROVE  Search'
<1> USE DEF Search
<1>1. /\ Visited' = Visited \cup {r} /\ OnStack' = OnStack \cup {r} /\ Placed' = Placed
      /\ OnStack \subseteq Visited /\ r \notin OnStack
      /\ \A v \in Visited :
           /\ tarjan'.index[v] = tarjan.index[v] /\ tarjan'.low[v] = tarjan.low[v]
           /\ tarjan.index[v] < tarjan'.index[r] /\ tarjan.index[v] \in Nat /\ tarjan.low[v] \in Nat
      /\ tarjan'.low[r] = tarjan'.index[r] /\ tarjan'.index[r] \in Nat
      /\ Numbered' /\ Stacked'
  BY EnterNumbers, SearchTypes
<1>2. /\ DOMAIN tarjan'.frames = 1..(Len(tarjan.frames) + 1) /\ Len(tarjan.frames) \in Nat
      /\ tarjan'.frames[1].node = r /\ DOMAIN tarjan.frames = 1..Len(tarjan.frames)
      /\ \A i \in 2..(Len(tarjan.frames) + 1) :
           i - 1 \in DOMAIN tarjan.frames /\ tarjan'.frames[i] = tarjan.frames[i - 1]
      /\ \A u, w : IsLeft(u, w)' <=> IsLeft(u, w) \/ (u = r /\ w \in UpstreamsOf(r))
      /\ \A u : HasFrame(u)' <=> HasFrame(u) \/ u = r
      /\ Framed'
  BY EnterFrames
<1>3. EdgesFollowed'
  <2> SUFFICES ASSUME NEW u \in OnStack', NEW w \in UpstreamsOf(u)'
               PROVE  \/ IsLeft(u, w)'
                      \/ w \in Visited' /\ (w \in OnStack' => tarjan'.low[u] <= tarjan'.index[w])
    BY DEF EdgesFollowed
  <2>1. w \in UpstreamsOf(u)
    BY UpstreamsKept
  <2>2. CASE u = r
    BY <1>2, <2>1, <2>2
  <2>3. CASE u \in OnStack
    <3>1. IsLeft(u, w) \/ (w \in Visited /\ (w \in OnStack => tarjan.low[u] <= tarjan.index[w]))
      BY <2>1, <2>3 DEF EdgesFollowed
    <3> QED
      BY <1>1, <1>2, <2>3, <3>1
  <2> QED
    BY <1>1, <2>2, <2>3
<1>4. PlacedIsClosed' /\ CyclesSoFar'
  BY <1>1, UpstreamsKept DEF PlacedIsClosed, CyclesSoFar
<1>5. LowIsReached'
  <2> SUFFICES ASSUME NEW v \in OnStack'
               PROVE  /\ tarjan'.low[v] <= tarjan'.index[v]
                      /\ \E u \in OnStack' :
                           tarjan'.index[u] = tarjan'.low[v] /\ (u = v \/ u \in AllUpstreams(v)')
    BY DEF LowIsReached
  <2>1. CASE v = r
    BY <1>1, <2>1
  <2>2. CASE v \in OnStack
    <3>1. PICK u \in OnStack : tarjan.index[u] = tarjan.low[v] /\ (u = v \/ u \in AllUpstreams(v))
      BY <2>2 DEF LowIsReached
    <3>2. tarjan.low[v] <= tarjan.index[v]
      BY <2>2 DEF LowIsReached
    <3> QED
      BY <1>1, <2>2, <3>1, <3>2, UpstreamsKept
  <2> QED
    BY <1>1, <2>1, <2>2
<1>6. LeftAreNoRoots'
  BY <1>1, <1>2 DEF LeftAreNoRoots
<1>7. FramesReach'
  <2> SUFFICES ASSUME NEW i \in DOMAIN tarjan'.frames, NEW v \in OnStack',
                      tarjan'.index[tarjan'.frames[i].node] < tarjan'.index[v]
               PROVE  v \in AllUpstreams(tarjan.frames[i].node)'
    BY DEF FramesReach
  <2>1. CASE i = 1
    BY <1>1, <1>2, <2>1
  <2>2. CASE i \in 2..(Len(tarjan.frames) + 1)
    <3> DEFINE f == tarjan.frames[i - 1].node
    <3>1. i - 1 \in DOMAIN tarjan.frames /\ tarjan'.frames[i].node = f /\ f \in OnStack
      BY <1>2, <2>2, SearchTypes
    <3>2. CASE v \in OnStack
      <4>1. tarjan.index[f] < tarjan.index[v]
        BY <1>1, <3>1, <3>2
      <4>2. v \in AllUpstreams(f)
        BY <3>1, <3>2, <4>1 DEF FramesReach
      <4> QED
        BY <3>1, <4>2, UpstreamsKept
    <3>3. CASE v = r
      <4> DEFINE top == tarjan.frames[1].node
      <4>1. tarjan.frames # <<>> /\ 1 \in DOMAIN tarjan.frames
        BY <1>2, <3>1
      <4>2. r \in UpstreamsOf(top) /\ top \in OnStack
        BY <4>1, SearchTypes
      <4>3. CASE i - 1 = 1
        BY <3>1, <3>3, <4>2, <4>3, AllUpstreamsClosed, UpstreamsKept
      <4>4. CASE i - 1 > 1
        <5>1. tarjan.index[f] < tarjan.index[top]
          BY <3>1, <4>1, <4>4 DEF Framed
        <5>2. top \in AllUpstreams(f)
          BY <3>1, <4>2, <5>1 DEF FramesReach
        <5> QED
          BY <3>1, <3>3, <4>2, <5>2, AllUpstreamsClosed, UpstreamsKept
      <4> QED
        BY <1>2, <2>2, <4>3, <4>4
    <3> QED
      BY <1>1, <3>2, <3>3
  <2> QED
    BY <1>2, <2>1, <2>2
<1>8. FramesAreLow'
  <2> SUFFICES ASSUME NEW i \in DOMAIN tarjan'.frames, NEW u \in OnStack',
                      tarjan'.index[tarjan'.frames[i].node] <= tarjan'.index[u],
                      i > 1 => tarjan'.index[u] < tarjan'.index[tarjan'.frames[i - 1].node]
               PROVE  tarjan'.low[tarjan'.frames[i].node] <= tarjan'.low[u]
    BY DEF FramesAreLow
  <2>1. CASE i = 1
    <3>1. u = r
      BY <1>1, <1>2, <2>1
    <3> QED
      BY <1>1, <1>2, <2>1, <3>1
  <2>2. CASE i \in 2..(Len(tarjan.frames) + 1)
    <3> DEFINE f == tarjan.frames[i - 1].node
    <3>1. i - 1 \in DOMAIN tarjan.frames /\ tarjan'.frames[i].node = f /\ f \in OnStack
      BY <1>2, <2>2, SearchTypes
    <3>2. u \in OnStack /\ tarjan.index[f] <= tarjan.index[u]
      <4>1. CASE u = r
        <5>1. tarjan'.index[r] < tarjan'.index[tarjan'.frames[i - 1].node]
          BY <2>2, <4>1
        <5>2. CASE i = 2
          BY <1>1, <1>2, <5>1, <5>2
        <5>3. CASE i # 2
          <6>1. i - 1 \in 2..(Len(tarjan.frames) + 1)
            BY <1>2, <2>2, <5>3
          <6>2. tarjan'.frames[i - 1].node \in OnStack
            BY <1>2, <6>1, SearchTypes
          <6> QED
            BY <1>1, <5>1, <6>2
        <5> QED
          BY <5>2, <5>3
      <4> QED
        BY <1>1, <3>1, <4>1
    <3>3. i - 1 > 1 => tarjan.index[u] < tarjan.index[tarjan.frames[i - 1 - 1].node]
      <4>1. ASSUME i - 1 > 1
            PROVE  tarjan.index[u] < tarjan.index[tarjan.frames[i - 1 - 1].node]
        <5>1. i - 1 \in 2..(Len(tarjan.frames) + 1)
          BY <1>2, <2>2, <4>1
        <5>2. tarjan'.frames[i - 1] = tarjan.frames[i - 1 - 1] /\ i - 1 - 1 \in DOMAIN tarjan.frames
          BY <1>2, <5>1
        <5>3. tarjan.frames[i - 1 - 1].node \in OnStack
          BY <5>2, SearchTypes
        <5>4. tarjan'.index[u] < tarjan'.index[tarjan'.frames[i - 1].node]
          BY <2>2
        <5> QED
          BY <1>1, <3>2, <5>2, <5>3, <5>4
      <4> QED
        BY <4>1
    <3>4. tarjan.low[f] <= tarjan.low[u]
      BY <3>1, <3>2, <3>3 DEF FramesAreLow
    <3> QED
      BY <1>1, <3>1, <3>2, <3>4
  <2> QED
    BY <1>2, <2>1, <2>2
<1> QED
  BY <1>1, <1>2, <1>3, <1>4, <1>5, <1>6, <1>7, <1>8

\* Records with the fields of a search, and frames that may lose an edge.
IsSearch(t) == t = [frames |-> t.frames, index |-> t.index, low |-> t.low, stack |-> t.stack]

\* A frame, which stays one of R when w is no longer left.
FitsPast(f, w, R) ==
  f = [node |-> f.node, left |-> f.left] /\ [node |-> f.node, left |-> f.left \ {w}] \in R

\* p is t past an edge, l is p with a link that may be lower.
IsPast(t, p, w, R) ==
  /\ IsSearch(p) /\ p.index = t.index /\ p.low = t.low /\ p.stack = t.stack
  /\ p.frames \in Seq(R) /\ DOMAIN p.frames = DOMAIN t.frames
  /\ p.frames[1].node = t.frames[1].node
  /\ p.frames[1].left = t.frames[1].left \ {w}
  /\ \A i \in DOMAIN t.frames : i # 1 => p.frames[i] = t.frames[i]

\* l is t past the edge to w, and its first node links as low as value.
IsLower(t, l, w, value) ==
  /\ IsSearch(l) /\ l.frames = Past(t, w).frames /\ l.index = t.index /\ l.stack = t.stack
  /\ l.low = [t.low EXCEPT ![t.frames[1].node] = Smaller(t.low[t.frames[1].node], value)]

\* Past an edge, the first frame has one edge less left.
LEMMA PastFields ==
  ASSUME NEW R, NEW w, NEW t, IsSearch(t), t.frames \in Seq(R), t.frames # <<>>,
         FitsPast(t.frames[1], w, R)
  PROVE  IsPast(t, Past(t, w), w, R)
<1> DEFINE first == [node |-> t.frames[1].node, left |-> t.frames[1].left \ {w}]
           p == Past(t, w)
<1>1. [t.frames[1] EXCEPT !.left = t.frames[1].left \ {w}] = first
  <2>1. ASSUME NEW f, f = [node |-> f.node, left |-> f.left]
        PROVE  [f EXCEPT !.left = f.left \ {w}] = [node |-> f.node, left |-> f.left \ {w}]
    <3>1. \A n, l, x : [[node |-> n, left |-> l] EXCEPT !.left = x] = [node |-> n, left |-> x]
      OBVIOUS
    <3>2. [[node |-> f.node, left |-> f.left] EXCEPT !.left = f.left \ {w}]
            = [node |-> f.node, left |-> f.left \ {w}]
      BY <3>1
    <3> QED
      BY <2>1, <3>2, Zenon
  <2> QED
    BY <2>1 DEF FitsPast
<1>2. p = [t EXCEPT !.frames = [t.frames EXCEPT ![1] = [t.frames[1] EXCEPT !.left = t.frames[1].left \ {w}]]]
  BY DEF Past
<1> HIDE DEF first, p
<1>3. p = [t EXCEPT !.frames = [t.frames EXCEPT ![1] = first]]
  BY <1>1, <1>2
<1>4. p = [frames |-> [t.frames EXCEPT ![1] = first], index |-> t.index, low |-> t.low, stack |-> t.stack]
  BY <1>3 DEF IsSearch
<1>5. p.frames = [t.frames EXCEPT ![1] = first]
  BY <1>4
<1>6. 1 \in DOMAIN t.frames
  BY PoppedOff
<1>7. first \in R /\ first.node = t.frames[1].node /\ first.left = t.frames[1].left \ {w}
  BY DEF first, FitsPast
<1>8. p.frames \in Seq(R)
  BY <1>5, <1>6, <1>7
<1>9. DOMAIN p.frames = DOMAIN t.frames /\ p.frames[1] = first
      /\ \A i \in DOMAIN t.frames : i # 1 => p.frames[i] = t.frames[i]
  BY <1>5, <1>6
<1>10. IsSearch(p) /\ p.index = t.index /\ p.low = t.low /\ p.stack = t.stack
  BY <1>4 DEF IsSearch
<1> QED
  BY <1>7, <1>8, <1>9, <1>10 DEF p, IsPast

\* Lowering changes the low link of the first frame's node.
LEMMA LowerFields ==
  ASSUME NEW w, NEW value, NEW t, IsSearch(t)
  PROVE  IsLower(t, Lower(t, w, value), w, value)
<1> DEFINE p == Past(t, w)
           v == t.frames[1].node
<1>1. p = [frames |-> p.frames, index |-> t.index, low |-> t.low, stack |-> t.stack]
  <2>1. p = [t EXCEPT !.frames = [t.frames EXCEPT ![1] = [t.frames[1] EXCEPT !.left = t.frames[1].left \ {w}]]]
    BY DEF Past
  <2> QED
    BY <2>1 DEF IsSearch
<1> HIDE DEF p
<1>2. Lower(t, w, value) = [p EXCEPT !.low = [p.low EXCEPT ![v] = Smaller(p.low[v], value)]]
  BY DEF Lower, p
<1>3. p.low = t.low
  BY <1>1
<1> HIDE DEF v
<1>4. Lower(t, w, value) =
        [frames |-> p.frames, index |-> t.index, low |-> [t.low EXCEPT ![v] = Smaller(t.low[v], value)],
         stack |-> t.stack]
  BY <1>1, <1>2, <1>3
<1>5. /\ IsSearch(Lower(t, w, value)) /\ Lower(t, w, value).frames = p.frames
      /\ Lower(t, w, value).index = t.index /\ Lower(t, w, value).stack = t.stack
      /\ Lower(t, w, value).low = [t.low EXCEPT ![v] = Smaller(t.low[v], value)]
  BY <1>4 DEF IsSearch
<1> QED
  BY <1>5 DEF p, v, IsLower

\* The step past an edge to a visited node.
PassesEdge(w) ==
  /\ tarjan.frames # <<>> /\ w \in tarjan.frames[1].left /\ w \in Visited
  /\ tarjan' = IF w \in OnStack THEN Lower(tarjan, w, tarjan.index[w]) ELSE Past(tarjan, w)

\* Past an edge, one less is left, and the link is as low as the node it leads to.
LEMMA PassFields ==
  ASSUME Numbered, Stacked, Framed, UNCHANGED graph, NEW w, PassesEdge(w)
  PROVE  /\ 1 \in DOMAIN tarjan.frames /\ DOMAIN tarjan'.frames = DOMAIN tarjan.frames
         /\ \A i \in DOMAIN tarjan.frames : tarjan'.frames[i].node = tarjan.frames[i].node
         /\ \A u, x : IsLeft(u, x)' <=> IsLeft(u, x) /\ ~(u = tarjan.frames[1].node /\ x = w)
         /\ \A u : HasFrame(u)' <=> HasFrame(u)
         /\ tarjan'.index = tarjan.index
         /\ Visited' = Visited /\ OnStack' = OnStack /\ Placed' = Placed
         /\ \A u \in Visited :
              tarjan'.low[u] = IF u = tarjan.frames[1].node /\ w \in OnStack
                               THEN Smaller(tarjan.low[u], tarjan.index[w]) ELSE tarjan.low[u]
         /\ Numbered' /\ Stacked' /\ Framed'
<1> DEFINE top == tarjan.frames[1].node
<1>1. /\ tarjan.frames \in Seq([node : OnStack, left : SUBSET Nodes(graph)]) /\ tarjan.frames # <<>>
      /\ IsSearch(tarjan)
  BY DEF Numbered, Framed, PassesEdge, IsSearch
<1>2. /\ IsSearch(Past(tarjan, w))
      /\ Past(tarjan, w).index = tarjan.index /\ Past(tarjan, w).low = tarjan.low
      /\ Past(tarjan, w).stack = tarjan.stack
      /\ Past(tarjan, w).frames \in Seq([node : OnStack, left : SUBSET Nodes(graph)])
      /\ DOMAIN Past(tarjan, w).frames = DOMAIN tarjan.frames
      /\ Past(tarjan, w).frames[1].node = top
      /\ Past(tarjan, w).frames[1].left = tarjan.frames[1].left \ {w}
      /\ \A i \in DOMAIN tarjan.frames : i # 1 => Past(tarjan, w).frames[i] = tarjan.frames[i]
  <2> DEFINE R == [node : OnStack, left : SUBSET Nodes(graph)]
  <2>1. tarjan.frames[1] \in R
    BY <1>1, PoppedOff
  <2>2. FitsPast(tarjan.frames[1], w, R)
    BY <2>1 DEF FitsPast
  <2> HIDE DEF R
  <2>3. tarjan.frames \in Seq(R)
    BY <1>1 DEF R
  <2>4. IsPast(tarjan, Past(tarjan, w), w, R)
    BY <1>1, <2>2, <2>3, PastFields
  <2> QED
    BY <2>4 DEF R, IsPast
<1>3. /\ IsSearch(Lower(tarjan, w, tarjan.index[w]))
      /\ Lower(tarjan, w, tarjan.index[w]).frames = Past(tarjan, w).frames
      /\ Lower(tarjan, w, tarjan.index[w]).index = tarjan.index
      /\ Lower(tarjan, w, tarjan.index[w]).stack = tarjan.stack
      /\ Lower(tarjan, w, tarjan.index[w]).low =
           [tarjan.low EXCEPT ![top] = Smaller(tarjan.low[top], tarjan.index[w])]
  BY <1>1, LowerFields DEF IsLower
<1>4. /\ tarjan' = [frames |-> tarjan'.frames, index |-> tarjan.index, low |-> tarjan'.low,
                    stack |-> tarjan.stack]
      /\ tarjan'.frames = Past(tarjan, w).frames
      /\ tarjan'.low = IF w \in OnStack
                       THEN [tarjan.low EXCEPT ![top] = Smaller(tarjan.low[top], tarjan.index[w])]
                       ELSE tarjan.low
  <2>1. CASE w \in OnStack
    <3>1. tarjan' = Lower(tarjan, w, tarjan.index[w])
      BY <2>1 DEF PassesEdge
    <3> QED
      BY <1>3, <2>1, <3>1 DEF IsSearch
  <2>2. CASE w \notin OnStack
    <3>1. tarjan' = Past(tarjan, w)
      BY <2>2 DEF PassesEdge
    <3> QED
      BY <1>2, <2>2, <3>1 DEF IsSearch
  <2> QED
    BY <2>1, <2>2
<1>5. /\ tarjan'.index = tarjan.index /\ tarjan'.stack = tarjan.stack
      /\ Visited' = Visited /\ OnStack' = OnStack /\ Placed' = Placed
  BY <1>4 DEF Visited, OnStack, Placed
<1>6. /\ 1 \in DOMAIN tarjan.frames /\ DOMAIN tarjan'.frames = DOMAIN tarjan.frames
      /\ tarjan'.frames \in Seq([node : OnStack, left : SUBSET Nodes(graph)])
      /\ tarjan'.frames[1].node = top /\ tarjan'.frames[1].left = tarjan.frames[1].left \ {w}
      /\ \A i \in DOMAIN tarjan.frames : i # 1 => tarjan'.frames[i] = tarjan.frames[i]
  <2>1. 1 \in DOMAIN tarjan.frames
    BY <1>1, PoppedOff
  <2> QED
    BY <1>2, <1>4, <2>1
<1>7. top \in OnStack /\ OnStack \subseteq Visited /\ DOMAIN tarjan.low = Visited
      /\ \A v \in Visited : tarjan.index[v] \in Nat /\ tarjan.low[v] \in Nat
  BY <1>6, SearchTypes
<1> HIDE DEF top
<1>8. \A u \in Visited :
        tarjan'.low[u] = IF u = top /\ w \in OnStack
                         THEN Smaller(tarjan.low[u], tarjan.index[w]) ELSE tarjan.low[u]
  BY <1>4, <1>7
<1>9. \A i \in DOMAIN tarjan.frames : tarjan'.frames[i].node = tarjan.frames[i].node
  BY <1>6 DEF top
<1>10. ASSUME NEW u, NEW x
       PROVE  IsLeft(u, x)' <=> IsLeft(u, x) /\ ~(u = top /\ x = w)
  <2>1. ASSUME IsLeft(u, x)' PROVE IsLeft(u, x) /\ ~(u = top /\ x = w)
    <3>1. PICK i \in DOMAIN tarjan.frames : tarjan'.frames[i].node = u /\ x \in tarjan'.frames[i].left
      BY <1>6, <2>1 DEF IsLeft
    <3>2. x \in tarjan.frames[i].left /\ tarjan.frames[i].node = u /\ (i = 1 => x # w)
      BY <1>6, <1>9, <3>1
    <3>3. u = top => i = 1
      BY <1>6, <3>2, FramesDiffer DEF top
    <3> QED
      BY <3>2, <3>3 DEF IsLeft
  <2>2. ASSUME IsLeft(u, x), ~(u = top /\ x = w) PROVE IsLeft(u, x)'
    <3>1. PICK i \in DOMAIN tarjan.frames : tarjan.frames[i].node = u /\ x \in tarjan.frames[i].left
      BY <2>2 DEF IsLeft
    <3>2. x \in tarjan'.frames[i].left /\ tarjan'.frames[i].node = u
      BY <1>6, <1>9, <2>2, <3>1 DEF top
    <3> QED
      BY <1>6, <3>2 DEF IsLeft
  <2> QED
    BY <2>1, <2>2
<1>11. \A u : HasFrame(u)' <=> HasFrame(u)
  BY <1>6, <1>9 DEF HasFrame
<1>12. Numbered'
  <2>1. \A u \in Visited : tarjan'.low[u] \in Nat
    BY <1>7, <1>8 DEF PassesEdge, Smaller
  <2>2. tarjan'.low \in [Visited -> Nat]
    <3>1. tarjan.low \in [Visited -> Nat]
      BY DEF Numbered
    <3>2. DOMAIN tarjan'.low = Visited /\ tarjan'.low = [x \in Visited |-> tarjan'.low[x]]
      BY <1>4, <3>1
    <3> QED
      BY <2>1, <3>2
  <2> QED
    BY <1>4, <1>5, <2>2 DEF Numbered
<1>13. Stacked'
  BY <1>5 DEF Stacked
<1>14. Framed'
  <2>1. tarjan'.frames \in Seq([node : OnStack', left : SUBSET Nodes(graph)'])
    BY <1>5, <1>6
  <2>2. ASSUME NEW i \in DOMAIN tarjan.frames
        PROVE  tarjan'.frames[i].left \subseteq UpstreamsOf(tarjan.frames[i].node)'
    <3>1. tarjan'.frames[i].left \subseteq tarjan.frames[i].left
      BY <1>6
    <3>2. tarjan'.frames[i].left \subseteq UpstreamsOf(tarjan'.frames[i].node)
      BY <1>9, <3>1, SearchTypes
    <3> QED
      BY <3>2, UpstreamsKept
  <2>3. \A i, j \in DOMAIN tarjan.frames :
          i < j => tarjan'.index[tarjan'.frames[j].node] < tarjan'.index[tarjan'.frames[i].node]
    BY <1>5, <1>9 DEF Framed
  <2>4. ASSUME NEW i \in DOMAIN tarjan.frames, i > 1
        PROVE  tarjan'.frames[i - 1].node \in tarjan'.frames[i].left
    <3>1. i \in 1..Len(tarjan.frames) /\ DOMAIN tarjan.frames = 1..Len(tarjan.frames)
          /\ Len(tarjan.frames) \in Nat
      BY <1>1
    <3>2. i - 1 \in DOMAIN tarjan.frames /\ i # 1
      BY <2>4, <3>1
    <3> QED
      BY <1>6, <1>9, <2>4, <3>2 DEF Framed
  <2> QED
    BY <1>6, <2>1, <2>2, <2>3, <2>4 DEF Framed
<1> QED
  BY <1>5, <1>6, <1>8, <1>9, <1>10, <1>11, <1>12, <1>13, <1>14 DEF top

\* Going past an edge keeps the search.
LEMMA PassKeeps ==
  ASSUME Search, UNCHANGED <<graph, cycles>>, NEW w, PassesEdge(w)
  PROVE  Search'
<1> USE DEF Search
<1> DEFINE top == tarjan.frames[1].node
<1>1. /\ 1 \in DOMAIN tarjan.frames /\ DOMAIN tarjan'.frames = DOMAIN tarjan.frames
      /\ \A i \in DOMAIN tarjan.frames : tarjan'.frames[i].node = tarjan.frames[i].node
      /\ \A u, x : IsLeft(u, x)' <=> IsLeft(u, x) /\ ~(u = top /\ x = w)
      /\ \A u : HasFrame(u)' <=> HasFrame(u)
      /\ tarjan'.index = tarjan.index
      /\ Visited' = Visited /\ OnStack' = OnStack /\ Placed' = Placed
      /\ \A u \in Visited :
           tarjan'.low[u] = IF u = top /\ w \in OnStack
                            THEN Smaller(tarjan.low[u], tarjan.index[w]) ELSE tarjan.low[u]
      /\ Numbered' /\ Stacked' /\ Framed'
  BY PassFields
<1>2. /\ OnStack \subseteq Visited /\ top \in OnStack /\ w \in Visited /\ w \in UpstreamsOf(top)
      /\ \A v \in Visited : tarjan.index[v] \in Nat /\ tarjan.low[v] \in Nat
      /\ DOMAIN tarjan.frames \subseteq Nat
      /\ \A i \in DOMAIN tarjan.frames : tarjan.frames[i].node \in OnStack
  BY <1>1, SearchTypes DEF PassesEdge
<1>3. \A i \in DOMAIN tarjan.frames : tarjan.frames[i].node = top => i = 1
  BY <1>1, FramesDiffer
<1> HIDE DEF top
<1>4. /\ \A u \in Visited : tarjan'.low[u] <= tarjan.low[u] /\ tarjan'.low[u] \in Nat
      /\ \A u \in Visited : u # top => tarjan'.low[u] = tarjan.low[u]
      /\ w \in OnStack => tarjan'.low[top] <= tarjan.index[w]
      /\ \/ tarjan'.low[top] = tarjan.low[top]
         \/ w \in OnStack /\ tarjan'.low[top] = tarjan.index[w]
  BY <1>1, <1>2 DEF Smaller
<1>5. EdgesFollowed'
  <2> SUFFICES ASSUME NEW u \in OnStack, NEW x \in UpstreamsOf(u), ~IsLeft(u, x)'
               PROVE  x \in Visited /\ (x \in OnStack => tarjan'.low[u] <= tarjan.index[x])
    BY <1>1, UpstreamsKept DEF EdgesFollowed
  <2>1. CASE u = top /\ x = w
    BY <1>2, <1>4, <2>1
  <2>2. CASE ~(u = top /\ x = w)
    <3>1. x \in Visited /\ (x \in OnStack => tarjan.low[u] <= tarjan.index[x])
      BY <1>1, <2>2 DEF EdgesFollowed
    <3> QED
      BY <1>2, <1>4, <3>1
  <2> QED
    BY <2>1, <2>2
<1>6. PlacedIsClosed' /\ CyclesSoFar'
  BY <1>1, UpstreamsKept DEF PlacedIsClosed, CyclesSoFar
<1>7. LowIsReached'
  <2> SUFFICES ASSUME NEW v \in OnStack
               PROVE  /\ tarjan'.low[v] <= tarjan.index[v]
                      /\ \E u \in OnStack :
                           tarjan.index[u] = tarjan'.low[v] /\ (u = v \/ u \in AllUpstreams(v))
    BY <1>1, UpstreamsKept DEF LowIsReached
  <2>1. /\ tarjan.low[v] <= tarjan.index[v]
        /\ \E u \in OnStack : tarjan.index[u] = tarjan.low[v] /\ (u = v \/ u \in AllUpstreams(v))
    BY DEF LowIsReached
  <2>2. tarjan'.low[v] <= tarjan.index[v]
    BY <1>2, <1>4, <2>1
  <2>3. CASE tarjan'.low[v] = tarjan.low[v]
    BY <2>1, <2>2, <2>3
  <2>4. CASE tarjan'.low[v] # tarjan.low[v]
    <3>1. v = top /\ w \in OnStack /\ tarjan'.low[v] = tarjan.index[w]
      BY <1>2, <1>4, <2>4
    <3>2. w \in AllUpstreams(v)
      BY <1>2, <3>1, AllUpstreamsClosed
    <3> QED
      BY <2>2, <3>1, <3>2
  <2> QED
    BY <2>3, <2>4
<1>8. LeftAreNoRoots'
  <2> SUFFICES ASSUME NEW v \in OnStack
               PROVE  HasFrame(v) \/ tarjan'.low[v] < tarjan.index[v]
    BY <1>1 DEF LeftAreNoRoots
  <2> QED
    BY <1>2, <1>4 DEF LeftAreNoRoots
<1>9. FramesReach'
  <2> SUFFICES ASSUME NEW i \in DOMAIN tarjan.frames, NEW v \in OnStack,
                      tarjan.index[tarjan.frames[i].node] < tarjan.index[v]
               PROVE  v \in AllUpstreams(tarjan.frames[i].node)'
    BY <1>1 DEF FramesReach
  <2>1. v \in AllUpstreams(tarjan'.frames[i].node)
    BY <1>1 DEF FramesReach
  <2> QED
    BY <2>1, UpstreamsKept
<1>10. FramesAreLow'
  <2> SUFFICES ASSUME NEW i \in DOMAIN tarjan.frames, NEW u \in OnStack,
                      tarjan.index[tarjan.frames[i].node] <= tarjan.index[u],
                      i > 1 => tarjan.index[u] < tarjan.index[tarjan'.frames[i - 1].node]
               PROVE  tarjan'.low[tarjan.frames[i].node] <= tarjan'.low[u]
    BY <1>1 DEF FramesAreLow
  <2>1. i > 1 => i - 1 \in DOMAIN tarjan.frames
    <3>1. tarjan.frames \in Seq(Frame)
      BY SearchTypes
    <3> QED
      BY <3>1
  <2>2. i > 1 => tarjan.index[u] < tarjan.index[tarjan.frames[i - 1].node]
    BY <1>1, <2>1
  <2>3. tarjan.low[tarjan.frames[i].node] <= tarjan.low[u]
    BY <2>2 DEF FramesAreLow
  <2>4. CASE u # top
    BY <1>2, <1>4, <2>3, <2>4
  <2>5. CASE u = top /\ i = 1
    BY <1>2, <1>4, <2>5 DEF top
  <2>6. CASE u = top /\ i # 1
    <3>1. i > 1 /\ i - 1 \in DOMAIN tarjan.frames /\ i - 1 >= 1
      BY <1>2, <2>1, <2>6, SearchTypes
    <3>2. tarjan.frames[i - 1].node \in Visited
      BY <1>2, <3>1
    <3>3. CASE i - 1 = 1
      BY <1>2, <2>2, <2>6, <3>1, <3>3 DEF top
    <3>4. CASE 1 < i - 1
      <4>1. tarjan.index[tarjan.frames[i - 1].node] < tarjan.index[top]
        BY <1>1, <3>1, <3>4 DEF Framed, top
      <4> QED
        BY <1>2, <2>2, <2>6, <3>1, <3>2, <4>1
    <3> QED
      BY <1>2, <3>1, <3>3, <3>4
  <2> QED
    BY <2>4, <2>5, <2>6
<1> QED
  BY <1>1, <1>5, <1>6, <1>7, <1>8, <1>9, <1>10

\* The place of a node on the stack.
PlaceOf(v) == CHOOSE i \in DOMAIN tarjan.stack : tarjan.stack[i] = v

\* The nodes on the stack that were numbered from v on.
Above(v) == {u \in OnStack : tarjan.index[v] <= tarjan.index[u]}

\* The stack under v: what was numbered before v.
Below(v) == SubSeq(tarjan.stack, PlaceOf(v) + 1, Len(tarjan.stack))

\* The rest of the stack below a place.
LEMMA StackBelow ==
  ASSUME NEW S, NEW s \in Seq(S), NEW n \in 1..Len(s)
  PROVE  /\ SubSeq(s, n + 1, Len(s)) \in Seq(S)
         /\ DOMAIN SubSeq(s, n + 1, Len(s)) = 1..(Len(s) - n)
         /\ \A i \in 1..(Len(s) - n) :
              i + n \in 1..Len(s) /\ SubSeq(s, n + 1, Len(s))[i] = s[i + n]
         /\ DOMAIN SubSeq(s, 1, n) = 1..n /\ Len(SubSeq(s, 1, n)) = n
         /\ \A i \in 1..n : i \in 1..Len(s) /\ SubSeq(s, 1, n)[i] = s[i]
OBVIOUS

\* Down to a node, the stack has those numbered from it on; below are the others.
LEMMA StackParts ==
  ASSUME Numbered, Stacked, Framed, NEW v \in OnStack
  PROVE  /\ ToSet(Popped(tarjan, v)) = Above(v) /\ Len(Popped(tarjan, v)) = PlaceOf(v)
         /\ Len(Popped(tarjan, v)) > 1 <=> Above(v) # {v}
         /\ ToSet(Below(v)) = OnStack \ Above(v) /\ Below(v) \in Seq(Visited)
         /\ \A i, j \in DOMAIN Below(v) :
              i < j => tarjan.index[Below(v)[j]] < tarjan.index[Below(v)[i]]
<1> DEFINE s == tarjan.stack
           n == PlaceOf(v)
           rest == Below(v)
           top  == Popped(tarjan, v)
<1>1. n \in DOMAIN s /\ s[n] = v
  BY DEF OnStack, ToSet, PlaceOf
<1>2. s \in Seq(Visited) /\ DOMAIN s = 1..Len(s) /\ Len(s) \in Nat /\ v \in Visited
      /\ \A u \in Visited : tarjan.index[u] \in Nat
  BY SearchTypes
<1>12. rest = SubSeq(s, n + 1, Len(s)) /\ top = SubSeq(s, 1, n)
  BY DEF Below, Popped, PlaceOf
<1> HIDE DEF n, rest, top
<1>3. n \in 1..Len(s)
  BY <1>1, <1>2
<1>4. /\ rest \in Seq(Visited) /\ DOMAIN rest = 1..(Len(s) - n)
      /\ \A i \in 1..(Len(s) - n) : i + n \in 1..Len(s) /\ rest[i] = s[i + n]
      /\ DOMAIN top = 1..n /\ Len(top) = n
      /\ \A i \in 1..n : i \in 1..Len(s) /\ top[i] = s[i]
  BY <1>2, <1>3, <1>12, StackBelow
<1>5. \A i, j \in DOMAIN s : i < j => tarjan.index[s[j]] < tarjan.index[s[i]]
  BY DEF Stacked
<1>6. \A i \in DOMAIN s : s[i] \in Visited /\ tarjan.index[s[i]] \in Nat /\ i \in Nat
  BY <1>2
<1> HIDE DEF s
<1>7. \A i \in DOMAIN s : tarjan.index[v] <= tarjan.index[s[i]] <=> i <= n
  BY <1>1, <1>3, <1>5, <1>6
<1>8. ToSet(top) = Above(v)
  <2>1. ASSUME NEW i \in DOMAIN top PROVE top[i] \in Above(v)
    <3>1. i \in DOMAIN s /\ top[i] = s[i] /\ i <= n
      BY <1>2, <1>4, <2>1
    <3> QED
      BY <1>7, <3>1 DEF ToSet, Above, OnStack, s
  <2>2. ASSUME NEW u \in Above(v) PROVE u \in ToSet(top)
    <3>1. PICK i \in DOMAIN s : s[i] = u
      BY <2>2 DEF Above, OnStack, ToSet, s
    <3>2. i <= n
      BY <1>7, <2>2, <3>1 DEF Above
    <3>3. i \in 1..n
      BY <1>2, <3>2
    <3> QED
      BY <1>4, <3>1, <3>3 DEF ToSet
  <2> QED
    BY <2>1, <2>2 DEF ToSet
<1>9. n > 1 <=> Above(v) # {v}
  <2>1. ASSUME n > 1 PROVE Above(v) # {v}
    <3>1. 1 \in 1..n /\ 1 \in DOMAIN s
      BY <1>2, <1>3, <2>1
    <3>2. tarjan.index[v] < tarjan.index[s[1]]
      BY <1>1, <1>5, <2>1, <3>1
    <3>3. s[1] \in Above(v)
      BY <1>4, <1>8, <3>1 DEF ToSet
    <3> QED
      BY <1>6, <3>1, <3>2, <3>3
  <2>2. ASSUME ~(n > 1) PROVE Above(v) = {v}
    <3>1. n = 1 /\ 1..n = {1}
      BY <1>2, <1>3, <2>2
    <3> QED
      BY <1>1, <1>4, <1>8, <3>1 DEF ToSet
  <2> QED
    BY <2>1, <2>2
<1>10. ToSet(rest) = OnStack \ Above(v)
  <2>1. ASSUME NEW i \in DOMAIN rest PROVE rest[i] \in OnStack \ Above(v)
    <3>1. i + n \in DOMAIN s /\ rest[i] = s[i + n] /\ ~(i + n <= n)
      BY <1>2, <1>3, <1>4, <2>1
    <3> QED
      BY <1>7, <3>1 DEF Above, OnStack, ToSet, s
  <2>2. ASSUME NEW u \in OnStack \ Above(v) PROVE u \in ToSet(rest)
    <3>1. PICK i \in DOMAIN s : s[i] = u
      BY <2>2 DEF OnStack, ToSet, s
    <3>2. ~(i <= n)
      BY <1>7, <2>2, <3>1 DEF Above
    <3>3. i - n \in 1..(Len(s) - n) /\ (i - n) + n = i
      BY <1>2, <1>3, <3>2
    <3> QED
      BY <1>4, <3>1, <3>3 DEF ToSet
  <2> QED
    BY <2>1, <2>2 DEF ToSet
<1>11. ASSUME NEW i \in DOMAIN rest, NEW j \in DOMAIN rest, i < j
       PROVE  tarjan.index[rest[j]] < tarjan.index[rest[i]]
  <2>1. i + n \in DOMAIN s /\ j + n \in DOMAIN s /\ i + n < j + n
    BY <1>2, <1>3, <1>4, <1>11
  <2>2. rest[i] = s[i + n] /\ rest[j] = s[j + n]
    BY <1>4, <1>11
  <2> QED
    BY <1>5, <2>1, <2>2
<1> QED
  BY <1>4, <1>8, <1>9, <1>10, <1>11 DEF rest, top, n, s

\* The node that is left, the one that called it, and whether it is a root.
TopNode == tarjan.frames[1].node
Caller  == tarjan.frames[2].node
IsRoot  == tarjan.low[TopNode] = tarjan.index[TopNode]

\* A search with other frames and another stack.
LEMMA TwoFields ==
  ASSUME NEW t, IsSearch(t), NEW x, NEW y
  PROVE  [t EXCEPT !.frames = x, !.stack = y]
           = [frames |-> x, index |-> t.index, low |-> t.low, stack |-> y]
<1> DEFINE q == [t EXCEPT !.frames = x]
           p == [q EXCEPT !.stack = y]
<1>1. [t EXCEPT !.frames = x, !.stack = y] = p
  OBVIOUS
<1>2. q = [frames |-> x, index |-> t.index, low |-> t.low, stack |-> t.stack]
  BY DEF IsSearch
<1>3. p = [frames |-> x, index |-> t.index, low |-> t.low, stack |-> y]
  <2> HIDE DEF q
  <2> QED
    BY <1>2
<1> QED
  BY <1>1, <1>3

\* What leaving a node does to the frames, the stack, the links and the cycles.
LEMMA ReturnFields ==
  ASSUME Numbered, Stacked, Framed, Return
  PROVE  /\ DOMAIN tarjan.frames = 1..Len(tarjan.frames) /\ Len(tarjan.frames) \in Nat \ {0}
         /\ tarjan.frames[1].left = {} /\ TopNode \in OnStack
         /\ UNCHANGED <<graph, stage>> /\ IsSearch(tarjan') /\ tarjan'.index = tarjan.index
         /\ tarjan'.stack = IF IsRoot THEN Below(TopNode) ELSE tarjan.stack
         /\ tarjan'.low \in [Visited -> Nat]
         /\ \A u \in Visited :
              tarjan'.low[u] = IF Len(tarjan.frames) > 1 /\ u = Caller
                               THEN Smaller(tarjan.low[u], tarjan.low[TopNode]) ELSE tarjan.low[u]
         /\ DOMAIN tarjan'.frames = 1..(Len(tarjan.frames) - 1)
         /\ tarjan'.frames \in Seq([node : OnStack, left : SUBSET Nodes(graph)])
         /\ \A i \in DOMAIN tarjan'.frames :
              /\ i + 1 \in DOMAIN tarjan.frames
              /\ tarjan'.frames[i].node = tarjan.frames[i + 1].node
              /\ tarjan'.frames[i].left =
                   tarjan.frames[i + 1].left \ (IF i = 1 THEN {TopNode} ELSE {})
         /\ cycles' = IF IsRoot /\ Above(TopNode) # {TopNode}
                      THEN cycles \cup {Above(TopNode)} ELSE cycles
<1> DEFINE t == tarjan
           R == [node : OnStack, left : SUBSET Nodes(graph)]
           comp == Popped(t, TopNode)
           stack == IF IsRoot THEN SubSeq(t.stack, Len(comp) + 1, Len(t.stack)) ELSE t.stack
           out == [t EXCEPT !.frames = Tail(t.frames), !.stack = stack]
<1>1. /\ t.frames \in Seq(R) /\ t.frames # <<>> /\ t = [frames |-> t.frames, index |-> t.index,
                                                         low |-> t.low, stack |-> t.stack]
  BY DEF Framed, Numbered, Return
<1>2. Head(t.frames) = t.frames[1]
  BY <1>1
<1>3. /\ t.frames[1].left = {} /\ UNCHANGED <<graph, stage>>
      /\ tarjan' = IF out.frames = <<>> THEN out ELSE Lower(out, TopNode, t.low[TopNode])
      /\ cycles' = IF IsRoot /\ Len(comp) > 1 THEN cycles \cup {ToSet(comp)} ELSE cycles
  BY <1>2 DEF Return, IsRoot, TopNode
<1>4. /\ Tail(t.frames) \in Seq(R) /\ Len(Tail(t.frames)) = Len(t.frames) - 1
      /\ Len(t.frames) \in Nat \ {0}
      /\ DOMAIN Tail(t.frames) = 1..(Len(t.frames) - 1) /\ DOMAIN t.frames = 1..Len(t.frames)
      /\ t.frames[1] \in R
      /\ \A i \in DOMAIN Tail(t.frames) : i + 1 \in DOMAIN t.frames /\ Tail(t.frames)[i] = t.frames[i + 1]
  <2> HIDE DEF R, t
  <2> QED
    BY <1>1, PoppedOff
<1>5. out = [frames |-> Tail(t.frames), index |-> t.index, low |-> t.low, stack |-> stack]
  <2>1. \A x, y : [t EXCEPT !.frames = x, !.stack = y]
                     = [frames |-> x, index |-> t.index, low |-> t.low, stack |-> y]
    <3>1. IsSearch(t)
      BY <1>1 DEF IsSearch
    <3> QED
      BY <3>1, TwoFields, Zenon
  <2> HIDE DEF stack
  <2> QED
    BY <2>1, Zenon
<1>6. /\ IsSearch(out) /\ out.frames = Tail(t.frames) /\ out.index = t.index /\ out.low = t.low
      /\ out.stack = stack
  <2> HIDE DEF stack, t
  <2> QED
    BY <1>5 DEF IsSearch
<1>7. TopNode \in OnStack
  BY <1>4 DEF TopNode
<1>8. stack = IF IsRoot THEN Below(TopNode) ELSE t.stack
  BY <1>7, StackParts DEF Below
<1>9. cycles' = IF IsRoot /\ Above(TopNode) # {TopNode} THEN cycles \cup {Above(TopNode)} ELSE cycles
  BY <1>3, <1>7, StackParts
<1>10. IsRoot \in BOOLEAN
  BY DEF IsRoot
<1>13. /\ OnStack \subseteq Visited /\ DOMAIN t.low = Visited
       /\ \A u \in Visited : t.low[u] \in Nat
  BY SearchTypes
<1> HIDE DEF out, stack, comp, R
<1>11. CASE Len(t.frames) = 1
  <2>1. out.frames = <<>>
    BY <1>4, <1>6, <1>11
  <2>2. tarjan' = out
    BY <1>3, <2>1
  <2>3. /\ DOMAIN tarjan'.frames = 1..(Len(t.frames) - 1)
        /\ ~\E i : i \in DOMAIN tarjan'.frames
    <3>1. 1..(Len(t.frames) - 1) = {}
      BY <1>4, <1>11
    <3> QED
      BY <1>4, <1>6, <2>2, <3>1
  <2>4. /\ tarjan'.low \in [Visited -> Nat] /\ ~(Len(t.frames) > 1)
        /\ \A u \in Visited : tarjan'.low[u] = t.low[u]
    BY <1>6, <1>11, <2>2 DEF Numbered
  <2>5. tarjan'.frames \in Seq(R) /\ IsSearch(tarjan') /\ tarjan'.index = t.index
        /\ tarjan'.stack = stack
    BY <1>4, <1>6, <2>2
  <2> QED
    BY <1>3, <1>4, <1>7, <1>8, <1>9, <2>3, <2>4, <2>5 DEF R
<1>12. CASE Len(t.frames) # 1
  <2>1. /\ Len(t.frames) > 1 /\ 1 \in DOMAIN Tail(t.frames) /\ Tail(t.frames)[1] = t.frames[2]
        /\ Tail(t.frames) # <<>> /\ t.frames[2] \in R
    <3>1. Len(t.frames) > 1 /\ 1 \in DOMAIN Tail(t.frames) /\ 2 \in DOMAIN t.frames
      <4>1. ASSUME NEW n \in Nat \ {0}, n # 1 PROVE n > 1 /\ 1 \in 1..(n - 1) /\ 2 \in 1..n
        BY <4>1
      <4> QED
        BY <1>4, <1>12, <4>1
    <3>2. t.frames[2] \in R
      BY <1>1, <3>1, SeqElement
    <3>3. Tail(t.frames)[1] = t.frames[1 + 1] /\ 1 + 1 = 2
      BY <1>4, <3>1
    <3>4. Tail(t.frames) # <<>>
      BY <1>4, <3>1
    <3> QED
      BY <3>1, <3>2, <3>3, <3>4
  <2>2. tarjan' = Lower(out, TopNode, t.low[TopNode])
    BY <1>3, <1>6, <2>1
  <2>3. FitsPast(out.frames[1], TopNode, R)
    BY <1>6, <2>1 DEF FitsPast, R
  <2>4. /\ Past(out, TopNode).frames \in Seq(R)
        /\ DOMAIN Past(out, TopNode).frames = DOMAIN out.frames
        /\ Past(out, TopNode).frames[1].node = out.frames[1].node
        /\ Past(out, TopNode).frames[1].left = out.frames[1].left \ {TopNode}
        /\ \A i \in DOMAIN out.frames : i # 1 => Past(out, TopNode).frames[i] = out.frames[i]
    <3>1. out.frames \in Seq(R) /\ out.frames # <<>>
      BY <1>4, <1>6, <2>1
    <3>2. IsPast(out, Past(out, TopNode), TopNode, R)
      BY <1>6, <2>3, <3>1, PastFields
    <3> QED
      BY <3>2 DEF IsPast
  <2>5. /\ IsSearch(Lower(out, TopNode, t.low[TopNode]))
        /\ Lower(out, TopNode, t.low[TopNode]).frames = Past(out, TopNode).frames
        /\ Lower(out, TopNode, t.low[TopNode]).index = out.index
        /\ Lower(out, TopNode, t.low[TopNode]).stack = out.stack
        /\ Lower(out, TopNode, t.low[TopNode]).low =
             [out.low EXCEPT ![out.frames[1].node] =
                Smaller(out.low[out.frames[1].node], t.low[TopNode])]
    <3>1. IsLower(out, Lower(out, TopNode, t.low[TopNode]), TopNode, t.low[TopNode])
      BY <1>6, LowerFields
    <3> QED
      BY <3>1 DEF IsLower
  <2>6. out.frames[1].node = Caller /\ Caller \in OnStack
    BY <1>6, <2>1 DEF Caller, R
  <2>7. /\ tarjan'.low \in [Visited -> Nat]
        /\ \A u \in Visited :
             tarjan'.low[u] = IF u = Caller THEN Smaller(t.low[u], t.low[TopNode]) ELSE t.low[u]
    <3>1. tarjan'.low = [out.low EXCEPT ![Caller] = Smaller(out.low[Caller], t.low[TopNode])]
      BY <2>2, <2>5, <2>6
    <3>2. t.low \in [Visited -> Nat] /\ out.low = t.low
      BY <1>6 DEF Numbered
    <3>3. Smaller(t.low[Caller], t.low[TopNode]) \in Nat
      BY <1>7, <1>13, <2>6 DEF Smaller
    <3> QED
      BY <1>13, <2>6, <3>1, <3>2, <3>3
  <2>11. /\ IsSearch(tarjan') /\ tarjan'.frames = Past(out, TopNode).frames
         /\ tarjan'.index = t.index /\ tarjan'.stack = stack
    BY <1>6, <2>2, <2>5
  <2>8. ASSUME NEW i \in DOMAIN tarjan'.frames
        PROVE  /\ i + 1 \in DOMAIN t.frames /\ tarjan'.frames[i].node = t.frames[i + 1].node
               /\ tarjan'.frames[i].left = t.frames[i + 1].left \ (IF i = 1 THEN {TopNode} ELSE {})
    <3>1. i \in DOMAIN Tail(t.frames) /\ i + 1 \in DOMAIN t.frames /\ Tail(t.frames)[i] = t.frames[i + 1]
      BY <1>4, <1>6, <2>4, <2>8, <2>11
    <3>2. CASE i = 1
      BY <1>6, <2>4, <2>11, <3>1, <3>2
    <3>3. CASE i # 1
      <4>1. tarjan'.frames[i] = t.frames[i + 1]
        BY <1>6, <2>4, <2>11, <3>1, <3>3
      <4> QED
        BY <3>1, <3>3, <4>1
    <3> QED
      BY <3>2, <3>3
  <2>9. DOMAIN tarjan'.frames = 1..(Len(t.frames) - 1)
    BY <1>4, <1>6, <2>4, <2>11
  <2>10. tarjan'.frames \in Seq(R)
    BY <2>4, <2>11
  <2> QED
    BY <1>3, <1>4, <1>7, <1>8, <1>9, <2>1, <2>7, <2>8, <2>9, <2>10, <2>11 DEF R
<1> QED
  BY <1>11, <1>12

\* The frames below the top one are of earlier nodes; the caller has the edge.
LEMMA LowerFrames ==
  ASSUME Numbered, Stacked, Framed, tarjan.frames # <<>>
  PROVE  /\ TopNode \in Above(TopNode) /\ Above(TopNode) \subseteq OnStack
         /\ OnStack \subseteq Visited /\ Visited \subseteq Nodes(graph)
         /\ \A u \in Visited : tarjan.index[u] \in Nat /\ tarjan.low[u] \in Nat
         /\ 1 \in DOMAIN tarjan.frames
         /\ \A i \in DOMAIN tarjan.frames :
              /\ i \in Nat \ {0} /\ tarjan.frames[i].node \in OnStack
              /\ i # 1 => tarjan.index[tarjan.frames[i].node] < tarjan.index[TopNode]
              /\ tarjan.frames[i].node \in Above(TopNode) => i = 1
         /\ Len(tarjan.frames) > 1 =>
              /\ 2 \in DOMAIN tarjan.frames /\ Caller \in OnStack /\ Caller # TopNode
              /\ tarjan.index[Caller] < tarjan.index[TopNode]
              /\ TopNode \in tarjan.frames[2].left /\ TopNode \in UpstreamsOf(Caller)
<1>1. /\ OnStack \subseteq Visited /\ Visited \subseteq Nodes(graph)
      /\ \A u \in Visited : tarjan.index[u] \in Nat /\ tarjan.low[u] \in Nat
      /\ \A i \in DOMAIN tarjan.frames :
           /\ i \in 1..Len(tarjan.frames) /\ tarjan.frames[i].node \in OnStack
           /\ tarjan.frames[i].left \subseteq UpstreamsOf(tarjan.frames[i].node)
  BY SearchTypes
<1>2. /\ 1 \in DOMAIN tarjan.frames /\ DOMAIN tarjan.frames = 1..Len(tarjan.frames)
      /\ Len(tarjan.frames) \in Nat
  <2>1. tarjan.frames \in Seq(Frame)
    BY SearchTypes
  <2> QED
    BY <2>1, PoppedOff
<1>3. TopNode \in OnStack /\ TopNode \in Above(TopNode) /\ Above(TopNode) \subseteq OnStack
  BY <1>1, <1>2 DEF TopNode, Above
<1>4. ASSUME NEW i \in DOMAIN tarjan.frames
      PROVE  /\ i \in Nat \ {0} /\ tarjan.frames[i].node \in OnStack
             /\ i # 1 => tarjan.index[tarjan.frames[i].node] < tarjan.index[TopNode]
  <2>1. i \in Nat \ {0} /\ (i # 1 => 1 < i)
    BY <1>2
  <2>2. i # 1 => tarjan.index[tarjan.frames[i].node] < tarjan.index[tarjan.frames[1].node]
    BY <1>2, <2>1 DEF Framed
  <2> QED
    BY <1>1, <2>1, <2>2 DEF TopNode
<1>5. ASSUME NEW i \in DOMAIN tarjan.frames, tarjan.frames[i].node \in Above(TopNode)
      PROVE  i = 1
  <2>1. ~(tarjan.index[tarjan.frames[i].node] < tarjan.index[TopNode])
    BY <1>1, <1>3, <1>5 DEF Above
  <2> QED
    BY <1>4, <2>1
<1>6. ASSUME Len(tarjan.frames) > 1
      PROVE  /\ 2 \in DOMAIN tarjan.frames /\ Caller \in OnStack /\ Caller # TopNode
             /\ tarjan.index[Caller] < tarjan.index[TopNode]
             /\ TopNode \in tarjan.frames[2].left /\ TopNode \in UpstreamsOf(Caller)
  <2>1. 2 \in DOMAIN tarjan.frames /\ 2 > 1 /\ 2 - 1 = 1
    BY <1>2, <1>6
  <2>2. TopNode \in tarjan.frames[2].left
    BY <2>1 DEF Framed, TopNode
  <2>3. Caller \in OnStack /\ tarjan.index[Caller] < tarjan.index[TopNode]
    BY <1>4, <2>1 DEF Caller
  <2>4. Caller # TopNode
    BY <1>1, <1>3, <2>3
  <2> QED
    BY <1>1, <2>1, <2>2, <2>3, <2>4 DEF Caller
<1> QED
  BY <1>1, <1>2, <1>3, <1>4, <1>5, <1>6

\* Leaving a node takes its frame away; a root takes what is above it along.
LEMMA ReturnParts ==
  ASSUME Numbered, Stacked, Framed, Return
  PROVE  /\ Visited' = Visited
         /\ OnStack' = IF IsRoot THEN OnStack \ Above(TopNode) ELSE OnStack
         /\ Placed' = IF IsRoot THEN Placed \cup Above(TopNode) ELSE Placed
         /\ \A u, w : IsLeft(u, w)' <=>
              IsLeft(u, w) /\ ~(Len(tarjan.frames) > 1 /\ u = Caller /\ w = TopNode)
         /\ \A u : HasFrame(u)' <=> HasFrame(u) /\ u # TopNode
         /\ Numbered' /\ Stacked' /\ Framed'
<1> DEFINE v == TopNode
           n == Len(tarjan.frames)
<1>1. /\ DOMAIN tarjan.frames = 1..n /\ n \in Nat \ {0}
      /\ tarjan.frames[1].left = {} /\ v \in OnStack
      /\ UNCHANGED graph /\ IsSearch(tarjan') /\ tarjan'.index = tarjan.index
      /\ tarjan'.stack = IF IsRoot THEN Below(v) ELSE tarjan.stack
      /\ tarjan'.low \in [Visited -> Nat]
      /\ DOMAIN tarjan'.frames = 1..(n - 1)
      /\ tarjan'.frames \in Seq([node : OnStack, left : SUBSET Nodes(graph)])
      /\ \A i \in DOMAIN tarjan'.frames :
           /\ i + 1 \in DOMAIN tarjan.frames
           /\ tarjan'.frames[i].node = tarjan.frames[i + 1].node
           /\ tarjan'.frames[i].left = tarjan.frames[i + 1].left \ (IF i = 1 THEN {v} ELSE {})
  BY ReturnFields
<1>2. tarjan.frames # <<>>
  BY DEF Return
<1>3. /\ v \in Above(v) /\ Above(v) \subseteq OnStack /\ OnStack \subseteq Visited
      /\ \A u \in Visited : tarjan.index[u] \in Nat
      /\ \A i \in DOMAIN tarjan.frames :
           /\ i \in Nat \ {0} /\ tarjan.frames[i].node \in OnStack
           /\ i # 1 => tarjan.index[tarjan.frames[i].node] < tarjan.index[v]
           /\ tarjan.frames[i].node \in Above(v) => i = 1
      /\ n > 1 => 2 \in DOMAIN tarjan.frames /\ Caller \in OnStack /\ Caller # v
  BY <1>2, LowerFrames
<1>4. /\ ToSet(Below(v)) = OnStack \ Above(v) /\ Below(v) \in Seq(Visited)
      /\ \A i, j \in DOMAIN Below(v) : i < j => tarjan.index[Below(v)[j]] < tarjan.index[Below(v)[i]]
  BY <1>1, StackParts
<1>5. Visited' = Visited
  BY <1>1 DEF Visited
<1>6. OnStack' = IF IsRoot THEN OnStack \ Above(v) ELSE OnStack
  BY <1>1, <1>4 DEF OnStack
<1>7. Placed' = IF IsRoot THEN Placed \cup Above(v) ELSE Placed
  BY <1>3, <1>5, <1>6 DEF Placed
<1>8. Stacked'
  BY <1>1, <1>4, <1>5 DEF Stacked
<1>9. Numbered'
  <2>1. tarjan' = [frames |-> tarjan'.frames, index |-> tarjan'.index, low |-> tarjan'.low,
                   stack |-> tarjan'.stack]
    BY <1>1 DEF IsSearch
  <2> QED
    BY <1>1, <1>5, <2>1 DEF Numbered
<1>10. tarjan.frames[1].node = v
  BY DEF TopNode
<1>15. n > 1 => tarjan.frames[2].node = Caller
  BY DEF Caller
<1> HIDE DEF n, v
<1>11. \A i \in DOMAIN tarjan.frames : i # 1 =>
         i - 1 \in DOMAIN tarjan'.frames /\ (i - 1) + 1 = i /\ (i - 1 = 1 <=> i = 2)
  BY <1>1
<1>12. ASSUME NEW u, NEW w
       PROVE  IsLeft(u, w)' <=> IsLeft(u, w) /\ ~(n > 1 /\ u = Caller /\ w = v)
  <2>1. ASSUME IsLeft(u, w)' PROVE IsLeft(u, w) /\ ~(n > 1 /\ u = Caller /\ w = v)
    <3>1. PICK i \in DOMAIN tarjan'.frames : tarjan'.frames[i].node = u /\ w \in tarjan'.frames[i].left
      BY <2>1 DEF IsLeft
    <3>2. /\ i + 1 \in DOMAIN tarjan.frames /\ tarjan.frames[i + 1].node = u
          /\ w \in tarjan.frames[i + 1].left /\ (i = 1 => w # v)
      BY <1>1, <3>1
    <3>3. n > 1 /\ u = Caller => i + 1 = 2
      BY <1>3, <1>15, <3>2, FramesDiffer
    <3>4. i + 1 = 2 => i = 1
      BY <1>1
    <3> QED
      BY <3>2, <3>3, <3>4 DEF IsLeft
  <2>2. ASSUME IsLeft(u, w), ~(n > 1 /\ u = Caller /\ w = v) PROVE IsLeft(u, w)'
    <3>1. PICK i \in DOMAIN tarjan.frames : tarjan.frames[i].node = u /\ w \in tarjan.frames[i].left
      BY <2>2 DEF IsLeft
    <3>2. i # 1
      BY <1>1, <3>1
    <3>3. i - 1 \in DOMAIN tarjan'.frames /\ (i - 1) + 1 = i /\ (i - 1 = 1 <=> i = 2)
      BY <1>11, <3>2
    <3>4. i = 2 => n > 1
      BY <1>1
    <3>5. ~(i = 2 /\ w = v)
      BY <1>15, <2>2, <3>1, <3>4
    <3>6. tarjan'.frames[i - 1].node = u /\ w \in tarjan'.frames[i - 1].left
      BY <1>1, <3>1, <3>3, <3>5
    <3> QED
      BY <3>3, <3>6 DEF IsLeft
  <2> QED
    BY <2>1, <2>2
<1>13. ASSUME NEW u
       PROVE  HasFrame(u)' <=> HasFrame(u) /\ u # v
  <2>1. ASSUME HasFrame(u)' PROVE HasFrame(u) /\ u # v
    <3>1. PICK i \in DOMAIN tarjan'.frames : tarjan'.frames[i].node = u
      BY <2>1 DEF HasFrame
    <3>2. i + 1 \in DOMAIN tarjan.frames /\ tarjan.frames[i + 1].node = u /\ i + 1 # 1
      BY <1>1, <3>1
    <3> QED
      BY <1>3, <3>2 DEF HasFrame
  <2>2. ASSUME HasFrame(u), u # v PROVE HasFrame(u)'
    <3>1. PICK i \in DOMAIN tarjan.frames : tarjan.frames[i].node = u
      BY <2>2 DEF HasFrame
    <3>2. i # 1
      BY <1>10, <2>2, <3>1
    <3>3. i - 1 \in DOMAIN tarjan'.frames /\ tarjan'.frames[i - 1].node = u
      BY <1>1, <1>11, <3>1, <3>2
    <3> QED
      BY <3>3 DEF HasFrame
  <2> QED
    BY <2>1, <2>2
<1>14. Framed'
  <2>1. tarjan'.frames \in Seq([node : OnStack', left : SUBSET Nodes(graph)'])
    <3> DEFINE R == [node : OnStack, left : SUBSET Nodes(graph)]
               Q == [node : OnStack', left : SUBSET Nodes(graph)']
    <3>1. ASSUME NEW i \in DOMAIN tarjan'.frames PROVE tarjan'.frames[i] \in Q
      <4>1. /\ i + 1 \in DOMAIN tarjan.frames /\ i + 1 # 1
            /\ tarjan'.frames[i].node = tarjan.frames[i + 1].node
        BY <1>1, <3>1
      <4>2. tarjan'.frames[i].node \in OnStack'
        BY <1>3, <1>6, <4>1
      <4>3. tarjan'.frames[i] \in R
        BY <1>1, <3>1, SeqElement
      <4> QED
        BY <1>1, <4>2, <4>3
    <3>2. ASSUME NEW S, NEW T, NEW s \in Seq(S), \A i \in DOMAIN s : s[i] \in T
          PROVE  s \in Seq(T)
      BY <3>2
    <3>3. tarjan'.frames \in Seq(R)
      BY <1>1
    <3> HIDE DEF R, Q
    <3>4. tarjan'.frames \in Seq(Q)
      BY <3>1, <3>2, <3>3
    <3> QED
      BY <3>4 DEF Q
  <2>2. ASSUME NEW i \in DOMAIN tarjan'.frames
        PROVE  tarjan'.frames[i].left \subseteq UpstreamsOf(tarjan.frames[i].node)'
    <3>1. i + 1 \in DOMAIN tarjan.frames /\ tarjan'.frames[i].node = tarjan.frames[i + 1].node
          /\ tarjan'.frames[i].left \subseteq tarjan.frames[i + 1].left
      BY <1>1, <2>2
    <3>2. tarjan'.frames[i].left \subseteq UpstreamsOf(tarjan'.frames[i].node)
      BY <3>1 DEF Framed
    <3> QED
      BY <1>1, <3>2, UpstreamsKept
  <2>3. ASSUME NEW i \in DOMAIN tarjan'.frames, NEW j \in DOMAIN tarjan'.frames, i < j
        PROVE  tarjan'.index[tarjan'.frames[j].node] < tarjan'.index[tarjan'.frames[i].node]
    <3>1. i + 1 \in DOMAIN tarjan.frames /\ j + 1 \in DOMAIN tarjan.frames /\ i + 1 < j + 1
      BY <1>1, <2>3
    <3>2. tarjan.index[tarjan.frames[j + 1].node] < tarjan.index[tarjan.frames[i + 1].node]
      BY <3>1 DEF Framed
    <3> QED
      BY <1>1, <2>3, <3>2
  <2>4. ASSUME NEW i \in DOMAIN tarjan'.frames, i > 1
        PROVE  tarjan'.frames[i - 1].node \in tarjan'.frames[i].left
    <3>1. /\ i - 1 \in DOMAIN tarjan'.frames /\ (i - 1) + 1 = i /\ i # 1
          /\ i + 1 \in DOMAIN tarjan.frames /\ i + 1 > 1 /\ (i + 1) - 1 = i
      BY <1>1, <2>4
    <3>2. tarjan.frames[i].node \in tarjan.frames[i + 1].left
      BY <3>1 DEF Framed
    <3>3. tarjan'.frames[i - 1].node = tarjan.frames[i].node
      BY <1>1, <3>1
    <3> QED
      BY <1>1, <2>4, <3>1, <3>2, <3>3
  <2> QED
    BY <2>1, <2>2, <2>3, <2>4 DEF Framed
<1> QED
  BY <1>5, <1>6, <1>7, <1>8, <1>9, <1>12, <1>13, <1>14 DEF v, n

\* What is placed has everything upstream of it placed.
LEMMA PlacedIsUpstream ==
  ASSUME Numbered, Stacked, Framed, PlacedIsClosed, NEW r \in Placed
  PROVE  AllUpstreams(r) \subseteq Placed
<1>1. Placed \subseteq Nodes(graph)
  BY SearchTypes DEF Placed
<1> QED
  BY <1>1, AllUpstreamsLeast DEF PlacedIsClosed

\* Nothing leads out of what a root takes off the stack but to placed nodes.
LEMMA RootIsClosed ==
  ASSUME Search, tarjan.frames # <<>>, tarjan.frames[1].left = {}, IsRoot
  PROVE  \A u \in Above(TopNode) : UpstreamsOf(u) \subseteq Above(TopNode) \cup Placed
<1> USE DEF Search
<1> SUFFICES ASSUME NEW u \in Above(TopNode), NEW w \in UpstreamsOf(u)
             PROVE  w \in Above(TopNode) \cup Placed
  OBVIOUS
<1>1. /\ TopNode \in Above(TopNode) /\ Above(TopNode) \subseteq OnStack
      /\ OnStack \subseteq Visited /\ 1 \in DOMAIN tarjan.frames
      /\ \A x \in Visited : tarjan.index[x] \in Nat /\ tarjan.low[x] \in Nat
      /\ \A i \in DOMAIN tarjan.frames : tarjan.frames[i].node \in Above(TopNode) => i = 1
  BY LowerFrames
<1>2. ~IsLeft(u, w)
  BY <1>1 DEF IsLeft
<1>3. w \in Visited /\ (w \in OnStack => tarjan.low[u] <= tarjan.index[w])
  BY <1>1, <1>2 DEF EdgesFollowed
<1>4. tarjan.low[TopNode] <= tarjan.low[u]
  BY <1>1 DEF FramesAreLow, TopNode, Above
<1>5. w \in OnStack => tarjan.index[TopNode] <= tarjan.index[w]
  BY <1>1, <1>3, <1>4 DEF IsRoot
<1> QED
  BY <1>3, <1>5 DEF Above, Placed

\* Everything above a node that is left reaches it, if it is a root.
LEMMA RootIsReached ==
  ASSUME Search, tarjan.frames # <<>>, IsRoot, NEW u \in Above(TopNode), u # TopNode
  PROVE  TopNode \in AllUpstreams(u)
<1> USE DEF Search
<1> DEFINE v == TopNode
           Bad == {x \in Above(v) : x # v /\ v \notin AllUpstreams(x)}
           I   == {tarjan.index[x] : x \in Bad}
<1>1. /\ v \in Above(v) /\ Above(v) \subseteq OnStack
      /\ OnStack \subseteq Visited /\ 1 \in DOMAIN tarjan.frames
      /\ \A x \in Visited : tarjan.index[x] \in Nat /\ tarjan.low[x] \in Nat
      /\ \A i \in DOMAIN tarjan.frames : tarjan.frames[i].node \in Above(v) => i = 1
  BY LowerFrames
<1>2. CASE Bad = {}
  BY <1>2
<1>3. CASE Bad # {}
  <2>1. I # {} /\ I \in SUBSET Nat
    BY <1>1, <1>3
  <2>2. PICK least \in I : \A y \in I : least <= y
    <3> HIDE DEF I
    <3> QED
      BY <2>1, FirstName
  <2>3. PICK x \in Bad : tarjan.index[x] = least
    BY <2>2
  <2>4. ~HasFrame(x)
    BY <1>1, <2>3 DEF HasFrame, TopNode
  <2>5. tarjan.low[x] < tarjan.index[x]
    BY <1>1, <2>3, <2>4 DEF LeftAreNoRoots
  <2>6. PICK y \in OnStack : tarjan.index[y] = tarjan.low[x] /\ (y = x \/ y \in AllUpstreams(x))
    BY <1>1, <2>3 DEF LowIsReached
  <2>7. y # x /\ y \in AllUpstreams(x)
    BY <1>1, <2>3, <2>5, <2>6
  <2>8. tarjan.low[v] <= tarjan.low[x]
    BY <1>1, <2>3 DEF FramesAreLow, TopNode, Above
  <2>9. y \in Above(v)
    BY <1>1, <2>6, <2>8 DEF Above, IsRoot
  <2>10. y \notin Bad
    <3>1. tarjan.index[y] < least /\ tarjan.index[y] \in Nat /\ least \in Nat
      BY <1>1, <2>3, <2>5, <2>6
    <3>2. y \in Bad => tarjan.index[y] \in I
      OBVIOUS
    <3>3. tarjan.index[y] \in I => least <= tarjan.index[y]
      BY <2>2
    <3> HIDE DEF Bad, I
    <3> QED
      BY <3>1, <3>2, <3>3
  <2>11. y = v \/ v \in AllUpstreams(y)
    BY <2>9, <2>10
  <2>12. v \in AllUpstreams(x)
    BY <2>7, <2>11, UpstreamIsTransitive
  <2> QED
    BY <2>3, <2>12
<1> QED
  BY <1>2, <1>3

\* What a root takes off the stack is the component of each of its nodes.
LEMMA RootIsComponent ==
  ASSUME Search, tarjan.frames # <<>>, tarjan.frames[1].left = {}, IsRoot,
         NEW u \in Above(TopNode)
  PROVE  Component(u) = IF Above(TopNode) = {TopNode} THEN {} ELSE Above(TopNode)
<1> USE DEF Search
<1> DEFINE v == TopNode
           C == Above(v)
<1>1. v \in C /\ C \subseteq OnStack /\ OnStack \subseteq Visited /\ Visited \subseteq Nodes(graph)
  BY LowerFrames
<1>2. C \cap Placed = {} /\ Placed \subseteq Nodes(graph)
  BY <1>1 DEF Placed
<1>3. \A x \in C : UpstreamsOf(x) \subseteq C \cup Placed
  BY RootIsClosed
<1>4. \A r \in Placed : AllUpstreams(r) \subseteq Placed /\ UpstreamsOf(r) \subseteq Placed
  BY PlacedIsUpstream DEF PlacedIsClosed
<1>5. /\ 1 \in DOMAIN tarjan.frames
      /\ \A x \in Visited : tarjan.index[x] \in Nat
      /\ \A x, y \in Visited : tarjan.index[x] = tarjan.index[y] => x = y
  BY LowerFrames DEF Numbered
<1>6. \A x \in C : tarjan.index[v] <= tarjan.index[x]
  BY DEF Above
<1>7. tarjan.frames[1].node = v
  BY DEF TopNode
<1> HIDE DEF C, v
<1>8. AllUpstreams(u) \subseteq C \cup Placed
  BY <1>1, <1>2, <1>3, <1>4, AllUpstreamsLeast DEF C, v
<1>9. Component(u) \subseteq C
  <2>1. ASSUME NEW q \in Component(u) PROVE q \in C
    <3>1. q \in AllUpstreams(u) /\ u \in AllUpstreams(q)
      BY <2>1 DEF Component
    <3>2. q \notin Placed
      BY <1>2, <1>4, <3>1 DEF C, v
    <3> QED
      BY <1>8, <3>1, <3>2
  <2> QED
    BY <2>1
<1>10. CASE C = {v}
  <2>1. u = v
    BY <1>10 DEF C, v
  <2>2. UpstreamsOf(v) \subseteq Placed
    BY <1>1, <1>3, <1>10, StepsAreUpstreams
  <2>3. AllUpstreams(v) \subseteq Placed
    BY <1>2, <1>4, <2>2, AllUpstreamsLeast
  <2>4. v \notin Component(v)
    BY <1>1, <1>2, <2>3 DEF Component
  <2> QED
    BY <1>9, <1>10, <2>1, <2>4 DEF C, v
<1>11. CASE C # {v}
  <2>1. \A x \in C : x # v => v \in AllUpstreams(x)
    BY RootIsReached DEF C, v
  <2>2. \A x \in C : x # v => x \in AllUpstreams(v)
    <3>1. ASSUME NEW x \in C, x # v PROVE x \in AllUpstreams(v)
      <4>1. tarjan.index[v] < tarjan.index[x]
        BY <1>1, <1>5, <1>6, <3>1
      <4> QED
        BY <1>1, <1>5, <1>7, <3>1, <4>1 DEF FramesReach
    <3> QED
      BY <3>1
  <2>3. v \in AllUpstreams(v)
    <3>1. PICK x \in C : x # v
      BY <1>1, <1>11
    <3> QED
      BY <2>1, <2>2, <3>1, UpstreamIsTransitive
  <2>4. \A x, y \in C : y \in AllUpstreams(x)
    <3>1. ASSUME NEW x \in C, NEW y \in C PROVE y \in AllUpstreams(x)
      <4>1. v \in AllUpstreams(x) /\ y \in AllUpstreams(v)
        BY <2>1, <2>2, <2>3, <3>1
      <4> QED
        BY <4>1, UpstreamIsTransitive
    <3> QED
      BY <3>1
  <2>5. u \in C
    BY DEF C, v
  <2>6. C \subseteq Component(u)
    BY <2>4, <2>5 DEF Component
  <2> QED
    BY <1>9, <1>11, <2>6 DEF C, v
<1> QED
  BY <1>10, <1>11

\* Leaving a node keeps the search.
LEMMA ReturnKeeps == ASSUME Search, Return PROVE Search'
<1> USE DEF Search
<1> DEFINE v == TopNode
           n == Len(tarjan.frames)
           C == Above(v)
<1>1. /\ DOMAIN tarjan.frames = 1..n /\ n \in Nat \ {0} /\ tarjan.frames[1].left = {}
      /\ UNCHANGED graph /\ tarjan'.index = tarjan.index
      /\ \A u \in Visited :
           tarjan'.low[u] = IF n > 1 /\ u = Caller
                            THEN Smaller(tarjan.low[u], tarjan.low[v]) ELSE tarjan.low[u]
      /\ DOMAIN tarjan'.frames = 1..(n - 1)
      /\ \A i \in DOMAIN tarjan'.frames :
           i + 1 \in DOMAIN tarjan.frames /\ tarjan'.frames[i].node = tarjan.frames[i + 1].node
      /\ cycles' = IF IsRoot /\ C # {v} THEN cycles \cup {C} ELSE cycles
  BY ReturnFields
<1>2. tarjan.frames # <<>>
  BY DEF Return
<1>3. /\ v \in C /\ C \subseteq OnStack /\ OnStack \subseteq Visited
      /\ \A u \in Visited : tarjan.index[u] \in Nat /\ tarjan.low[u] \in Nat
      /\ 1 \in DOMAIN tarjan.frames
      /\ \A i \in DOMAIN tarjan.frames :
           /\ i \in Nat \ {0} /\ tarjan.frames[i].node \in OnStack
           /\ i # 1 => tarjan.index[tarjan.frames[i].node] < tarjan.index[v]
           /\ tarjan.frames[i].node \in C => i = 1
      /\ n > 1 =>
           /\ 2 \in DOMAIN tarjan.frames /\ Caller \in OnStack /\ Caller # v
           /\ tarjan.index[Caller] < tarjan.index[v] /\ v \in UpstreamsOf(Caller)
  BY <1>2, LowerFrames
<1>4. /\ Visited' = Visited
      /\ OnStack' = IF IsRoot THEN OnStack \ C ELSE OnStack
      /\ Placed' = IF IsRoot THEN Placed \cup C ELSE Placed
      /\ \A u, w : IsLeft(u, w)' <=> IsLeft(u, w) /\ ~(n > 1 /\ u = Caller /\ w = v)
      /\ \A u : HasFrame(u)' <=> HasFrame(u) /\ u # v
      /\ Numbered' /\ Stacked' /\ Framed'
  BY ReturnParts
<1>5. \A u \in OnStack : u \in C <=> tarjan.index[v] <= tarjan.index[u]
  BY DEF Above
<1>6. tarjan.frames[1].node = v /\ (n > 1 => tarjan.frames[2].node = Caller)
  BY DEF TopNode, Caller
<1>7. tarjan.low[v] <= tarjan.index[v] /\ (IsRoot <=> tarjan.low[v] = tarjan.index[v])
  BY <1>3 DEF LowIsReached, IsRoot
<1>8. \A u \in C : tarjan.low[v] <= tarjan.low[u]
  BY <1>3, <1>5, <1>6 DEF FramesAreLow
<1>9. /\ \A u \in Visited : tarjan'.low[u] \in Nat /\ tarjan'.low[u] <= tarjan.low[u]
      /\ \A u \in Visited : ~(n > 1 /\ u = Caller) => tarjan'.low[u] = tarjan.low[u]
      /\ n > 1 => /\ tarjan'.low[Caller] <= tarjan.low[v]
                  /\ \/ tarjan'.low[Caller] = tarjan.low[Caller]
                     \/ /\ tarjan'.low[Caller] = tarjan.low[v]
                        /\ tarjan.low[v] < tarjan.low[Caller]
  BY <1>1, <1>3 DEF Smaller
<1>10. /\ IsRoot => PlacedIsClosed'
       /\ IsRoot => \A u \in C : Component(u) = IF C = {v} THEN {} ELSE C
  <2>1. ASSUME IsRoot PROVE \A u \in C : UpstreamsOf(u) \subseteq C \cup Placed
    BY <1>1, <1>2, <2>1, RootIsClosed
  <2>2. ASSUME IsRoot PROVE \A u \in C : Component(u) = IF C = {v} THEN {} ELSE C
    BY <1>1, <1>2, <2>2, RootIsComponent
  <2>3. IsRoot => PlacedIsClosed'
    BY <1>1, <1>4, <2>1, UpstreamsKept DEF PlacedIsClosed
  <2> QED
    BY <2>2, <2>3
<1> HIDE DEF v, C, n
<1>11. OnStack' \subseteq OnStack
  BY <1>4
<1>12. EdgesFollowed'
  <2> SUFFICES ASSUME NEW u \in OnStack', NEW w \in UpstreamsOf(u), ~IsLeft(u, w)'
               PROVE  w \in Visited /\ (w \in OnStack' => tarjan'.low[u] <= tarjan.index[w])
    BY <1>1, <1>4, UpstreamsKept DEF EdgesFollowed
  <2>1. CASE n > 1 /\ u = Caller /\ w = v
    BY <1>3, <1>7, <1>9, <2>1
  <2>2. CASE ~(n > 1 /\ u = Caller /\ w = v)
    <3>1. w \in Visited /\ (w \in OnStack => tarjan.low[u] <= tarjan.index[w])
      BY <1>4, <1>11, <2>2 DEF EdgesFollowed
    <3> QED
      BY <1>3, <1>9, <1>11, <3>1
  <2> QED
    BY <2>1, <2>2
<1>13. PlacedIsClosed'
  <2>1. ASSUME ~IsRoot PROVE PlacedIsClosed'
    BY <1>1, <1>4, <2>1, UpstreamsKept DEF PlacedIsClosed
  <2> QED
    BY <1>10, <2>1
<1>14. LowIsReached'
  <2> SUFFICES ASSUME NEW x \in OnStack'
               PROVE  /\ tarjan'.low[x] <= tarjan.index[x]
                      /\ \E u \in OnStack' :
                           tarjan.index[u] = tarjan'.low[x] /\ (u = x \/ u \in AllUpstreams(x))
    BY <1>1, UpstreamsKept DEF LowIsReached
  <2>1. tarjan.low[x] <= tarjan.index[x] /\ x \in OnStack /\ x \in Visited
    BY <1>3, <1>11 DEF LowIsReached
  <2>2. PICK u \in OnStack : tarjan.index[u] = tarjan.low[x] /\ (u = x \/ u \in AllUpstreams(x))
    BY <2>1 DEF LowIsReached
  <2>3. u \in OnStack'
    <3>1. CASE IsRoot
      <4>1. tarjan.index[x] < tarjan.index[v]
        BY <1>3, <1>4, <1>5, <2>1, <3>1
      <4>2. tarjan.index[u] < tarjan.index[v]
        BY <1>3, <2>1, <2>2, <4>1
      <4> QED
        BY <1>3, <1>4, <1>5, <2>2, <3>1, <4>2
    <3>2. CASE ~IsRoot
      BY <1>4, <3>2
    <3> QED
      BY <3>1, <3>2
  <2>4. CASE tarjan'.low[x] = tarjan.low[x]
    BY <2>1, <2>2, <2>3, <2>4
  <2>5. CASE tarjan'.low[x] # tarjan.low[x]
    <3>1. n > 1 /\ x = Caller /\ tarjan'.low[x] = tarjan.low[v] /\ tarjan.low[v] < tarjan.low[x]
      BY <1>9, <2>1, <2>5
    <3>2. ~IsRoot
      BY <1>3, <1>7, <2>1, <3>1
    <3>3. PICK y \in OnStack : tarjan.index[y] = tarjan.low[v] /\ (y = v \/ y \in AllUpstreams(v))
      BY <1>3 DEF LowIsReached
    <3>4. v \in AllUpstreams(x)
      BY <1>3, <3>1, AllUpstreamsClosed
    <3>5. y \in AllUpstreams(x)
      BY <3>3, <3>4, UpstreamIsTransitive
    <3>6. tarjan'.low[x] <= tarjan.index[x]
      BY <1>3, <2>1, <3>1
    <3> QED
      BY <1>4, <3>1, <3>2, <3>3, <3>5, <3>6
  <2> QED
    BY <2>4, <2>5
<1>15. LeftAreNoRoots'
  <2> SUFFICES ASSUME NEW x \in OnStack'
               PROVE  HasFrame(x)' \/ tarjan'.low[x] < tarjan.index[x]
    BY <1>1 DEF LeftAreNoRoots
  <2>1. x \in OnStack /\ x \in Visited /\ (HasFrame(x) \/ tarjan.low[x] < tarjan.index[x])
    BY <1>3, <1>11 DEF LeftAreNoRoots
  <2>2. CASE x = v
    <3>1. ~IsRoot
      BY <1>3, <1>4, <2>2
    <3>2. tarjan.low[v] < tarjan.index[v] /\ tarjan'.low[v] <= tarjan.low[v]
      BY <1>3, <1>7, <1>9, <3>1
    <3> QED
      BY <1>3, <1>9, <2>1, <2>2, <3>2
  <2>3. CASE x # v
    BY <1>3, <1>4, <1>9, <2>1, <2>3
  <2> QED
    BY <2>2, <2>3
<1>16. FramesReach'
  <2> SUFFICES ASSUME NEW i \in DOMAIN tarjan'.frames, NEW x \in OnStack',
                      tarjan.index[tarjan'.frames[i].node] < tarjan.index[x]
               PROVE  x \in AllUpstreams(tarjan.frames[i].node)'
    BY <1>1 DEF FramesReach
  <2>1. x \in AllUpstreams(tarjan'.frames[i].node)
    BY <1>1, <1>11 DEF FramesReach
  <2> QED
    BY <1>1, <2>1, UpstreamsKept
<1>17. FramesAreLow'
  <2> SUFFICES ASSUME NEW i \in DOMAIN tarjan'.frames, NEW u \in OnStack',
                      tarjan.index[tarjan'.frames[i].node] <= tarjan.index[u],
                      i > 1 => tarjan.index[u] < tarjan.index[tarjan'.frames[i - 1].node]
               PROVE  tarjan'.low[tarjan'.frames[i].node] <= tarjan'.low[u]
    BY <1>1 DEF FramesAreLow
  <2> DEFINE f == tarjan.frames[i + 1].node
  <2>1. /\ i + 1 \in DOMAIN tarjan.frames /\ tarjan'.frames[i].node = f /\ f \in OnStack
        /\ f \in Visited /\ u \in OnStack /\ u \in Visited /\ i \in Nat \ {0}
        /\ tarjan.index[f] <= tarjan.index[u] /\ n > 1 /\ (i + 1) - 1 = i /\ i + 1 > 1
        /\ i \in DOMAIN tarjan.frames
    <3>1. i \in 1..(n - 1) /\ n \in Nat \ {0}
      BY <1>1
    <3>2. i \in Nat \ {0} /\ n > 1 /\ (i + 1) - 1 = i /\ i + 1 > 1 /\ i \in 1..n
      BY <3>1
    <3>3. i + 1 \in DOMAIN tarjan.frames /\ tarjan'.frames[i].node = f /\ i \in DOMAIN tarjan.frames
      BY <1>1, <3>2
    <3>4. f \in OnStack
      BY <1>3, <3>3
    <3>5. tarjan.index[f] <= tarjan.index[u]
      BY <3>3
    <3> HIDE DEF f
    <3> QED
      BY <1>3, <1>11, <3>2, <3>3, <3>4, <3>5
  <2>2. CASE i = 1
    <3>1. f = Caller
      BY <1>6, <2>1, <2>2
    <3>2. CASE u \in C
      <4>1. tarjan'.low[Caller] <= tarjan.low[v] /\ tarjan.low[v] <= tarjan.low[u] /\ u # Caller
        BY <1>3, <1>5, <1>8, <1>9, <2>1, <3>2
      <4>2. tarjan'.low[u] = tarjan.low[u]
        BY <1>9, <2>1, <4>1
      <4> QED
        BY <1>3, <1>9, <2>1, <3>1, <4>1, <4>2
    <3>3. CASE u \notin C
      <4>1. tarjan.index[u] < tarjan.index[v]
        BY <1>3, <1>5, <2>1, <3>3
      <4>2. tarjan.low[f] <= tarjan.low[u]
        BY <1>6, <2>1, <2>2, <4>1 DEF FramesAreLow
      <4>3. CASE u = Caller
        BY <1>3, <1>9, <2>1, <3>1, <4>3
      <4>4. CASE u # Caller
        BY <1>3, <1>9, <2>1, <3>1, <4>2, <4>4
      <4> QED
        BY <4>3, <4>4
    <3> QED
      BY <3>2, <3>3
  <2>3. CASE i # 1
    <3>1. i - 1 \in DOMAIN tarjan'.frames /\ (i - 1) + 1 = i /\ i > 1
      BY <1>1, <2>1, <2>3
    <3>2. tarjan.index[u] < tarjan.index[tarjan.frames[i].node]
      BY <1>1, <3>1
    <3>3. tarjan.low[f] <= tarjan.low[u]
      BY <2>1, <3>2 DEF FramesAreLow
    <3>4. tarjan.index[tarjan.frames[i].node] <= tarjan.index[Caller]
      <4>1. CASE i = 2
        BY <1>3, <1>6, <2>1, <4>1
      <4>2. CASE 2 < i
        <5>1. tarjan.index[tarjan.frames[i].node] < tarjan.index[tarjan.frames[2].node]
          BY <1>3, <2>1, <4>2 DEF Framed
        <5> QED
          BY <1>3, <1>6, <2>1, <5>1
      <4> QED
        BY <2>1, <2>3, <4>1, <4>2
    <3>5. u # Caller /\ f # Caller
      BY <1>3, <2>1, <3>2, <3>4
    <3> QED
      BY <1>9, <2>1, <3>3, <3>5
  <2> QED
    BY <2>2, <2>3
<1>18. CyclesSoFar'
  <2>1. \A r : Component(r)' = Component(r)
    BY <1>1, UpstreamsKept
  <2>2. {Component(r)' : r \in Placed'} \ {{}} = cycles'
    <3>1. CASE ~IsRoot
      BY <1>1, <1>4, <2>1, <3>1 DEF CyclesSoFar
    <3>2. CASE IsRoot /\ C = {v}
      <4>1. Placed' = Placed \cup {v} /\ Component(v) = {} /\ cycles' = cycles
        BY <1>1, <1>3, <1>4, <1>10, <3>2
      <4> QED
        BY <2>1, <4>1 DEF CyclesSoFar
    <3>3. CASE IsRoot /\ C # {v}
      <4>1. /\ Placed' = Placed \cup C /\ \A u \in C : Component(u) = C
            /\ cycles' = cycles \cup {C} /\ C # {}
        BY <1>1, <1>3, <1>4, <1>10, <3>3
      <4>2. {Component(r) : r \in C} = {C}
        BY <4>1
      <4> QED
        BY <2>1, <4>1, <4>2 DEF CyclesSoFar
    <3> QED
      BY <3>1, <3>2, <3>3
  <2> QED
    BY <2>2 DEF CyclesSoFar
<1> QED
  BY <1>4, <1>12, <1>13, <1>14, <1>15, <1>16, <1>17, <1>18

\* A step leaves the analysis alone, or reads, or begins it, or is one of it.
LEMMA StepsOfAnalysis ==
  ASSUME [Next]_vars, pc # "analysis" => stage = "reading"
  PROVE  \/ UNCHANGED <<pc, graph, analysis>>
         \/ stage = "reading" /\ UNCHANGED analysis
         \/ /\ stage = "reading" /\ stage' = "cycles" /\ pc' = "analysis"
            /\ UNCHANGED <<graph, tarjan, cycles, confirmed, walk, routes, landing>>
         \/ pc = "analysis" /\ Analyse /\ UNCHANGED pc
<1>1. CASE GitHub \/ Finished \/ UNCHANGED vars \/ Report
  BY <1>1 DEF GitHub, Finished, Report, vars, process
<1>2. CASE ReadLocal \/ ReadRemote \/ FetchBatch \/ SkipBatch \/ RecordNext \/ AddFile
           \/ FetchEnds \/ FollowLevel \/ ReadingEnds \/ ResolveName \/ ProbeOwner
  <2>1. UNCHANGED analysis /\ pc # "analysis"
    BY <1>2 DEF ReadLocal, ReadRemote, FetchBatch, SkipBatch, RecordNext, AddFile,
                FetchEnds, FollowLevel, ReadingEnds, ResolveName, ProbeOwner
  <2> QED
    BY <2>1
<1>3. CASE NamesEnd
  <2>1. /\ stage' = "cycles" /\ pc' = "analysis" /\ pc # "analysis"
        /\ UNCHANGED <<graph, tarjan, cycles, confirmed, walk, routes, landing>>
    BY <1>3 DEF NamesEnd
  <2> QED
    BY <2>1
<1>4. CASE pc = "analysis" /\ Analyse /\ UNCHANGED process
  BY <1>4 DEF process
<1> QED
  BY <1>1, <1>2, <1>3, <1>4 DEF Next, Run

\* Before the first node is entered there is nothing to be wrong.
LEMMA SearchStarts ==
  ASSUME tarjan = StartTarjan, cycles = {}
  PROVE  Search
<1>1. /\ tarjan.frames = <<>> /\ tarjan.index = <<>> /\ tarjan.low = <<>> /\ tarjan.stack = <<>>
      /\ tarjan = [frames |-> tarjan.frames, index |-> tarjan.index, low |-> tarjan.low,
                   stack |-> tarjan.stack]
  BY DEF StartTarjan
<1>2. Visited = {} /\ OnStack = {} /\ Placed = {}
  BY <1>1 DEF Visited, OnStack, Placed, ToSet
<1>3. DOMAIN tarjan.frames = {} /\ DOMAIN tarjan.stack = {}
  BY <1>1
<1>4. IsFiniteSet(Visited)
  BY <1>2, FS_EmptySet
<1>5. tarjan.index \in [Visited -> Nat] /\ tarjan.low \in [Visited -> Nat]
  BY <1>1, <1>2
<1>6. Numbered
  BY <1>1, <1>2, <1>4, <1>5 DEF Numbered
<1>7. Stacked
  BY <1>1, <1>3 DEF Stacked
<1>8. Framed
  <2>1. \A S : <<>> \in Seq(S)
    OBVIOUS
  <2> QED
    BY <1>1, <1>3, <2>1 DEF Framed
<1>9. EdgesFollowed /\ PlacedIsClosed /\ LowIsReached /\ LeftAreNoRoots
  BY <1>2 DEF EdgesFollowed, PlacedIsClosed, LowIsReached, LeftAreNoRoots
<1>10. FramesReach /\ FramesAreLow
  BY <1>3 DEF FramesReach, FramesAreLow
<1>11. CyclesSoFar
  BY <1>2 DEF CyclesSoFar
<1> QED
  BY <1>6, <1>7, <1>8, <1>9, <1>10, <1>11 DEF Search

\* The search is what it was if graph, search and cycles are.
LEMMA SearchKept ==
  ASSUME Search, UNCHANGED <<graph, tarjan, cycles>>
  PROVE  Search'
<1> USE DEF Search
<1>1. Visited' = Visited /\ OnStack' = OnStack /\ Placed' = Placed
  BY DEF Visited, OnStack, Placed
<1>2. \A u, w : (IsLeft(u, w)' <=> IsLeft(u, w)) /\ (HasFrame(u)' <=> HasFrame(u))
  BY DEF IsLeft, HasFrame
<1>3. Numbered' /\ Stacked'
  BY <1>1 DEF Numbered, Stacked
<1>4. Framed'
  <2>1. ASSUME NEW i \in DOMAIN tarjan.frames
        PROVE  tarjan.frames[i].left \subseteq UpstreamsOf(tarjan.frames[i].node)'
    <3>1. tarjan.frames[i].left \subseteq UpstreamsOf(tarjan'.frames[i].node)
      BY DEF Framed
    <3> QED
      BY <3>1, UpstreamsKept
  <2> QED
    BY <1>1, <2>1 DEF Framed
<1>5. EdgesFollowed' /\ PlacedIsClosed'
  BY <1>1, <1>2, UpstreamsKept DEF EdgesFollowed, PlacedIsClosed
<1>6. LowIsReached' /\ LeftAreNoRoots'
  BY <1>1, <1>2, UpstreamsKept DEF LowIsReached, LeftAreNoRoots
<1>7. FramesReach'
  <2>1. ASSUME NEW i \in DOMAIN tarjan.frames, NEW v \in OnStack,
               tarjan.index[tarjan.frames[i].node] < tarjan.index[v]
        PROVE  v \in AllUpstreams(tarjan.frames[i].node)'
    <3>1. v \in AllUpstreams(tarjan'.frames[i].node)
      BY <2>1 DEF FramesReach
    <3> QED
      BY <3>1, UpstreamsKept
  <2> QED
    BY <1>1, <2>1 DEF FramesReach
<1>8. FramesAreLow' /\ CyclesSoFar'
  BY <1>1, UpstreamsKept DEF FramesAreLow, CyclesSoFar
<1> QED
  BY <1>3, <1>4, <1>5, <1>6, <1>7, <1>8

\* The loop over all nodes enters a node that was not visited, or ends.
LEMMA RootKeepsSearch ==
  ASSUME Search, SearchEnds, GraphShape, Root PROVE Search' /\ SearchEnds'
<1> DEFINE left == Nodes(graph) \ Visited
<1>1. /\ UNCHANGED <<graph, cycles>> /\ stage = "cycles" /\ tarjan.frames = <<>>
      /\ left = {} => stage' = "confirm" /\ UNCHANGED tarjan
      /\ left # {} => UNCHANGED stage /\ tarjan' = Enter(tarjan, Least(left))
  BY DEF Root, Visited
<1>2. CASE left = {}
  <2>1. Search'
    BY <1>1, <1>2, SearchKept
  <2>2. Visited' = Visited /\ Visited = Nodes(graph) /\ Nodes(graph)' = Nodes(graph)
    BY <1>1, <1>2, UpstreamsKept DEF Visited, Search, Numbered
  <2> QED
    BY <1>1, <1>2, <2>1, <2>2 DEF SearchEnds
<1>3. CASE left # {}
  <2>1. left \subseteq Nat
    BY NodesAreNames
  <2>2. Least(left) \in left
    <3> HIDE DEF left
    <3> QED
      BY <1>3, <2>1, LeastIsFirst
  <2>3. Least(left) \in Nodes(graph) /\ Least(left) \notin Visited
    BY <2>2
  <2> HIDE DEF left
  <2>4. Search'
    BY <1>1, <1>3, <2>3, EnterKeeps
  <2> QED
    BY <1>1, <1>3, <2>4 DEF SearchEnds
<1> QED
  BY <1>2, <1>3

\* Following an edge enters a new node or goes past the edge.
LEMMA FollowEdgeKeepsSearch ==
  ASSUME Search, GraphShape, FollowEdge PROVE Search'
<1> DEFINE left == tarjan.frames[1].left
           w    == Least(left)
<1>1. /\ tarjan.frames # <<>> /\ UNCHANGED <<graph, cycles>>
      /\ Head(tarjan.frames).left # {}
      /\ tarjan' = LET x == Least(Head(tarjan.frames).left) IN
                   IF x \notin DOMAIN tarjan.index THEN Enter(tarjan, x)
                   ELSE IF x \in ToSet(tarjan.stack) THEN Lower(tarjan, x, tarjan.index[x])
                   ELSE Past(tarjan, x)
  BY DEF FollowEdge
<1>2. tarjan.frames \in Seq(Frame)
  BY SearchTypes DEF Search
<1>3. Head(tarjan.frames) = tarjan.frames[1] /\ 1 \in DOMAIN tarjan.frames
  BY <1>1, <1>2, PoppedOff
<1>4. left \subseteq UpstreamsOf(tarjan.frames[1].node)
  BY <1>3 DEF Search, Framed
<1>5. left \subseteq Nodes(graph) /\ left # {}
  BY <1>1, <1>3, <1>4, UpstreamsAreNodes
<1>6. left \subseteq Nat
  BY <1>5, NodesAreNames
<1>7. w \in left
  <2> HIDE DEF left
  <2> QED
    BY <1>5, <1>6, LeastIsFirst
<1>8. tarjan' = IF w \notin Visited THEN Enter(tarjan, w)
                ELSE IF w \in OnStack THEN Lower(tarjan, w, tarjan.index[w]) ELSE Past(tarjan, w)
  BY <1>1, <1>3 DEF Visited, OnStack
<1> HIDE DEF w
<1>9. CASE w \notin Visited
  <2>1. tarjan' = Enter(tarjan, w)
    BY <1>8, <1>9
  <2> QED
    BY <1>1, <1>5, <1>7, <1>9, <2>1, EnterKeeps
<1>10. CASE w \in Visited
  <2>1. PassesEdge(w)
    BY <1>1, <1>7, <1>8, <1>10 DEF PassesEdge
  <2> QED
    BY <1>1, <2>1, PassKeeps
<1> QED
  BY <1>9, <1>10

\* Every step keeps the search.
LEMMA NextKeepsSearch == ASSUME SearchInv, ReadInv, [Next]_vars PROVE SearchInv'
<1>1. CASE UNCHANGED <<pc, graph, analysis>>
  <2>1. UNCHANGED <<graph, tarjan, cycles, stage, pc>>
    BY <1>1 DEF analysis
  <2>2. Nodes(graph)' = Nodes(graph) /\ Visited' = Visited
    BY <2>1, UpstreamsKept DEF Visited
  <2> QED
    BY <2>1, <2>2, SearchKept DEF SearchInv, SearchEnds
<1>2. CASE stage = "reading" /\ UNCHANGED analysis
  BY <1>2 DEF SearchInv, analysis
<1>3. CASE /\ stage = "reading" /\ stage' = "cycles" /\ pc' = "analysis"
           /\ UNCHANGED <<graph, tarjan, cycles, confirmed, walk, routes, landing>>
  <2>1. Search
    BY <1>3, SearchStarts DEF SearchInv
  <2>2. Search'
    BY <1>3, <2>1, SearchKept
  <2> QED
    BY <1>3, <2>2 DEF SearchInv, SearchEnds, Stage
<1>4. CASE pc = "analysis" /\ Analyse /\ UNCHANGED pc
  <2>1. GraphShape
    BY DEF ReadInv
  <2>2. CASE Root
    <3>1. stage = "cycles" /\ stage' \in {"cycles", "confirm"}
      BY <2>2 DEF Root
    <3>2. Search' /\ SearchEnds'
      BY <2>1, <2>2, <3>1, RootKeepsSearch DEF SearchInv
    <3> QED
      BY <1>4, <3>1, <3>2 DEF SearchInv, Stage
  <2>3. CASE FollowEdge \/ Return
    <3>1. stage = "cycles" /\ UNCHANGED stage
      BY <2>3 DEF FollowEdge, Return
    <3>2. Search'
      BY <2>1, <2>3, <3>1, FollowEdgeKeepsSearch, ReturnKeeps DEF SearchInv
    <3> QED
      BY <1>4, <3>1, <3>2 DEF SearchInv, SearchEnds
  <2>4. CASE Confirm \/ RoutesInto \/ Follow \/ FollowReturns \/ Land \/ Weigh \/ Trace
    <3>1. /\ UNCHANGED <<graph, tarjan, cycles>> /\ stage \notin {"reading", "cycles"}
          /\ stage' \in Stage \ {"reading", "cycles"}
      BY <2>4 DEF Confirm, RoutesInto, Follow, FollowReturns, Land, Weigh, Trace, Stage
    <3>2. Search'
      BY <3>1, SearchKept DEF SearchInv
    <3>3. Nodes(graph)' = Nodes(graph) /\ Visited' = Visited
      BY <3>1, UpstreamsKept DEF Visited
    <3> QED
      BY <1>4, <3>1, <3>2, <3>3 DEF SearchInv, SearchEnds
  <2> QED
    BY <1>4, <2>2, <2>3, <2>4 DEF Analyse
<1> QED
  BY <1>1, <1>2, <1>3, <1>4, StepsOfAnalysis DEF SearchInv

\* The search is sound in every state.
THEOREM SearchIsSound == Spec => []SearchInv
<1>1. Init => SearchInv
  BY DEF Init, NotAnalysed, SearchInv, Stage
<1> QED
  BY <1>1, NextKeepsSearch, ReadsAreTrue, PTL DEF Spec

\* At its end every node has its component.
LEMMA SearchFinds ==
  ASSUME SearchInv, stage \notin {"reading", "cycles"}
  PROVE  CyclesAreComponents
<1>1. Search /\ tarjan.frames = <<>> /\ Visited = Nodes(graph)
  BY DEF SearchInv, SearchEnds
<1>2. /\ OnStack \subseteq Visited
      /\ \A x \in Visited : tarjan.index[x] \in Nat /\ tarjan.low[x] \in Nat
  BY <1>1, SearchTypes DEF Search
<1>3. CASE OnStack # {}
  <2> DEFINE I == {tarjan.index[x] : x \in OnStack}
  <2>1. I # {} /\ I \in SUBSET Nat
    BY <1>2, <1>3
  <2>2. PICK least \in I : \A y \in I : least <= y
    <3> HIDE DEF I
    <3> QED
      BY <2>1, FirstName
  <2>3. PICK x \in OnStack : tarjan.index[x] = least
    BY <2>2
  <2>4. ~HasFrame(x)
    BY <1>1 DEF HasFrame
  <2>5. tarjan.low[x] < tarjan.index[x]
    BY <1>1, <2>3, <2>4 DEF Search, LeftAreNoRoots
  <2>6. PICK u \in OnStack : tarjan.index[u] = tarjan.low[x]
    BY <1>1, <2>3 DEF Search, LowIsReached
  <2>7. tarjan.index[u] \in I
    BY <2>6
  <2>8. least <= tarjan.index[u]
    BY <2>2, <2>7
  <2> QED
    BY <1>2, <2>3, <2>5, <2>6, <2>8
<1>4. CASE OnStack = {}
  <2>1. Placed = Nodes(graph)
    BY <1>1, <1>4 DEF Placed
  <2> QED
    BY <1>1, <2>1 DEF Search, CyclesSoFar, CyclesAreComponents
<1> QED
  BY <1>3, <1>4

-----------------------------------------------------------------------------
(***************************************************************************)
(* Landing order and longest chain.                                        *)
(***************************************************************************)

\* Whoever is weighed comes after its upstreams, which weigh less.
Weighed ==
  /\ DOMAIN best \subseteq Nodes(graph)
  /\ \A r \in DOMAIN best :
       /\ UpstreamsOf(r) \subseteq DOMAIN best /\ best[r].weight \in Nat \ {0}
       /\ \A u \in UpstreamsOf(r) : best[u].weight < best[r].weight
       /\ \/ best[r].weight = 1 /\ best[r].before = <<>>
          \/ \E u \in UpstreamsOf(r) :
               best[r].before = <<u>> /\ best[r].weight = best[u].weight + 1
  /\ \A i \in DOMAIN order : \A r \in order[i] \cap DOMAIN best : best[r].weight <= i

\* The chain so far is one, and as heavy as any to come.
Traced ==
  /\ chain \in Seq(DOMAIN best) /\ IsChain(chain)
  /\ chain # <<>> =>
       \A q \in DOMAIN best : best[q].weight <= best[chain[1]].weight + Len(chain) - 1

\* Weights and chain are made in their stages, of all that landed.
WeighInv ==
  /\ stage \in Stage /\ (pc # "analysis" => stage = "reading")
  /\ stage \in {"reading", "cycles", "confirm", "routes", "order"} => best = <<>>
  /\ stage \in {"chain", "done"} \/ chain = <<>>
  /\ stage \in {"weigh", "chain", "done"} /\ ~stuck => Landed = Nodes(graph)
  /\ stage \in {"chain", "done"} /\ ~stuck => DOMAIN best = Nodes(graph)
  /\ Weighed /\ Traced
  /\ stage = "done" /\ ~stuck =>
       IF chain = <<>> THEN DOMAIN best = {} ELSE best[chain[1]].weight = 1

\* A bounded set of names has a last one.
LEMMA LastName ==
  ASSUME NEW S \in SUBSET Nat, S # {}, NEW bound \in Nat, \A x \in S : x <= bound
  PROVE  \E x \in S : \A y \in S : y <= x
<1> DEFINE above == {b \in Nat : \A x \in S : x <= b}
<1>1. PICK b \in above : \A c \in above : b <= c
  <2>1. bound \in above /\ above \in SUBSET Nat
    OBVIOUS
  <2> HIDE DEF above
  <2> QED
    BY <2>1, FirstName
<1>2. b \in Nat /\ \A x \in S : x <= b
  BY <1>1
<1>3. CASE b \in S
  BY <1>2, <1>3
<1>4. CASE b \notin S
  <2>1. b # 0
    <3>1. PICK x \in S : TRUE
      OBVIOUS
    <3>2. x \in Nat /\ x <= b /\ x # b
      BY <1>2, <1>4
    <3> QED
      BY <1>2, <3>2
  <2>2. b - 1 \in Nat /\ ~(b <= b - 1)
    BY <1>2, <2>1
  <2>3. \A x \in S : x <= b - 1
    BY <1>2, <1>4, <2>2
  <2>4. b - 1 \in above
    BY <2>2, <2>3
  <2> QED
    BY <1>1, <2>2, <2>4
<1> QED
  BY <1>3, <1>4

\* The first of the heaviest of a set is one of them.
LEMMA TopHasFirst ==
  ASSUME GraphShape, NEW S \in SUBSET Nodes(graph), S # {}, NEW bound \in Nat,
         \A r \in S : best[r].weight \in Nat /\ best[r].weight <= bound
  PROVE  Least(Top(S)) \in S /\ \A q \in S : best[q].weight <= best[Least(Top(S))].weight
<1> DEFINE W == {best[r].weight : r \in S}
<1>1. W # {} /\ W \in SUBSET Nat /\ \A x \in W : x <= bound
  OBVIOUS
<1>2. PICK top \in W : \A x \in W : x <= top
  <2> HIDE DEF W
  <2> QED
    BY <1>1, LastName
<1>3. PICK r \in S : best[r].weight = top
  BY <1>2
<1>4. r \in Top(S)
  BY <1>2, <1>3 DEF Top
<1>5. Top(S) \in SUBSET Nat /\ Top(S) # {}
  BY <1>4, NodesAreNames DEF Top
<1>6. Least(Top(S)) \in Top(S)
  BY <1>5, LeastIsFirst
<1> QED
  BY <1>6 DEF Top

\* With graph, order, weights and chain, the claims on them stay.
LEMMA WeightsKept ==
  ASSUME Weighed, Traced, UNCHANGED <<graph, order, best, chain>>
  PROVE  Weighed' /\ Traced' /\ Landed' = Landed /\ Nodes(graph)' = Nodes(graph)
<1>1. Weighed' /\ Landed' = Landed /\ Nodes(graph)' = Nodes(graph)
  BY UpstreamsKept DEF Weighed, Landed
<1>2. ASSUME NEW i \in 1..(Len(chain) - 1)
      PROVE  chain[i] \in UpstreamsOf(chain[i + 1])'
  <2>1. chain[i] \in UpstreamsOf(chain'[i + 1])
    BY DEF Traced, IsChain
  <2> QED
    BY <2>1, UpstreamsKept
<1>3. IsChain(chain)'
  BY <1>2 DEF IsChain
<1> QED
  BY <1>1, <1>3 DEF Traced

\* Before the first round is weighed there is nothing to claim.
LEMMA WeightsStart ==
  ASSUME best' = <<>>, chain' = <<>>
  PROVE  Weighed' /\ Traced'
<1>1. DOMAIN best' = {} /\ chain' \in Seq(DOMAIN best') /\ Len(chain') = 0
  OBVIOUS
<1>2. IsChain(chain)'
  BY <1>1 DEF IsChain
<1> QED
  BY <1>1, <1>2 DEF Weighed, Traced

\* What waits in a round has its upstreams weighed, by less than the round.
LEMMA RoundIsReady ==
  ASSUME OrderInv, Weighed, NEW k \in DOMAIN order,
         \A j \in DOMAIN order : j < k => order[j] \subseteq DOMAIN best
  PROVE  /\ k \in Nat \ {0}
         /\ \A r \in order[k] :
              /\ UpstreamsOf(r) \subseteq DOMAIN best
              /\ \A u \in UpstreamsOf(r) : best[u].weight \in Nat /\ best[u].weight <= k - 1
              /\ \A i \in DOMAIN order : r \in order[i] => i = k
<1>1. order \in Seq(SUBSET Nodes(graph)) /\ DOMAIN order = 1..Len(order) /\ Len(order) \in Nat
  BY DEF OrderInv, Rounds
<1>2. k \in Nat \ {0} /\ \A j \in 1..(k - 1) : j \in DOMAIN order /\ j < k
  BY <1>1
<1>3. ASSUME NEW r \in order[k], NEW u \in UpstreamsOf(r)
      PROVE  u \in DOMAIN best /\ best[u].weight \in Nat /\ best[u].weight <= k - 1
  <2>1. PICK j \in 1..(k - 1) : u \in order[j]
    BY <1>3 DEF OrderInv, LandsUpstreamsFirst
  <2>2. j \in DOMAIN order /\ j < k /\ j <= k - 1 /\ j \in Nat
    BY <1>2, <2>1
  <2>3. u \in DOMAIN best
    BY <2>1, <2>2
  <2>4. best[u].weight \in Nat /\ best[u].weight <= j
    BY <2>1, <2>2, <2>3 DEF Weighed
  <2> QED
    BY <1>2, <2>2, <2>3, <2>4
<1>4. ASSUME NEW r \in order[k], NEW i \in DOMAIN order, r \in order[i]
      PROVE  i = k
  <2>1. /\ \A j \in 1..(k - 1) : r \notin order[j]
        /\ \A j \in 1..(i - 1) : r \notin order[j]
    BY <1>4 DEF OrderInv, LandsUpstreamsFirst
  <2>2. i \in Nat \ {0} /\ k \in Nat \ {0}
    BY <1>1
  <2>3. ~(i < k) /\ ~(k < i)
    BY <1>4, <2>1, <2>2
  <2> QED
    BY <2>2, <2>3
<1> QED
  BY <1>2, <1>3, <1>4

\* The weight of a repository whose upstreams are weighed.
LEMMA HeaviestIs ==
  ASSUME GraphShape, NEW r, NEW bound \in Nat, UpstreamsOf(r) \subseteq DOMAIN best,
         \A u \in UpstreamsOf(r) : best[u].weight \in Nat /\ best[u].weight <= bound
  PROVE  /\ Heaviest(r).weight \in Nat \ {0} /\ Heaviest(r).weight <= bound + 1
         /\ \A u \in UpstreamsOf(r) : best[u].weight < Heaviest(r).weight
         /\ \/ Heaviest(r).weight = 1 /\ Heaviest(r).before = <<>>
            \/ \E u \in UpstreamsOf(r) :
                 Heaviest(r).before = <<u>> /\ Heaviest(r).weight = best[u].weight + 1
<1> DEFINE ups == UpstreamsOf(r) \cap DOMAIN best
           u   == Least(Top(ups))
<1>1. ups = UpstreamsOf(r) /\ ups \in SUBSET Nodes(graph)
  BY UpstreamsAreNodes
<1>2. Heaviest(r) = IF ups = {} THEN [weight |-> 1, before |-> <<>>]
                    ELSE [weight |-> best[u].weight + 1, before |-> <<u>>]
  BY DEF Heaviest
<1> HIDE DEF ups
<1>3. CASE ups = {}
  BY <1>1, <1>2, <1>3
<1>4. CASE ups # {}
  <2>1. u \in ups /\ \A q \in ups : best[q].weight <= best[u].weight
    BY <1>1, <1>4, TopHasFirst
  <2>2. Heaviest(r).weight = best[u].weight + 1 /\ Heaviest(r).before = <<u>>
    BY <1>2, <1>4
  <2> HIDE DEF u
  <2>3. best[u].weight \in Nat /\ best[u].weight <= bound
    BY <1>1, <2>1
  <2>4. Heaviest(r).weight \in Nat \ {0} /\ Heaviest(r).weight <= bound + 1
    BY <2>2, <2>3
  <2>5. ASSUME NEW q \in UpstreamsOf(r) PROVE best[q].weight < Heaviest(r).weight
    BY <1>1, <2>1, <2>2, <2>3
  <2> QED
    BY <1>1, <2>1, <2>2, <2>4, <2>5
<1> QED
  BY <1>3, <1>4

\* The next round is weighed, or all are.
LEMMA WeighKeepsWeights ==
  ASSUME OrderInv, GraphShape, Weighed, Traced, chain = <<>>, Landed = Nodes(graph), Weigh
  PROVE  /\ Weighed' /\ Traced' /\ UNCHANGED <<graph, order, stuck, chain>>
         /\ stage' \in {"weigh", "chain"} /\ Landed' = Nodes(graph)'
         /\ stage' = "chain" => DOMAIN best' = Nodes(graph)'
<1> DEFINE rounds == {i \in DOMAIN order : ~(order[i] \subseteq DOMAIN best)}
           k    == Least(rounds)
           next == order[k]
<1>1. /\ UNCHANGED <<graph, order, stuck, chain>> /\ stage = "weigh"
      /\ rounds = {} => stage' = "chain" /\ UNCHANGED best
      /\ rounds # {} => /\ best' = [r \in DOMAIN best \cup next |->
                                      IF r \in DOMAIN best THEN best[r] ELSE Heaviest(r)]
                        /\ UNCHANGED stage
  BY DEF Weigh
<1>2. Landed' = Nodes(graph)' /\ Nodes(graph)' = Nodes(graph)
  BY <1>1, UpstreamsKept DEF Landed
<1>3. order \in Seq(SUBSET Nodes(graph)) /\ DOMAIN order \subseteq Nat
  BY DEF OrderInv, Rounds
<1>4. CASE rounds = {}
  <2>1. Weighed' /\ Traced'
    BY <1>1, <1>4, WeightsKept
  <2>2. Landed \subseteq DOMAIN best
    BY <1>4 DEF Landed, ToSet
  <2>3. DOMAIN best = Nodes(graph)
    BY <2>2 DEF Weighed
  <2> QED
    BY <1>1, <1>2, <1>4, <2>1, <2>3
<1>5. CASE rounds # {}
  <2>1. k \in rounds /\ \A j \in rounds : k <= j
    <3>1. rounds \in SUBSET Nat
      BY <1>3
    <3> HIDE DEF rounds
    <3> QED
      BY <1>5, <3>1, LeastIsFirst
  <2>2. k \in DOMAIN order /\ k \in Nat
    BY <1>3, <2>1
  <2>3. ASSUME NEW j \in DOMAIN order, j < k PROVE order[j] \subseteq DOMAIN best
    <3>1. j \in Nat /\ ~(k <= j)
      BY <1>3, <2>2, <2>3
    <3>2. j \notin rounds
      BY <2>1, <3>1
    <3> QED
      BY <3>2
  <2>4. /\ best' = [r \in DOMAIN best \cup next |->
                      IF r \in DOMAIN best THEN best[r] ELSE Heaviest(r)]
        /\ UNCHANGED stage
    BY <1>1, <1>5
  <2> HIDE DEF k, rounds
  <2>5. /\ k \in Nat \ {0}
        /\ \A r \in next :
             /\ UpstreamsOf(r) \subseteq DOMAIN best
             /\ \A u \in UpstreamsOf(r) : best[u].weight \in Nat /\ best[u].weight <= k - 1
             /\ \A i \in DOMAIN order : r \in order[i] => i = k
    BY <2>2, <2>3, RoundIsReady
  <2>6. next \subseteq Nodes(graph)
    BY <1>3, <2>2
  <2> HIDE DEF next
  <2>7. DOMAIN best' = DOMAIN best \cup next /\ \A r \in DOMAIN best : best'[r] = best[r]
    BY <2>4
  <2>8. ASSUME NEW r \in next, r \notin DOMAIN best
        PROVE  /\ best'[r].weight \in Nat \ {0} /\ best'[r].weight <= k
               /\ \A u \in UpstreamsOf(r) : best[u].weight < best'[r].weight
               /\ \/ best'[r].weight = 1 /\ best'[r].before = <<>>
                  \/ \E u \in UpstreamsOf(r) :
                       best'[r].before = <<u>> /\ best'[r].weight = best[u].weight + 1
    <3>1. best'[r] = Heaviest(r)
      BY <2>4, <2>8
    <3>2. k - 1 \in Nat /\ (k - 1) + 1 = k
      BY <2>5
    <3>3. /\ UpstreamsOf(r) \subseteq DOMAIN best
          /\ \A u \in UpstreamsOf(r) : best[u].weight \in Nat /\ best[u].weight <= k - 1
      BY <2>5, <2>8
    <3>4. /\ Heaviest(r).weight \in Nat \ {0} /\ Heaviest(r).weight <= (k - 1) + 1
          /\ \A u \in UpstreamsOf(r) : best[u].weight < Heaviest(r).weight
          /\ \/ Heaviest(r).weight = 1 /\ Heaviest(r).before = <<>>
             \/ \E u \in UpstreamsOf(r) :
                  Heaviest(r).before = <<u>> /\ Heaviest(r).weight = best[u].weight + 1
      BY <3>2, <3>3, HeaviestIs
    <3> QED
      BY <3>1, <3>2, <3>4
  <2>9. ASSUME NEW r \in DOMAIN best'
        PROVE  /\ UpstreamsOf(r) \subseteq DOMAIN best' /\ best'[r].weight \in Nat \ {0}
               /\ \A u \in UpstreamsOf(r) : best'[u].weight < best'[r].weight
               /\ \/ best'[r].weight = 1 /\ best'[r].before = <<>>
                  \/ \E u \in UpstreamsOf(r) :
                       best'[r].before = <<u>> /\ best'[r].weight = best'[u].weight + 1
    <3>1. CASE r \in DOMAIN best
      <4>1. /\ UpstreamsOf(r) \subseteq DOMAIN best /\ best[r].weight \in Nat \ {0}
            /\ \A u \in UpstreamsOf(r) : best[u].weight < best[r].weight
            /\ \/ best[r].weight = 1 /\ best[r].before = <<>>
               \/ \E u \in UpstreamsOf(r) :
                    best[r].before = <<u>> /\ best[r].weight = best[u].weight + 1
        BY <3>1 DEF Weighed
      <4> QED
        BY <2>7, <3>1, <4>1
    <3>2. CASE r \notin DOMAIN best
      <4>1. r \in next
        BY <2>7, <3>2
      <4> QED
        BY <2>5, <2>7, <2>8, <3>2, <4>1
    <3> QED
      BY <3>1, <3>2
  <2>10. ASSUME NEW i \in DOMAIN order, NEW r \in order[i] \cap DOMAIN best'
         PROVE  best'[r].weight <= i
    <3>1. CASE r \in DOMAIN best
      BY <2>7, <3>1 DEF Weighed
    <3>2. CASE r \notin DOMAIN best
      <4>1. r \in next
        BY <2>7, <3>2
      <4> QED
        BY <2>5, <2>8, <3>2, <4>1
    <3> QED
      BY <3>1, <3>2
  <2>11. DOMAIN best' \subseteq Nodes(graph)
    BY <2>6, <2>7 DEF Weighed
  <2>12. Weighed'
    <3>1. \A r : UpstreamsOf(r)' = UpstreamsOf(r)
      BY <1>1, UpstreamsKept
    <3> QED
      BY <1>1, <1>2, <2>9, <2>10, <2>11, <3>1 DEF Weighed
  <2>13. Traced'
    <3>1. chain' = <<>> /\ Len(chain') = 0 /\ chain' \in Seq(DOMAIN best')
      BY <1>1
    <3> QED
      BY <3>1 DEF Traced, IsChain
  <2> QED
    BY <1>1, <1>2, <2>4, <2>12, <2>13
<1> QED
  BY <1>4, <1>5

\* The chain grows by the upstream that comes before, or ends.
LEMMA TraceKeepsWeights ==
  ASSUME OrderInv, GraphShape, Weighed, Traced, ~stuck,
         Landed = Nodes(graph), DOMAIN best = Nodes(graph), Trace
  PROVE  /\ Weighed' /\ Traced' /\ UNCHANGED <<graph, order, stuck, best>>
         /\ Landed' = Nodes(graph)' /\ DOMAIN best' = Nodes(graph)'
         /\ stage' \in {"chain", "done"}
         /\ stage' = "done" =>
              IF chain' = <<>> THEN DOMAIN best' = {} ELSE best'[chain'[1]].weight = 1
<1>1. UNCHANGED <<graph, order, stuck, best>> /\ stage = "chain"
  BY DEF Trace
<1>2. Landed' = Nodes(graph)' /\ DOMAIN best' = Nodes(graph)'
  BY <1>1, UpstreamsKept DEF Landed
<1>3. Weighed'
  BY <1>1, UpstreamsKept DEF Weighed
<1>4. chain \in Seq(DOMAIN best) /\ IsChain(chain)
  BY DEF Traced
<1>5. CASE DOMAIN best = {}
  <2>1. UNCHANGED chain /\ stage' = "done"
    BY <1>5 DEF Trace
  <2>2. chain = <<>>
    BY <1>4, <1>5
  <2> QED
    BY <1>1, <1>2, <1>3, <1>5, <2>1, <2>2, WeightsKept
<1>6. CASE DOMAIN best # {} /\ chain = <<>>
  <2> DEFINE x == Least(Top(DOMAIN best))
  <2>1. chain' = <<x>> /\ stage' = "chain"
    BY <1>1, <1>6 DEF Trace
  <2>2. Len(order) \in Nat /\ \A r \in DOMAIN best : best[r].weight \in Nat /\ best[r].weight <= Len(order)
    <3>1. order \in Seq(SUBSET Nodes(graph))
      BY DEF OrderInv, Rounds
    <3>2. ASSUME NEW r \in DOMAIN best PROVE best[r].weight \in Nat /\ best[r].weight <= Len(order)
      <4>1. PICK i \in DOMAIN order : r \in order[i]
        BY <3>2 DEF Landed, ToSet
      <4>2. best[r].weight \in Nat /\ best[r].weight <= i
        BY <4>1 DEF Weighed
      <4>3. i \in Nat /\ i <= Len(order) /\ Len(order) \in Nat
        BY <3>1
      <4> QED
        BY <4>2, <4>3
    <3> QED
      BY <3>1, <3>2
  <2>3. x \in DOMAIN best /\ \A q \in DOMAIN best : best[q].weight <= best[x].weight
    BY <1>6, <2>2, TopHasFirst
  <2> HIDE DEF x
  <2>4. chain' \in Seq(DOMAIN best') /\ Len(chain') = 1 /\ chain'[1] = x
    BY <1>1, <2>1, <2>3
  <2>5. IsChain(chain)'
    BY <2>4 DEF IsChain
  <2>6. \A q \in DOMAIN best' : best'[q].weight <= best'[chain'[1]].weight + Len(chain') - 1
    BY <1>1, <2>2, <2>3, <2>4
  <2>7. Traced'
    BY <2>4, <2>5, <2>6 DEF Traced
  <2> QED
    BY <1>1, <1>2, <1>3, <2>1, <2>7
<1>7. CASE DOMAIN best # {} /\ chain # <<>>
  <2> DEFINE c == chain[1]
  <2>1. c \in DOMAIN best /\ Len(chain) \in Nat \ {0}
    BY <1>4, <1>7, PoppedOff
  <2>2. \/ best[c].weight = 1 /\ best[c].before = <<>>
        \/ \E u \in UpstreamsOf(c) : best[c].before = <<u>> /\ best[c].weight = best[u].weight + 1
    BY <2>1 DEF Weighed
  <2>3. UpstreamsOf(c) \subseteq DOMAIN best /\ \A r \in DOMAIN best : best[r].weight \in Nat
    BY <2>1 DEF Weighed
  <2>4. CASE best[c].before = <<>>
    <3>1. UNCHANGED chain /\ stage' = "done"
      BY <1>7, <2>4 DEF Trace
    <3>2. best[c].weight = 1
      <4>1. \A u : <<u>> # <<>>
        OBVIOUS
      <4> QED
        BY <2>2, <2>4, <4>1
    <3> QED
      BY <1>1, <1>2, <1>3, <1>7, <3>1, <3>2, WeightsKept
  <2>5. CASE best[c].before # <<>>
    <3>1. chain' = best[c].before \o chain /\ stage' = "chain"
      BY <1>1, <1>7, <2>5 DEF Trace
    <3>2. PICK u \in UpstreamsOf(c) : best[c].before = <<u>> /\ best[c].weight = best[u].weight + 1
      BY <2>2, <2>5
    <3>3. chain' = <<u>> \o chain /\ u \in DOMAIN best
      BY <2>3, <3>1, <3>2
    <3>4. /\ chain' \in Seq(DOMAIN best) /\ Len(chain') = Len(chain) + 1
          /\ chain'[1] = u /\ \A i \in 2..(Len(chain) + 1) :
               i - 1 \in DOMAIN chain /\ chain'[i] = chain[i - 1]
      BY <1>4, <3>3, PushedOn
    <3>5. ASSUME NEW i \in 1..(Len(chain') - 1)
          PROVE  chain'[i] \in UpstreamsOf(chain[i + 1])'
      <4>1. i \in Nat /\ i + 1 \in 2..(Len(chain) + 1) /\ (i + 1) - 1 = i /\ i <= Len(chain)
        BY <2>1, <3>4, <3>5
      <4>2. chain'[i + 1] = chain[i]
        BY <3>4, <4>1
      <4>3. CASE i = 1
        <5>1. chain'[i] \in UpstreamsOf(chain'[i + 1])
          BY <3>2, <3>4, <4>2, <4>3
        <5> QED
          BY <1>1, <5>1, UpstreamsKept
      <4>4. CASE i # 1
        <5>1. i \in 2..(Len(chain) + 1) /\ i - 1 \in 1..(Len(chain) - 1) /\ (i - 1) + 1 = i
          BY <2>1, <3>5, <4>1, <4>4
        <5>2. chain[i - 1] \in UpstreamsOf(chain[(i - 1) + 1])
          BY <1>4, <5>1 DEF IsChain
        <5>3. chain'[i] \in UpstreamsOf(chain'[i + 1])
          BY <3>4, <4>2, <5>1, <5>2
        <5> QED
          BY <1>1, <5>3, UpstreamsKept
      <4> QED
        BY <4>3, <4>4
    <3>6. IsChain(chain)'
      BY <3>5 DEF IsChain
    <3>7. ASSUME NEW q \in DOMAIN best'
          PROVE  best'[q].weight <= best'[chain'[1]].weight + Len(chain') - 1
      <4>1. best[q].weight <= best[c].weight + Len(chain) - 1
        BY <1>1, <1>7, <3>7 DEF Traced
      <4>2. /\ best[q].weight \in Nat /\ best[u].weight \in Nat
            /\ best[c].weight = best[u].weight + 1
        BY <1>1, <2>3, <3>2, <3>3, <3>7
      <4> HIDE DEF c
      <4> QED
        BY <1>1, <2>1, <3>4, <4>1, <4>2
    <3>8. Traced'
      BY <1>1, <3>4, <3>6, <3>7 DEF Traced
    <3> QED
      BY <1>1, <1>2, <1>3, <3>1, <3>8
  <2> QED
    BY <2>4, <2>5
<1> QED
  BY <1>5, <1>6, <1>7

\* A chain is no longer than the weight of its end.
LEMMA ChainsWeigh ==
  ASSUME Weighed, DOMAIN best = Nodes(graph), NEW n \in Nat, NEW s \in [1..n -> Nodes(graph)],
         IsChain(s), NEW i \in 1..n
  PROVE  best[s[i]].weight >= i
<1> DEFINE Bad == {j \in 1..n : ~(best[s[j]].weight >= j)}
<1>1. \A j \in 1..n : s[j] \in DOMAIN best /\ best[s[j]].weight \in Nat \ {0}
  BY DEF Weighed
<1>2. Len(s) = n
  OBVIOUS
<1>3. CASE Bad = {}
  BY <1>3
<1>4. CASE Bad # {}
  <2>1. PICK j \in Bad : \A k \in Bad : j <= k
    <3>1. Bad \in SUBSET Nat
      OBVIOUS
    <3> HIDE DEF Bad
    <3> QED
      BY <1>4, <3>1, FirstName
  <2>2. j \in 1..n /\ ~(best[s[j]].weight >= j)
    BY <2>1
  <2>3. j # 1
    BY <1>1, <2>2
  <2>4. j - 1 \in 1..(n - 1) /\ j - 1 \in 1..n /\ (j - 1) + 1 = j /\ ~(j <= j - 1)
    BY <2>2, <2>3
  <2>5. j - 1 \notin Bad
    BY <2>1, <2>4
  <2>6. best[s[j - 1]].weight >= j - 1
    BY <2>4, <2>5
  <2>7. s[j - 1] \in UpstreamsOf(s[j])
    BY <1>2, <2>4 DEF IsChain
  <2>8. best[s[j - 1]].weight < best[s[j]].weight
    BY <1>1, <2>2, <2>7 DEF Weighed
  <2> HIDE DEF Bad
  <2> QED
    BY <1>1, <2>2, <2>4, <2>6, <2>8
<1> QED
  BY <1>3, <1>4

\* Every step keeps the weights and the chain.
LEMMA NextKeepsWeights ==
  ASSUME WeighInv, OrderInv, ReadInv, [Next]_vars PROVE WeighInv'
<1>1. CASE UNCHANGED <<pc, graph, analysis>>
  <2>1. UNCHANGED <<graph, order, best, chain, stage, stuck, pc>>
    BY <1>1 DEF analysis, landing
  <2>2. Weighed' /\ Traced' /\ Landed' = Landed /\ Nodes(graph)' = Nodes(graph)
    BY <2>1, WeightsKept DEF WeighInv
  <2> QED
    BY <2>1, <2>2 DEF WeighInv
<1>2. ASSUME stage \in {"reading", "cycles", "confirm", "routes", "order"},
             UNCHANGED <<best, chain>>, stage' \in Stage \ {"chain", "done"},
             stage' = "weigh" => Landed' = Nodes(graph)' /\ stage # "reading",
             pc' # "analysis" => stage' = "reading"
      PROVE  WeighInv'
  <2>1. best' = <<>> /\ chain' = <<>>
    BY <1>2 DEF WeighInv
  <2>2. Weighed' /\ Traced'
    BY <2>1, WeightsStart
  <2> QED
    BY <1>2, <2>1, <2>2 DEF WeighInv
<1>3. CASE stage = "reading" /\ UNCHANGED analysis
  BY <1>2, <1>3 DEF WeighInv, analysis, landing
<1>4. CASE /\ stage = "reading" /\ stage' = "cycles" /\ pc' = "analysis"
           /\ UNCHANGED <<graph, tarjan, cycles, confirmed, walk, routes, landing>>
  BY <1>2, <1>4 DEF WeighInv, Stage, landing
<1>5. CASE pc = "analysis" /\ Analyse /\ UNCHANGED pc
  <2>1. CASE Root \/ FollowEdge \/ Return \/ Confirm \/ RoutesInto \/ Follow \/ FollowReturns
    <3>1. /\ stage \in {"cycles", "confirm", "routes"}
          /\ stage' \in {"cycles", "confirm", "routes", "order"}
          /\ UNCHANGED <<best, chain>>
      BY <2>1 DEF Root, FollowEdge, Return, Confirm, RoutesInto, Follow, FollowReturns, landing
    <3> QED
      BY <1>2, <1>5, <3>1 DEF Stage
  <2>2. CASE Land
    <3>1. stage = "order" /\ UNCHANGED <<graph, best, chain>> /\ best = <<>> /\ chain = <<>>
      BY <2>2 DEF Land, WeighInv
    <3>2. CASE Landed = Nodes(graph)
      <4>1. stage' = "weigh" /\ UNCHANGED <<order, stuck>>
        BY <2>2, <3>2 DEF Land
      <4>2. Landed' = Nodes(graph)'
        BY <3>1, <3>2, <4>1, UpstreamsKept DEF Landed
      <4> QED
        BY <1>2, <1>5, <3>1, <4>1, <4>2 DEF Stage
    <3>3. CASE Landed # Nodes(graph) /\ Ready(Landed) = {}
      <4>1. stuck' = TRUE /\ stage' = "done" /\ best' = <<>> /\ chain' = <<>>
        BY <2>2, <3>1, <3>3 DEF Land
      <4>2. Weighed' /\ Traced'
        BY <4>1, WeightsStart
      <4> QED
        BY <1>5, <4>1, <4>2 DEF WeighInv, Stage
    <3>4. CASE Landed # Nodes(graph) /\ Ready(Landed) # {}
      <4>1. UNCHANGED stage
        BY <2>2, <3>4 DEF Land
      <4> QED
        BY <1>2, <1>5, <3>1, <4>1 DEF Stage
    <3> QED
      BY <3>2, <3>3, <3>4
  <2>3. CASE Weigh
    <3>1. stage = "weigh" /\ ~stuck
      BY <2>3 DEF Weigh, OrderInv, Staged
    <3>2. GraphShape /\ Weighed /\ Traced /\ chain = <<>> /\ Landed = Nodes(graph)
      BY <3>1 DEF WeighInv, ReadInv
    <3>3. /\ Weighed' /\ Traced' /\ UNCHANGED <<graph, order, stuck, chain>>
          /\ stage' \in {"weigh", "chain"} /\ Landed' = Nodes(graph)'
          /\ stage' = "chain" => DOMAIN best' = Nodes(graph)'
      BY <2>3, <3>2, WeighKeepsWeights
    <3> QED
      BY <1>5, <3>2, <3>3 DEF WeighInv, Stage
  <2>4. CASE Trace
    <3>1. stage = "chain" /\ ~stuck
      BY <2>4 DEF Trace, OrderInv, Staged
    <3>2. GraphShape /\ Weighed /\ Traced /\ Landed = Nodes(graph) /\ DOMAIN best = Nodes(graph)
      BY <3>1 DEF WeighInv, ReadInv
    <3>3. /\ Weighed' /\ Traced' /\ UNCHANGED <<graph, order, stuck, best>>
          /\ Landed' = Nodes(graph)' /\ DOMAIN best' = Nodes(graph)'
          /\ stage' \in {"chain", "done"}
          /\ stage' = "done" =>
               IF chain' = <<>> THEN DOMAIN best' = {} ELSE best'[chain'[1]].weight = 1
      BY <2>4, <3>1, <3>2, TraceKeepsWeights
    <3> QED
      BY <1>5, <3>3 DEF WeighInv, Stage
  <2> QED
    BY <1>5, <2>1, <2>2, <2>3, <2>4 DEF Analyse
<1> QED
  BY <1>1, <1>3, <1>4, <1>5, StepsOfAnalysis DEF WeighInv

\* Weights and chain are sound in every state.
THEOREM WeightsAreSound == Spec => []WeighInv
<1>1. Init => WeighInv
  <2> SUFFICES ASSUME Init PROVE WeighInv
    OBVIOUS
  <2>1. stage = "reading" /\ best = <<>> /\ chain = <<>>
    BY DEF Init, NotAnalysed
  <2>2. DOMAIN best = {} /\ chain \in Seq(DOMAIN best) /\ Len(chain) = 0
    BY <2>1
  <2>3. IsChain(chain)
    BY <2>2 DEF IsChain
  <2> QED
    BY <2>1, <2>2, <2>3 DEF WeighInv, Weighed, Traced, Stage
<1> QED
  BY <1>1, NextKeepsWeights, OrderInvariant, ReadsAreTrue, PTL DEF Spec

\* No chain of the graph is longer than the one found.
LEMMA ChainFinds ==
  ASSUME WeighInv, stage = "done"
  PROVE  ChainIsLongest
<1> SUFFICES ASSUME ~stuck PROVE ChainIsLongest
  BY DEF ChainIsLongest
<1>1. /\ Weighed /\ Traced /\ DOMAIN best = Nodes(graph)
      /\ IF chain = <<>> THEN DOMAIN best = {} ELSE best[chain[1]].weight = 1
  BY DEF WeighInv
<1>2. chain \in Seq(DOMAIN best) /\ IsChain(chain) /\ Len(chain) \in Nat
  BY <1>1 DEF Traced
<1> DEFINE n == Len(chain) + 1
<1>3. ASSUME NEW s \in [1..n -> Nodes(graph)], IsChain(s)
      PROVE  FALSE
  <2>1. n \in Nat /\ n \in 1..n
    BY <1>2
  <2> HIDE DEF n
  <2>2. best[s[n]].weight >= n /\ s[n] \in DOMAIN best
    BY <1>1, <1>3, <2>1, ChainsWeigh
  <2>3. chain # <<>> /\ best[chain[1]].weight = 1
    BY <1>1, <2>2
  <2>4. best[s[n]].weight <= best[chain[1]].weight + Len(chain) - 1
    BY <1>1, <2>2, <2>3 DEF Traced
  <2>5. best[s[n]].weight \in Nat
    BY <1>1, <2>2 DEF Weighed
  <2> QED
    BY <1>2, <2>2, <2>3, <2>4, <2>5 DEF n
<1> QED
  BY <1>2, <1>3 DEF ChainIsLongest

\* Where repositories wait for one another, one is in a cycle.
LEMMA CircleHasCycle ==
  ASSUME CyclesAreComponents, IsFiniteSet(Nodes(graph)),
         NEW S \in SUBSET Nodes(graph), S # {}, \A r \in S : UpstreamsOf(r) \cap S # {}
  PROVE  cycles # {}
<1> DEFINE Reach(r) == AllUpstreams(r) \cap S
           Sizes == {Cardinality(Reach(r)) : r \in S}
<1>1. \A r \in S : IsFiniteSet(Reach(r)) /\ Cardinality(Reach(r)) \in Nat
  <2>1. ASSUME NEW r \in S PROVE IsFiniteSet(Reach(r)) /\ Cardinality(Reach(r)) \in Nat
    <3>1. Reach(r) \subseteq Nodes(graph)
      OBVIOUS
    <3> QED
      BY <3>1, FS_Subset, FS_CardinalityType
  <2> QED
    BY <2>1
<1>2. PICK r \in S : \A q \in S : Cardinality(Reach(r)) <= Cardinality(Reach(q))
  <2>1. Sizes \in SUBSET Nat /\ Sizes # {}
    BY <1>1
  <2>2. PICK size \in Sizes : \A x \in Sizes : size <= x
    <3> HIDE DEF Sizes
    <3> QED
      BY <2>1, FirstName
  <2> HIDE DEF Reach
  <2>3. PICK r \in S : Cardinality(Reach(r)) = size
    BY <2>2
  <2>4. \A q \in S : Cardinality(Reach(q)) \in Sizes
    OBVIOUS
  <2> QED
    BY <2>2, <2>3, <2>4
<1>3. PICK u \in S : u \in UpstreamsOf(r)
  BY <1>2
<1>4. u \in AllUpstreams(r) /\ Reach(u) \subseteq Reach(r) /\ u \in Reach(r)
  BY <1>3, AllUpstreamsClosed, UpstreamIsTransitive
<1>5. Reach(u) = Reach(r)
  <2>1. IsFiniteSet(Reach(r)) /\ Cardinality(Reach(r)) <= Cardinality(Reach(u))
        /\ Cardinality(Reach(r)) \in Nat /\ Cardinality(Reach(u)) \in Nat
    BY <1>1, <1>2, <1>3
  <2>2. Reach(u) \subseteq Reach(r)
    BY <1>4
  <2> HIDE DEF Reach
  <2>3. /\ Cardinality(Reach(u)) <= Cardinality(Reach(r))
        /\ Cardinality(Reach(u)) = Cardinality(Reach(r)) => Reach(u) = Reach(r)
    BY <2>1, <2>2, FS_Subset
  <2> QED
    BY <2>1, <2>3
<1>6. u \in AllUpstreams(u)
  BY <1>4, <1>5
<1>7. u \in Component(u) /\ u \in Nodes(graph)
  BY <1>6 DEF Component
<1> QED
  BY <1>7 DEF CyclesAreComponents

\* What lands has everything upstream of it landed before.
LEMMA UpstreamsLandBefore ==
  ASSUME OrderInv, NEW i \in DOMAIN order, NEW r \in order[i]
  PROVE  r \notin AllUpstreams(r)
<1> DEFINE Before == {q \in Nodes(graph) : \E j \in 1..(i - 1) : q \in order[j]}
<1>1. order \in Seq(SUBSET Nodes(graph)) /\ DOMAIN order = 1..Len(order) /\ Len(order) \in Nat
  BY DEF OrderInv, Rounds
<1>2. \A j \in 1..(i - 1) : j \in DOMAIN order /\ j \in Nat
  BY <1>1
<1>3. UpstreamsOf(r) \subseteq Before
  BY UpstreamsAreNodes DEF OrderInv, LandsUpstreamsFirst
<1>4. ASSUME NEW q \in Before PROVE UpstreamsOf(q) \subseteq Before
  <2>1. PICK j \in 1..(i - 1) : q \in order[j]
    BY <1>4
  <2>2. ASSUME NEW u \in UpstreamsOf(q) PROVE u \in Before
    <3>1. PICK k \in 1..(j - 1) : u \in order[k]
      BY <1>2, <2>1, <2>2 DEF OrderInv, LandsUpstreamsFirst
    <3>2. k \in 1..(i - 1)
      BY <1>1, <2>1, <3>1
    <3> QED
      BY <3>1, <3>2, UpstreamsAreNodes
  <2> QED
    BY <2>2
<1>5. AllUpstreams(r) \subseteq Before
  <2>1. Before \in SUBSET Nodes(graph)
    OBVIOUS
  <2> HIDE DEF Before
  <2> QED
    BY <1>3, <1>4, <2>1, AllUpstreamsLeast
<1>6. r \notin Before
  BY DEF OrderInv, LandsUpstreamsFirst
<1> QED
  BY <1>5, <1>6

\* There is no landing order exactly if there is a cycle.
LEMMA OrderFinds ==
  ASSUME SearchInv, WeighInv, OrderInv, StuckWaitsInCircle, stage = "done"
  PROVE  OrderIsComplete
<1>1. CyclesAreComponents
  BY SearchFinds
<1>2. ~stuck => Landed = Nodes(graph)
  BY DEF WeighInv
<1>3. ASSUME stuck PROVE cycles # {}
  <2>1. IsFiniteSet(Nodes(graph))
    BY DEF SearchInv, SearchEnds, Search, Numbered
  <2>2. PICK S \in SUBSET Nodes(graph) : S # {} /\ \A r \in S : UpstreamsOf(r) \cap S # {}
    BY <1>3 DEF StuckWaitsInCircle
  <2> QED
    BY <1>1, <2>1, <2>2, CircleHasCycle
<1>4. ASSUME ~stuck, cycles # {} PROVE FALSE
  <2>1. PICK r \in Nodes(graph) : Component(r) # {}
    BY <1>1, <1>4 DEF CyclesAreComponents
  <2>2. PICK q \in AllUpstreams(r) : r \in AllUpstreams(q)
    BY <2>1 DEF Component
  <2>3. r \in AllUpstreams(r)
    BY <2>2, UpstreamIsTransitive
  <2>4. PICK i \in DOMAIN order : r \in order[i]
    BY <1>2, <1>4 DEF Landed, ToSet
  <2> QED
    BY <2>3, <2>4, UpstreamsLandBefore
<1>5. stuck \in BOOLEAN => (stuck <=> cycles # {})
  BY <1>3, <1>4
<1> QED
  BY <1>2, <1>3, <1>4 DEF OrderIsComplete

-----------------------------------------------------------------------------
(***************************************************************************)
(* Edges are those of repositories that were scanned: what is confirmed,   *)
(* and what diamonds and hearsay are.                                      *)
(***************************************************************************)

\* No edge leaves a repository whose scan failed.
EdgesAreScanned ==
  /\ \A e \in EdgesOf(graph) : Scanned(graph, e.from)
  /\ DOMAIN adding.files # {} => Scanned(graph, adding.repo)

\* A successful scan stays, and a snapshot that was scanned makes one.
LEMMA ScansStay ==
  ASSUME NEW scans, NEW repo, NEW scan
  PROVE  /\ \A r \in DOMAIN scans : scans[r].status = "Scanned" =>
              /\ r \in DOMAIN RecordScan(scans, repo, scan)
              /\ RecordScan(scans, repo, scan)[r].status = "Scanned"
         /\ scan.status = "Scanned" =>
              /\ repo \in DOMAIN RecordScan(scans, repo, scan)
              /\ RecordScan(scans, repo, scan)[repo].status = "Scanned"
BY DEF RecordScan

\* Edges stay those of scanned repositories if scans stay and edges do.
LEMMA ScannedKept ==
  ASSUME EdgesAreScanned, graph'.edges = graph.edges, UNCHANGED adding,
         \A r : Scanned(graph, r) => Scanned(graph', r)
  PROVE  EdgesAreScanned'
BY DEF EdgesAreScanned, EdgesOf

\* A snapshot that is recorded counts only if it was scanned.
LEMMA RecordsKeepScanned ==
  ASSUME EdgesAreScanned, GraphShape, NEW snap, NEW role, Records(snap, role)
  PROVE  EdgesAreScanned'
<1>1. /\ graph' = Recorded(graph, snap, role)
      /\ adding' = [repo |-> snap.repo, files |-> [f \in Counted(snap, role) |-> snap.files[f]]]
  BY DEF Records
<1>2. graph'.scans = RecordScan(graph.scans, snap.repo, snap.scan) /\ graph'.edges = graph.edges
  BY <1>1, RecordedFields
<1>3. \A r : Scanned(graph, r) => Scanned(graph', r)
  BY <1>2, ScansStay DEF Scanned
<1>4. adding'.repo = snap.repo /\ DOMAIN adding'.files = Counted(snap, role)
  BY <1>1
<1>5. ASSUME DOMAIN adding'.files # {} PROVE Scanned(graph', adding'.repo)
  <2>1. snap.scan.status = "Scanned"
    BY <1>4, <1>5 DEF Counted
  <2> QED
    BY <1>2, <1>4, <2>1, ScansStay DEF Scanned
<1>6. \A e \in EdgesOf(graph') : Scanned(graph', e.from)
  BY <1>2, <1>3 DEF EdgesAreScanned, EdgesOf
<1> QED
  BY <1>5, <1>6 DEF EdgesAreScanned

\* The edges of a file are of the repository that was scanned.
LEMMA AddFileKeepsScanned ==
  ASSUME EdgesAreScanned, ReadInv, AddFile
  PROVE  EdgesAreScanned'
<1>1. DOMAIN adding.files # {}
  BY DEF AddFile, NothingToAdd
<1> DEFINE f == CHOOSE x \in DOMAIN adding.files : \A y \in DOMAIN adding.files : x <= y
<1>2. f \in DOMAIN adding.files
  <2>1. DOMAIN adding.files \subseteq Nat
    BY NameAssumption DEF ReadInv, AddingIsCalled
  <2>2. \E x \in DOMAIN adding.files : \A y \in DOMAIN adding.files : x <= y
    BY <1>1, <2>1, FirstName
  <2> QED
    BY <2>2
<1>3. /\ graph' = AddEdges(graph, adding.repo, f, adding.files[f])
      /\ adding' = [adding EXCEPT !.files = [x \in DOMAIN @ \ {f} |-> @[x]]]
  BY DEF AddFile
<1> HIDE DEF f
<1>4. f \in File /\ adding.repo \in Repo /\ adding.files[f] \in Seq(Use)
  BY <1>2 DEF ReadInv, AddingIsCalled
<1>5. /\ \A e \in EdgesOf(graph') : e \in EdgesOf(graph) \/ e.from = adding.repo
      /\ graph'.scans = graph.scans
  BY <1>3, <1>4, EdgesAreJoined DEF ReadInv
<1>6. \A r : Scanned(graph', r) <=> Scanned(graph, r)
  BY <1>5 DEF Scanned
<1>7. adding'.repo = adding.repo
  BY <1>3
<1> QED
  BY <1>1, <1>5, <1>6, <1>7 DEF EdgesAreScanned

\* Reads of names add no edge.
LEMMA NamesKeepScanned ==
  ASSUME EdgesAreScanned, GraphShape, ReadingEnds \/ ResolveName \/ ProbeOwner
  PROVE  EdgesAreScanned'
<1>1. UNCHANGED adding
  BY DEF ReadingEnds, ResolveName, ProbeOwner, record
<1>2. \/ UNCHANGED graph
      \/ \E notes : graph' = [graph EXCEPT !.notes = notes]
      \/ \E names : graph' = [graph EXCEPT !.canonical = names]
      \/ \E n : graph' = [graph EXCEPT !.scans = RecordScan(graph.scans, n, NotFound)]
  <2>1. graph = [scans |-> graph.scans, edges |-> graph.edges, subjects |-> graph.subjects,
                 canonical |-> graph.canonical, notes |-> graph.notes]
    BY DEF GraphShape
  <2>2. CASE ReadingEnds
    BY <2>1, <2>2 DEF ReadingEnds
  <2>3. CASE ResolveName
    BY <2>1, <2>3 DEF ResolveName, Unverified, NameAnswers
  <2>4. CASE ProbeOwner
    BY <2>1, <2>4 DEF ProbeOwner, OwnerVerdict, Unverified
  <2> QED
    BY <2>2, <2>3, <2>4
<1>3. graph'.edges = graph.edges
  BY <1>2 DEF GraphShape
<1>4. graph'.scans = graph.scans \/ \E n : graph'.scans = RecordScan(graph.scans, n, NotFound)
  BY <1>2 DEF GraphShape
<1>5. \A r : Scanned(graph, r) => Scanned(graph', r)
  BY <1>4, ScansStay DEF Scanned
<1> QED
  BY <1>1, <1>3, <1>5, ScannedKept

\* Every step keeps the edges those of scanned repositories.
LEMMA NextKeepsScanned ==
  ASSUME EdgesAreScanned, ReadInv, [Next]_vars PROVE EdgesAreScanned'
<1>1. GraphShape
  BY DEF ReadInv
<1>2. ASSUME UNCHANGED <<graph, adding>> PROVE EdgesAreScanned'
  BY <1>2 DEF EdgesAreScanned
<1>3. CASE GitHub \/ Finished \/ UNCHANGED vars \/ Report \/ NamesEnd
  BY <1>2, <1>3 DEF GitHub, Finished, Report, NamesEnd, vars, process, record
<1>4. CASE ReadRemote \/ FetchBatch \/ SkipBatch \/ FetchEnds \/ FollowLevel
  BY <1>2, <1>4 DEF ReadRemote, FetchBatch, SkipBatch, FetchEnds, FollowLevel, record
<1>5. CASE ReadLocal
  <2>1. \E snap : Records(snap, Subject)
    BY <1>5 DEF ReadLocal
  <2> QED
    BY <1>1, <2>1, RecordsKeepScanned
<1>6. CASE RecordNext
  <2>1. \E snap, role : Records(snap, role)
    BY <1>6 DEF RecordNext
  <2> QED
    BY <1>1, <2>1, RecordsKeepScanned
<1>7. CASE AddFile
  BY <1>7, AddFileKeepsScanned
<1>8. CASE ReadingEnds \/ ResolveName \/ ProbeOwner
  BY <1>1, <1>8, NamesKeepScanned
<1>9. CASE Analyse /\ UNCHANGED process
  <2>1. UNCHANGED graph
    BY <1>9 DEF Analyse, Root, FollowEdge, Return, Confirm, RoutesInto, Follow,
                FollowReturns, Land, Weigh, Trace
  <2> QED
    BY <1>2, <1>9, <2>1 DEF process, record
<1> QED
  BY <1>3, <1>4, <1>5, <1>6, <1>7, <1>8, <1>9 DEF Next, Run

\* Edges are those of scanned repositories in every state.
LEMMA OnlyScannedHaveEdges == Spec => []EdgesAreScanned
<1>1. Init => EdgesAreScanned
  <2> SUFFICES ASSUME Init PROVE EdgesAreScanned
    OBVIOUS
  <2>1. graph.edges = <<>> /\ adding.files = <<>>
    BY DEF Init, EmptyGraph, NoFilesLeft
  <2>2. EdgesOf(graph) = {} /\ DOMAIN adding.files = {}
    BY <2>1 DEF EdgesOf
  <2> QED
    BY <2>2 DEF EdgesAreScanned
<1> QED
  BY <1>1, NextKeepsScanned, ReadsAreTrue, PTL DEF Spec

\* Where only what was scanned has edges, all edges count.
LEMMA AllEdgesCount ==
  ASSUME EdgesAreScanned PROVE FromScanned(graph) = EdgesOf(graph)
BY DEF EdgesAreScanned, FromScanned

\* What is confirmed is what paths of exact pins reach.
LEMMA ConfirmedFinds ==
  ASSUME LeastInv, EdgesAreScanned, stage = "done"
  PROVE  ConfirmedAreReached
<1> DEFINE read  == EdgesOf(graph)
           start == {e \in read : e.from \in graph.subjects}
           led   == {p \in read \X read : Carries(p[1], p[2]) /\ PinnedRevision(graph, p[1])}
           reach == Reached(start, led, read)
<1>1. /\ ConfirmsNothing(confirmed)
      /\ \A S \in SUBSET EdgesOf(graph) : ConfirmsNothing(S) => confirmed \subseteq S
  BY DEF LeastInv
<1>2. /\ start \subseteq reach /\ reach \subseteq read
      /\ \A p \in led : p[1] \in reach /\ p[2] \in read => p[2] \in reach
  <2>1. start \subseteq read
    OBVIOUS
  <2> HIDE DEF start, led, read
  <2> QED
    BY <2>1, ReachedIsClosed
<1>3. ConfirmsNothing(reach)
  <2> HIDE DEF reach
  <2>1. ASSUME NEW e \in read \ reach, NEW caller \in reach, Carries(caller, e),
               PinnedRevision(graph, caller)
        PROVE  FALSE
    <3>1. <<caller, e>> \in led /\ <<caller, e>>[1] = caller /\ <<caller, e>>[2] = e
      BY <1>2, <2>1
    <3> QED
      BY <1>2, <2>1, <3>1
  <2> QED
    BY <1>2, <2>1 DEF ConfirmsNothing, Additions
<1>4. confirmed \subseteq reach
  BY <1>1, <1>2, <1>3
<1>5. reach \subseteq confirmed
  <2>1. \A e \in EdgesOf(graph) \ confirmed :
          /\ e.from \notin graph.subjects
          /\ \A caller \in confirmed : ~(Carries(caller, e) /\ PinnedRevision(graph, caller))
    BY <1>1 DEF ConfirmsNothing, Additions, EdgesAreScanned
  <2>2. confirmed \in SUBSET read /\ start \subseteq confirmed
    BY <1>1, <2>1 DEF ConfirmsNothing
  <2>3. \A p \in led : p[1] \in confirmed => p[2] \in confirmed
    BY <2>1
  <2> HIDE DEF start, led, read
  <2> QED
    BY <2>2, <2>3, ReachedIsLeast
<1>6. FromScanned(graph) = read
  BY AllEdgesCount
<1>7. confirmed = Reached(start, led, read)
  BY <1>4, <1>5
<1> HIDE DEF read
<1> QED
  BY <1>6, <1>7 DEF ConfirmedAreReached

\* Diamonds are those of the routes, and skews of the graph.
LEMMA DiamondsFind ==
  ASSUME EdgesAreScanned, RoutesReachEveryPin
  PROVE  DiamondsAreFound
<1> DEFINE targets_ == {CanonicalOf(graph, e.to) : e \in EdgesOf(graph)}
           into(c, t) == {r \in routes[c] : CanonicalOf(graph, r.target) = t}
<1>1. ASSUME NEW c \in Consumers, NEW r \in routes[c]
      PROVE  \E e \in FromScanned(graph) : e.to = r.target /\ e.pin = r.pin
  <2>1. <<r.target, r.pin>> \in {<<e.to, e.pin>> : e \in CalledBy(c)}
    BY <1>1 DEF RoutesReachEveryPin
  <2>2. CalledBy(c) \subseteq EdgesOf(graph)
    BY DEF CalledBy, Reached
  <2> QED
    BY <2>1, <2>2, AllEdgesCount
<1>2. ASSUME NEW d \in Diamonds
      PROVE  d.target \in PinSkews(graph)
  <2>1. PICK c \in Consumers, t \in targets_ :
          d.target = t /\ \E r, q \in into(c, t) : r.pin # q.pin
    BY <1>2 DEF Diamonds
  <2>2. PICK r \in routes[c], q \in routes[c] :
          CanonicalOf(graph, r.target) = t /\ CanonicalOf(graph, q.target) = t /\ r.pin # q.pin
    BY <2>1
  <2>3. PICK e \in FromScanned(graph) : e.to = r.target /\ e.pin = r.pin
    BY <1>1
  <2>4. PICK o \in FromScanned(graph) : o.to = q.target /\ o.pin = q.pin
    BY <1>1
  <2> QED
    BY <2>1, <2>2, <2>3, <2>4 DEF PinSkews
<1>3. ASSUME NEW c \in Consumers, NEW r \in routes[c], NEW q \in routes[c],
             CanonicalOf(graph, q.target) = CanonicalOf(graph, r.target),
             CanonicalOf(graph, r.target) # c, r.pin # q.pin, r.via # <<>>
      PROVE  \E d \in Diamonds : d.consumer = c /\ d.target = CanonicalOf(graph, r.target)
  <2> DEFINE t == CanonicalOf(graph, r.target)
             d == [consumer |-> c, target |-> t, routes |-> into(c, t)]
  <2>1. t \in targets_
    BY <1>1, <1>3, AllEdgesCount
  <2>2. r \in into(c, t) /\ q \in into(c, t)
    BY <1>3
  <2> HIDE DEF t
  <2>3. /\ <<c, t>> \in Consumers \X targets_ /\ <<c, t>>[1] = c /\ <<c, t>>[2] = t
        /\ c # t
    BY <1>3, <2>1 DEF t
  <2>4. d \in Diamonds
    BY <1>3, <2>2, <2>3 DEF Diamonds
  <2> QED
    BY <2>4 DEF t
<1> QED
  BY <1>2, <1>3 DEF DiamondsAreFound

\* Nothing that was only referenced was scanned, or found dead.
LEMMA NobodyOnHearsayHolds == NobodyOnHearsay
<1>1. \A e \in FromScanned(graph) : e.from \in DOMAIN graph.scans
  BY DEF FromScanned, Scanned
<1>2. DeadUpstreams(graph) \subseteq DOMAIN graph.scans
  BY DEF DeadUpstreams
<1>3. MutablePins(graph) \subseteq DOMAIN graph.scans
  BY <1>1 DEF MutablePins
<1>4. \A d \in Diamonds : d.consumer \in DOMAIN graph.scans
  <2>1. \A d \in Diamonds : d.consumer \in Consumers
    BY DEF Diamonds
  <2> QED
    BY <1>1, <2>1 DEF Consumers
<1>5. \A m \in MovedUpstreams(graph, confirmed) : \A e \in m.consumers :
        e.from \in DOMAIN graph.scans
  <2>1. \A m \in MovedUpstreams(graph, confirmed) : m.consumers \subseteq FromScanned(graph)
    BY DEF MovedUpstreams
  <2> QED
    BY <1>1, <2>1
<1>6. {e.from : e \in UNION {m.consumers : m \in MovedUpstreams(graph, confirmed)}}
        \subseteq DOMAIN graph.scans
  BY <1>5
<1>7. {d.consumer : d \in Diamonds} \subseteq DOMAIN graph.scans
  BY <1>4
<1>8. Frontier(graph) \cap DOMAIN graph.scans = {}
  BY DEF Frontier
<1> QED
  BY <1>2, <1>3, <1>6, <1>7, <1>8 DEF NobodyOnHearsay

-----------------------------------------------------------------------------
(***************************************************************************)
(* Routes.  While `follow` walks from a consumer, what it has seen is      *)
(* called, and what is not followed yet is in a frame.                     *)
(***************************************************************************)

\* The edges that the walk of a consumer has come to.
Seen ==
  {e \in EdgesOf(graph) : e.from = walk.consumer \/ <<e.from, e.file>> \in walk.visited}

\* The targets and pins of edges, and of the routes into a consumer.
PinsOf(edges) == {<<e.to, e.pin>> : e \in edges}
PinsInto(c) == {<<r.target, r.pin>> : r \in routes[c]}

\* Positions of edges that a frame is still to follow.
ToFollow ==
  {j \in DOMAIN graph.edges : \E i \in DOMAIN walk.frames : j \in walk.frames[i].left}

\* The file an edge calls, if any, was followed.
IsFollowed(e) == e.call = NoFile \/ IsSelf(e) \/ <<e.to, e.call>> \in walk.visited

\* The routes into the consumer at hand so far are those of the edges seen; what is
\* seen is called, and is followed or still to follow.
Walking ==
  /\ walk.consumer \in DOMAIN routes
  /\ Seen \subseteq CalledBy(walk.consumer)
  /\ \A j \in ToFollow : graph.edges[j] \in Seen
  /\ \A j \in DOMAIN graph.edges :
       graph.edges[j] \in Seen => j \in ToFollow \/ IsFollowed(graph.edges[j])
  /\ PinsInto(walk.consumer) = PinsOf(Seen)

\* A frame of `follow`.
RouteFrame == [via : Seq(Repo), left : SUBSET DOMAIN graph.edges]

\* The consumers with routes have all of them, but for the one at hand.
Routing ==
  /\ walk = [consumer |-> walk.consumer, frames |-> walk.frames, visited |-> walk.visited]
  /\ walk.frames \in Seq(RouteFrame)
  /\ DOMAIN routes \subseteq Consumers
  /\ walk.frames # <<>> => Walking
  /\ \A c \in DOMAIN routes :
       (walk.frames # <<>> /\ c = walk.consumer) \/ PinsInto(c) = PinsOf(CalledBy(c))

\* Routes are made in their stage, of all consumers.
RoutesInv ==
  /\ stage \in Stage /\ (pc # "analysis" => stage = "reading")
  /\ stage = "reading" => walk = NoWalk /\ routes = <<>>
  /\ stage # "reading" => Routing
  /\ stage \in {"order", "weigh", "chain", "done"} =>
       walk.frames = <<>> /\ Consumers \subseteq DOMAIN routes

\* What is called from a consumer is so until the graph changes.
LEMMA CallsKept ==
  ASSUME UNCHANGED graph
  PROVE  /\ \A c : CalledBy(c)' = CalledBy(c)
         /\ Consumers' = Consumers /\ RouteFrame' = RouteFrame
         /\ EdgesOf(graph)' = EdgesOf(graph)
BY DEF CalledBy, Reached, Consumers, RouteFrame, FromScanned, Scanned, EdgesOf

\* Own edges are called, and what calls lead to.
LEMMA CalledByIsClosed ==
  ASSUME NEW c
  PROVE  /\ CalledBy(c) \subseteq EdgesOf(graph)
         /\ \A e \in EdgesOf(graph) : e.from = c => e \in CalledBy(c)
         /\ \A d \in CalledBy(c), e \in EdgesOf(graph) :
              ~IsSelf(d) /\ Carries(d, e) => e \in CalledBy(c)
<1> DEFINE edges == EdgesOf(graph)
           own   == {e \in edges : e.from = c}
           calls == {p \in edges \X edges : ~IsSelf(p[1]) /\ Carries(p[1], p[2])}
<1>1. CalledBy(c) = Reached(own, calls, edges)
  BY DEF CalledBy
<1>2. own \subseteq edges
  OBVIOUS
<1>3. /\ own \subseteq CalledBy(c) /\ CalledBy(c) \subseteq edges
      /\ \A p \in calls : p[1] \in CalledBy(c) /\ p[2] \in edges => p[2] \in CalledBy(c)
  <2> HIDE DEF own, calls, edges
  <2> QED
    BY <1>1, <1>2, ReachedIsClosed
<1>4. ASSUME NEW d \in CalledBy(c), NEW e \in edges, ~IsSelf(d), Carries(d, e)
      PROVE  e \in CalledBy(c)
  <2>1. <<d, e>> \in calls /\ <<d, e>>[1] = d /\ <<d, e>>[2] = e
    BY <1>3, <1>4
  <2> QED
    BY <1>3, <1>4, <2>1
<1> QED
  BY <1>3, <1>4

\* They are in every set with the consumer's own that calls do not leave.
LEMMA CalledByIsLeast ==
  ASSUME NEW c, NEW S \in SUBSET EdgesOf(graph),
         \A e \in EdgesOf(graph) : e.from = c => e \in S,
         \A d \in S, e \in EdgesOf(graph) : ~IsSelf(d) /\ Carries(d, e) => e \in S
  PROVE  CalledBy(c) \subseteq S
<1> DEFINE edges == EdgesOf(graph)
           own   == {e \in edges : e.from = c}
           calls == {p \in edges \X edges : ~IsSelf(p[1]) /\ Carries(p[1], p[2])}
<1>1. CalledBy(c) = Reached(own, calls, edges)
  BY DEF CalledBy
<1>2. own \subseteq S /\ \A p \in calls : p[1] \in S => p[2] \in S
  OBVIOUS
<1> HIDE DEF own, calls
<1> QED
  BY <1>1, <1>2, ReachedIsLeast

\* A sequence with another head.
LEMMA HeadReplaced ==
  ASSUME NEW R, NEW s \in Seq(R), s # <<>>, NEW x \in R
  PROVE  LET p == <<x>> \o Tail(s) IN
         /\ p \in Seq(R) /\ p # <<>> /\ DOMAIN p = DOMAIN s /\ p[1] = x /\ 1 \in DOMAIN s
         /\ \A i \in DOMAIN s : i # 1 => p[i] = s[i]
OBVIOUS

\* Where each pin at hand is an edge's, the pins of routes are those of edges.
LEMMA WalkEnds ==
  ASSUME Walking, ToFollow = {}
  PROVE  PinsInto(walk.consumer) = PinsOf(CalledBy(walk.consumer))
<1>1. Seen \subseteq CalledBy(walk.consumer) /\ Seen \in SUBSET EdgesOf(graph)
  BY DEF Walking, Seen
<1>2. \A e \in EdgesOf(graph) : e.from = walk.consumer => e \in Seen
  BY DEF Seen
<1>3. ASSUME NEW d \in Seen, NEW e \in EdgesOf(graph), ~IsSelf(d), Carries(d, e)
      PROVE  e \in Seen
  <2>1. PICK j \in DOMAIN graph.edges : graph.edges[j] = d
    BY <1>1, <1>3 DEF EdgesOf
  <2>2. IsFollowed(d)
    BY <1>3, <2>1 DEF Walking
  <2>3. <<e.from, e.file>> \in walk.visited
    BY <1>3, <2>2 DEF IsFollowed, Carries
  <2> QED
    BY <2>3 DEF Seen
<1>4. CalledBy(walk.consumer) \subseteq Seen
  BY <1>1, <1>2, <1>3, CalledByIsLeast
<1>5. CalledBy(walk.consumer) = Seen
  BY <1>1, <1>4
<1> QED
  BY <1>5 DEF Walking

\* Routes stay complete while they, the walk and the graph do.
LEMMA RoutingKept ==
  ASSUME Routing, UNCHANGED <<graph, walk, routes>>
  PROVE  Routing'
<1>1. Seen' = Seen /\ ToFollow' = ToFollow /\ (\A c : PinsInto(c)' = PinsInto(c))
  BY DEF Seen, ToFollow, PinsInto, EdgesOf
<1>2. \A e : IsFollowed(e)' <=> IsFollowed(e)
  BY DEF IsFollowed
<1>3. \A c : CalledBy(c)' = CalledBy(c)
  BY CallsKept
<1>4. CalledBy(walk.consumer)' = CalledBy(walk.consumer)
  BY <1>3, CallsKept
<1>5. Walking => Walking'
  BY <1>1, <1>2, <1>4 DEF Walking, PinsInto
<1> QED
  BY <1>1, <1>3, <1>5, CallsKept DEF Routing

\* Routes into a consumer begin with its own references.
LEMMA ConsumerBegins ==
  ASSUME Routing, walk.frames = <<>>, UNCHANGED graph,
         NEW c \in Consumers, c \notin DOMAIN routes,
         NEW own, own = {i \in DOMAIN graph.edges : graph.edges[i].from = c},
         walk' = [consumer |-> c, frames |-> <<[via |-> <<>>, left |-> own]>>, visited |-> {}],
         routes' = With(routes, c, {DirectRoute(graph.edges[i]) : i \in own})
  PROVE  Routing'
<1>1. /\ walk'.consumer = c /\ walk'.frames = <<[via |-> <<>>, left |-> own]>>
      /\ walk'.visited = {}
      /\ walk' = [consumer |-> walk'.consumer, frames |-> walk'.frames, visited |-> walk'.visited]
  OBVIOUS
<1>2. /\ DOMAIN routes' = DOMAIN routes \cup {c}
      /\ routes'[c] = {DirectRoute(graph.edges[i]) : i \in own}
      /\ \A d \in DOMAIN routes : routes'[d] = routes[d]
  BY DEF With
<1>3. walk'.frames \in Seq(RouteFrame)
  <2>1. [via |-> <<>>, left |-> own] \in RouteFrame
    BY DEF RouteFrame
  <2> QED
    BY <1>1, <2>1
<1>4. DOMAIN walk'.frames = {1} /\ walk'.frames[1].left = own /\ walk'.frames # <<>>
  BY <1>1
<1>5. ToFollow' = own
  BY <1>4 DEF ToFollow
<1>6. Seen' = {e \in EdgesOf(graph) : e.from = c}
  BY <1>1 DEF Seen, EdgesOf
<1>7. Seen' \subseteq CalledBy(c)
  BY <1>6, CalledByIsClosed
<1>8. PinsInto(c)' = PinsOf(Seen)'
  <2>1. \A e : DirectRoute(e).target = e.to /\ DirectRoute(e).pin = e.pin
    BY DEF DirectRoute
  <2>2. Seen' = {graph.edges[i] : i \in own}
    BY <1>6 DEF EdgesOf
  <2>3. PinsInto(c)' = {<<r.target, r.pin>> : r \in routes'[c]}
    BY DEF PinsInto
  <2>4. PinsInto(c)' = {<<DirectRoute(graph.edges[i]).target, DirectRoute(graph.edges[i]).pin>> :
                         i \in own}
    BY <1>2, <2>3
  <2>5. PinsOf(Seen)' = {<<graph.edges[i].to, graph.edges[i].pin>> : i \in own}
    BY <2>2 DEF PinsOf
  <2>6. \A i \in own : <<DirectRoute(graph.edges[i]).target, DirectRoute(graph.edges[i]).pin>>
                       = <<graph.edges[i].to, graph.edges[i].pin>>
    BY <2>1
  <2>7. {<<DirectRoute(graph.edges[i]).target, DirectRoute(graph.edges[i]).pin>> : i \in own}
          = {<<graph.edges[i].to, graph.edges[i].pin>> : i \in own}
    BY <2>6, Zenon
  <2> QED
    BY <2>4, <2>5, <2>7
<1>9. CalledBy(c)' = CalledBy(c)
  BY CallsKept
<1>10. Walking'
  <2>1. walk'.consumer \in DOMAIN routes'
    BY <1>1, <1>2
  <2>2. \A j \in DOMAIN graph'.edges : graph'.edges[j] \in Seen' <=> j \in ToFollow'
    BY <1>5, <1>6 DEF EdgesOf
  <2>3. \A j \in ToFollow' : j \in DOMAIN graph'.edges
    BY DEF ToFollow
  <2>4. PinsInto(walk.consumer)' = PinsOf(Seen)' /\ Seen' \subseteq CalledBy(walk.consumer)'
    BY <1>1, <1>7, <1>8, <1>9 DEF PinsInto
  <2> QED
    BY <2>1, <2>2, <2>3, <2>4 DEF Walking
<1>11. ASSUME NEW d \in DOMAIN routes', d # c
       PROVE  PinsInto(d)' = PinsOf(CalledBy(d))'
  <2>1. d \in DOMAIN routes /\ routes'[d] = routes[d]
    BY <1>2, <1>11
  <2>2. PinsInto(d) = PinsOf(CalledBy(d))
    BY <2>1 DEF Routing
  <2> QED
    BY <2>1, <2>2, CallsKept DEF PinsInto, PinsOf
<1> QED
  BY <1>1, <1>2, <1>3, <1>4, <1>10, <1>11, CallsKept DEF Routing

\* The consumers are taken one by one, until all have their routes.
LEMMA RoutesIntoKeepsRoutes ==
  ASSUME Routing, GraphShape, RoutesInto
  PROVE  /\ Routing'
         /\ stage' \in {"routes", "order"}
         /\ stage' = "order" => walk'.frames = <<>> /\ Consumers' \subseteq DOMAIN routes'
<1> DEFINE left == Consumers \ DOMAIN routes
           own(c) == {i \in DOMAIN graph.edges : graph.edges[i].from = c}
<1>1. /\ stage = "routes" /\ walk.frames = <<>> /\ UNCHANGED graph
      /\ left = {} => stage' = "order" /\ UNCHANGED <<walk, routes>>
      /\ left # {} =>
           /\ walk' = [consumer |-> Least(left),
                       frames |-> <<[via |-> <<>>, left |-> own(Least(left))]>>, visited |-> {}]
           /\ routes' = With(routes, Least(left),
                             {DirectRoute(graph.edges[i]) : i \in own(Least(left))})
           /\ UNCHANGED stage
  BY DEF RoutesInto
<1>2. CASE left = {}
  <2>1. Routing'
    BY <1>1, <1>2, RoutingKept
  <2> QED
    BY <1>1, <1>2, <2>1, CallsKept
<1>3. CASE left # {}
  <2>1. Consumers \subseteq Nat
    BY EdgesAreEdges, NameAssumption DEF Consumers, FromScanned, Edge
  <2>2. Least(left) \in left
    <3>1. left \subseteq Nat
      BY <2>1
    <3> HIDE DEF left
    <3> QED
      BY <1>3, <3>1, LeastIsFirst
  <2>3. PICK c \in Consumers : c = Least(left) /\ c \notin DOMAIN routes
    BY <2>2
  <2> HIDE DEF left
  <2>4. /\ walk' = [consumer |-> c, frames |-> <<[via |-> <<>>, left |-> own(c)]>>, visited |-> {}]
        /\ routes' = With(routes, c, {DirectRoute(graph.edges[i]) : i \in own(c)})
    BY <1>1, <1>3, <2>3
  <2>5. PICK positions : positions = own(c)
    OBVIOUS
  <2>6. Routing'
    BY <1>1, <2>3, <2>4, <2>5, ConsumerBegins
  <2> QED
    BY <1>1, <1>3, <2>6
<1> QED
  BY <1>2, <1>3

\* A frame without edges left is done with; without frames the consumer is.
LEMMA FollowReturnsKeepsRoutes ==
  ASSUME Routing, FollowReturns
  PROVE  Routing' /\ UNCHANGED stage
<1>1. /\ stage' = stage /\ walk.frames # <<>> /\ UNCHANGED <<graph, routes>>
      /\ Head(walk.frames).left = {} /\ walk' = [walk EXCEPT !.frames = Tail(walk.frames)]
  BY DEF FollowReturns
<1>2. /\ walk'.consumer = walk.consumer /\ walk'.frames = Tail(walk.frames)
      /\ walk'.visited = walk.visited
      /\ walk' = [consumer |-> walk'.consumer, frames |-> walk'.frames, visited |-> walk'.visited]
  BY <1>1 DEF Routing
<1>3. /\ Tail(walk.frames) \in Seq(RouteFrame) /\ Head(walk.frames) = walk.frames[1]
      /\ \A i \in DOMAIN Tail(walk.frames) :
           i + 1 \in DOMAIN walk.frames /\ Tail(walk.frames)[i] = walk.frames[i + 1]
      /\ DOMAIN walk.frames = 1..Len(walk.frames) /\ Len(walk.frames) \in Nat
      /\ DOMAIN Tail(walk.frames) = 1..(Len(walk.frames) - 1)
  <2> HIDE DEF RouteFrame
  <2> QED
    BY <1>1, PoppedOff DEF Routing
<1>4. ToFollow' = ToFollow
  <2>1. ASSUME NEW j, NEW i \in DOMAIN walk.frames, j \in walk.frames[i].left
        PROVE  \E k \in DOMAIN walk'.frames : j \in walk'.frames[k].left
    <3>1. i # 1
      BY <1>1, <1>3, <2>1
    <3>2. i - 1 \in DOMAIN Tail(walk.frames) /\ (i - 1) + 1 = i
      BY <1>3, <2>1, <3>1
    <3> QED
      BY <1>2, <1>3, <2>1, <3>2
  <2>2. ASSUME NEW j, NEW i \in DOMAIN walk'.frames, j \in walk'.frames[i].left
        PROVE  \E k \in DOMAIN walk.frames : j \in walk.frames[k].left
    BY <1>2, <1>3, <2>2
  <2> QED
    BY <1>1, <2>1, <2>2 DEF ToFollow
<1>5. Walking
  BY <1>1 DEF Routing
<1>6. /\ Seen' = Seen /\ (\A e : IsFollowed(e)' <=> IsFollowed(e))
      /\ \A c : PinsInto(c)' = PinsInto(c)
  BY <1>1, <1>2 DEF Seen, IsFollowed, PinsInto
<1>7. \A c : CalledBy(c)' = CalledBy(c)
  BY <1>1, CallsKept
<1>8. CalledBy(walk.consumer)' = CalledBy(walk.consumer)
  BY <1>2, <1>7
<1>9. Walking'
  BY <1>1, <1>2, <1>4, <1>5, <1>6, <1>8 DEF Walking, PinsInto
<1>10. walk'.frames = <<>> => PinsInto(walk.consumer) = PinsOf(CalledBy(walk.consumer))
  <2>1. ASSUME walk'.frames = <<>> PROVE ToFollow = {}
    BY <1>4, <2>1 DEF ToFollow
  <2> QED
    BY <1>5, <2>1, WalkEnds
<1>11. ASSUME NEW c \in DOMAIN routes',
              ~(walk'.frames # <<>> /\ c = walk'.consumer)
       PROVE  PinsInto(c)' = PinsOf(CalledBy(c))'
  <2>1. PinsInto(c) = PinsOf(CalledBy(c))
    BY <1>1, <1>2, <1>10, <1>11 DEF Routing
  <2> QED
    BY <1>6, <1>7, <2>1 DEF PinsOf
<1>12. /\ walk'.frames \in Seq(RouteFrame') /\ DOMAIN routes' \subseteq Consumers'
  BY <1>1, <1>2, <1>3, CallsKept DEF Routing
<1>13. Routing'
  BY <1>2, <1>9, <1>11, <1>12 DEF Routing
<1> QED
  BY <1>1, <1>13

\* The frames once an edge of the top one is done with.
PastEdge(i) == <<[walk.frames[1] EXCEPT !.left = @ \ {i}]>> \o Tail(walk.frames)

\* They are the frames, without that edge in the top one.
LEMMA PastEdgeIs ==
  ASSUME Routing, walk.frames # <<>>, NEW i \in walk.frames[1].left
  PROVE  /\ PastEdge(i) \in Seq(RouteFrame) /\ PastEdge(i) # <<>>
         /\ DOMAIN PastEdge(i) = DOMAIN walk.frames
         /\ \A k \in DOMAIN walk.frames :
              /\ PastEdge(i)[k].left \subseteq walk.frames[k].left
              /\ walk.frames[k].left \subseteq PastEdge(i)[k].left \cup {i}
         /\ i \in ToFollow /\ i \in DOMAIN graph.edges /\ walk.frames[1].via \in Seq(Repo)
<1> DEFINE s == walk.frames
           x == [s[1] EXCEPT !.left = @ \ {i}]
<1>1. s \in Seq(RouteFrame) /\ s # <<>>
  BY DEF Routing
<1>2. 1 \in DOMAIN s /\ s[1] \in RouteFrame
  <2> HIDE DEF s, RouteFrame
  <2> QED
    BY <1>1, PoppedOff
<1>3. x \in RouteFrame /\ x.left = s[1].left \ {i} /\ s[1].left \subseteq DOMAIN graph.edges
  <2> HIDE DEF s
  <2> QED
    BY <1>2 DEF RouteFrame
<1>4. i \in ToFollow /\ i \in DOMAIN graph.edges /\ s[1].via \in Seq(Repo)
  BY <1>2, <1>3 DEF ToFollow, RouteFrame
<1>5. PastEdge(i) = <<x>> \o Tail(s)
  BY DEF PastEdge
<1> HIDE DEF x, s, RouteFrame
<1>6. /\ PastEdge(i) \in Seq(RouteFrame) /\ PastEdge(i) # <<>> /\ DOMAIN PastEdge(i) = DOMAIN s
      /\ PastEdge(i)[1] = x /\ \A k \in DOMAIN s : k # 1 => PastEdge(i)[k] = s[k]
  BY <1>1, <1>3, <1>5, HeadReplaced
<1>7. ASSUME NEW k \in DOMAIN s
      PROVE  PastEdge(i)[k].left \subseteq s[k].left
             /\ s[k].left \subseteq PastEdge(i)[k].left \cup {i}
  BY <1>3, <1>6
<1> QED
  BY <1>4, <1>6, <1>7 DEF s

\* An edge that leads to no file, to the consumer itself or to a file that was followed
\* is left.
LEMMA SkipKeepsRoutes ==
  ASSUME Routing, UNCHANGED <<graph, routes>>, walk.frames # <<>>,
         NEW i \in walk.frames[1].left, IsFollowed(graph.edges[i]),
         walk' = [walk EXCEPT !.frames = PastEdge(i)]
  PROVE  Routing'
<1>1. /\ walk'.consumer = walk.consumer /\ walk'.frames = PastEdge(i)
      /\ walk'.visited = walk.visited
      /\ walk' = [consumer |-> walk'.consumer, frames |-> walk'.frames, visited |-> walk'.visited]
  BY DEF Routing
<1>2. Walking
  BY DEF Routing
<1>3. ToFollow' \subseteq ToFollow /\ ToFollow \subseteq ToFollow' \cup {i}
  BY <1>1, PastEdgeIs DEF ToFollow
<1>4. /\ Seen' = Seen /\ (\A e : IsFollowed(e)' <=> IsFollowed(e))
      /\ \A c : PinsInto(c)' = PinsInto(c)
  BY <1>1 DEF Seen, IsFollowed, PinsInto
<1>5. \A c : CalledBy(c)' = CalledBy(c)
  BY CallsKept
<1>6. CalledBy(walk.consumer)' = CalledBy(walk.consumer)
  BY <1>1, <1>5
<1>7. ASSUME NEW j \in DOMAIN graph.edges, graph.edges[j] \in Seen
      PROVE  j \in ToFollow' \/ IsFollowed(graph.edges[j])
  BY <1>2, <1>3, <1>7 DEF Walking
<1>8. Walking'
  BY <1>1, <1>2, <1>3, <1>4, <1>6, <1>7 DEF Walking, PinsInto
<1>9. walk'.frames \in Seq(RouteFrame') /\ walk'.frames # <<>> /\ DOMAIN routes' \subseteq Consumers'
  BY <1>1, PastEdgeIs, CallsKept DEF Routing
<1>10. \A c \in DOMAIN routes' :
         c = walk'.consumer \/ PinsInto(c)' = PinsOf(CalledBy(c))'
  BY <1>1, <1>4, <1>5 DEF Routing, PinsOf
<1> QED
  BY <1>1, <1>8, <1>9, <1>10 DEF Routing

\* The positions of the edges of the file that an edge calls.
InnerOf(call) == {j \in DOMAIN graph.edges : Carries(call, graph.edges[j])}

\* A file that was not followed is taken up.
TakesUp(i, call, via) ==
  /\ walk' = [walk EXCEPT
       !.frames = <<[via |-> via, left |-> InnerOf(call)]>> \o PastEdge(i),
       !.visited = @ \cup {<<call.to, call.call>>}]
  /\ routes' = [routes EXCEPT ![walk.consumer] =
       @ \cup {CarriedRoute(graph, call, via, graph.edges[j]) : j \in InnerOf(call)}]

\* Its references are routes, to be followed.
LEMMA FileKeepsRoutes ==
  ASSUME Routing, GraphShape, UNCHANGED graph, walk.frames # <<>>,
         NEW i \in walk.frames[1].left, NEW call, call = graph.edges[i],
         call.call # NoFile, ~IsSelf(call),
         NEW via, via = Append(walk.frames[1].via, call.to),
         TakesUp(i, call, via)
  PROVE  Routing'
<1> DEFINE inner == InnerOf(call)
           x == [via |-> via, left |-> inner]
           s == PastEdge(i)
<1>1. /\ walk'.consumer = walk.consumer /\ walk'.frames = <<x>> \o s
      /\ walk'.visited = walk.visited \cup {<<call.to, call.call>>}
      /\ walk' = [consumer |-> walk'.consumer, frames |-> walk'.frames, visited |-> walk'.visited]
  <2>1. walk = [consumer |-> walk.consumer, frames |-> walk.frames, visited |-> walk.visited]
    BY DEF Routing
  <2> HIDE DEF x, s
  <2>2. walk' = [walk EXCEPT !.frames = <<x>> \o s,
                             !.visited = @ \cup {<<call.to, call.call>>}]
    BY DEF TakesUp, x, s
  <2> QED
    BY <2>1, <2>2
<1>2. Walking
  BY DEF Routing
<1>3. /\ s \in Seq(RouteFrame) /\ DOMAIN s = DOMAIN walk.frames
      /\ i \in ToFollow /\ i \in DOMAIN graph.edges /\ walk.frames[1].via \in Seq(Repo)
      /\ \A k \in DOMAIN walk.frames :
           /\ s[k].left \subseteq walk.frames[k].left
           /\ walk.frames[k].left \subseteq s[k].left \cup {i}
  BY PastEdgeIs
<1>4. call \in EdgesOf(graph) /\ call \in Seen /\ call.to \in Repo
  BY <1>2, <1>3, EdgesAreEdges DEF Walking, EdgesOf
<1>5. x \in RouteFrame /\ x.left = inner
  BY <1>3, <1>4 DEF RouteFrame, InnerOf
<1>6. /\ walk'.frames \in Seq(RouteFrame) /\ walk'.frames # <<>>
      /\ walk'.frames[1] = x /\ 1 \in DOMAIN walk'.frames
      /\ \A k \in DOMAIN s : k + 1 \in DOMAIN walk'.frames /\ walk'.frames[k + 1] = s[k]
      /\ \A k \in DOMAIN walk'.frames : k # 1 => k - 1 \in DOMAIN s /\ walk'.frames[k] = s[k - 1]
  <2> HIDE DEF s, x, RouteFrame
  <2>1. /\ <<x>> \o s \in Seq(RouteFrame) /\ Len(<<x>> \o s) = Len(s) + 1 /\ Len(s) \in Nat
        /\ DOMAIN (<<x>> \o s) = 1..(Len(s) + 1) /\ DOMAIN s = 1..Len(s)
        /\ (<<x>> \o s)[1] = x
        /\ \A k \in DOMAIN s : k + 1 \in 2..(Len(s) + 1) /\ (<<x>> \o s)[k + 1] = s[k]
        /\ \A k \in 2..(Len(s) + 1) : k - 1 \in DOMAIN s /\ (<<x>> \o s)[k] = s[k - 1]
    BY <1>3, <1>5, PushedOn
  <2>2. PICK f : f = <<x>> \o s
    OBVIOUS
  <2>3. /\ f \in Seq(RouteFrame) /\ Len(f) = Len(s) + 1 /\ Len(s) \in Nat /\ f[1] = x
        /\ DOMAIN f = 1..(Len(s) + 1) /\ DOMAIN s = 1..Len(s)
        /\ \A k \in DOMAIN s : k + 1 \in 2..(Len(s) + 1) /\ f[k + 1] = s[k]
        /\ \A k \in 2..(Len(s) + 1) : k - 1 \in DOMAIN s /\ f[k] = s[k - 1]
    BY <2>1, <2>2
  <2>4. 1 \in DOMAIN f /\ f # <<>> /\ \A k \in DOMAIN f : k # 1 => k \in 2..(Len(s) + 1)
    BY <2>3
  <2>5. \A k \in 2..(Len(s) + 1) : k \in DOMAIN f
    BY <2>3
  <2>6. walk'.frames = f
    BY <1>1, <2>2
  <2> QED
    BY <2>3, <2>4, <2>5, <2>6
<1>7. /\ inner \subseteq ToFollow' /\ ToFollow' \subseteq ToFollow \cup inner
      /\ ToFollow \subseteq ToFollow' \cup {i}
  <2> HIDE DEF s, x
  <2>1. inner \subseteq DOMAIN graph.edges
    BY DEF InnerOf
  <2> HIDE DEF inner
  <2>2. inner \subseteq ToFollow'
    BY <1>5, <1>6, <2>1 DEF ToFollow
  <2>3. ASSUME NEW j \in ToFollow', j \notin inner PROVE j \in ToFollow
    BY <1>3, <1>5, <1>6, <2>3 DEF ToFollow
  <2>4. ASSUME NEW j \in ToFollow, j # i PROVE j \in ToFollow'
    BY <1>3, <1>6, <2>4 DEF ToFollow
  <2> QED
    BY <2>2, <2>3, <2>4
<1>8. /\ \A e \in EdgesOf(graph) : e \in Seen' <=> e \in Seen \/ Carries(call, e)
      /\ Seen' \subseteq EdgesOf(graph)
  <2>1. \A e : <<e.from, e.file>> = <<call.to, call.call>> <=> Carries(call, e)
    BY DEF Carries
  <2> QED
    BY <1>1, <2>1 DEF Seen
<1>9. /\ \A e : IsFollowed(e) => IsFollowed(e)'
      /\ IsFollowed(call)'
  BY <1>1 DEF IsFollowed
<1>10. CalledBy(walk.consumer)' = CalledBy(walk.consumer)
  BY <1>1, CallsKept
<1>11. Seen' \subseteq CalledBy(walk.consumer)
  <2>1. Seen \subseteq CalledBy(walk.consumer)
    BY <1>2 DEF Walking
  <2> QED
    BY <1>4, <1>8, <2>1, CalledByIsClosed
<1>12. \A j \in DOMAIN graph.edges : j \in inner <=> Carries(call, graph.edges[j])
  BY DEF InnerOf
<1>13. ASSUME NEW j \in DOMAIN graph.edges, graph.edges[j] \in Seen'
       PROVE  j \in ToFollow' \/ IsFollowed(graph.edges[j])'
  <2>1. graph.edges[j] \in EdgesOf(graph)
    BY DEF EdgesOf
  <2>2. CASE Carries(call, graph.edges[j])
    BY <1>7, <1>12, <2>2
  <2>3. CASE graph.edges[j] \in Seen
    <3>1. j \in ToFollow \/ IsFollowed(graph.edges[j])
      BY <1>2, <2>3 DEF Walking
    <3> QED
      BY <1>7, <1>9, <3>1
  <2> QED
    BY <1>8, <1>13, <2>1, <2>2, <2>3
<1>14. \A j \in ToFollow' : j \in DOMAIN graph.edges /\ graph.edges[j] \in Seen'
  <2>1. \A j \in ToFollow : j \in DOMAIN graph.edges /\ graph.edges[j] \in Seen
    BY <1>2 DEF Walking, ToFollow
  <2>2. \A j \in inner : j \in DOMAIN graph.edges
    BY DEF InnerOf
  <2>3. \A j \in DOMAIN graph.edges : graph.edges[j] \in EdgesOf(graph)
    BY DEF EdgesOf
  <2> HIDE DEF inner
  <2> QED
    BY <1>7, <1>8, <1>12, <2>1, <2>2, <2>3
<1>15. PinsInto(walk.consumer)' = PinsOf(Seen')
  <2> DEFINE carried == {CarriedRoute(graph, call, via, graph.edges[j]) : j \in inner}
  <2>1. walk.consumer \in DOMAIN routes /\ PinsInto(walk.consumer) = PinsOf(Seen)
    BY <1>2 DEF Walking
  <2>2. routes'[walk.consumer] = routes[walk.consumer] \cup carried
    BY <2>1 DEF TakesUp
  <2>3. \A e : /\ CarriedRoute(graph, call, via, e).target = e.to
               /\ CarriedRoute(graph, call, via, e).pin = e.pin
    BY DEF CarriedRoute
  <2>4. Seen' = Seen \cup {graph.edges[j] : j \in inner}
    <3>1. Seen \subseteq EdgesOf(graph)
      BY DEF Seen
    <3>2. EdgesOf(graph) = {graph.edges[j] : j \in DOMAIN graph.edges}
      BY DEF EdgesOf
    <3>3. inner \subseteq DOMAIN graph.edges
      BY DEF InnerOf
    <3> HIDE DEF inner
    <3> QED
      BY <1>8, <1>12, <3>1, <3>2, <3>3
  <2>5. PinsInto(walk.consumer)' = {<<r.target, r.pin>> : r \in routes'[walk.consumer]}
    BY <1>1 DEF PinsInto
  <2>6. PinsInto(walk.consumer)' = PinsInto(walk.consumer) \cup {<<r.target, r.pin>> : r \in carried}
    <3> HIDE DEF carried
    <3> QED
      BY <2>2, <2>5 DEF PinsInto
  <2>7. {<<r.target, r.pin>> : r \in carried}
          = {<<graph.edges[j].to, graph.edges[j].pin>> : j \in inner}
    <3> HIDE DEF inner
    <3>1. {<<r.target, r.pin>> : r \in carried}
            = {<<CarriedRoute(graph, call, via, graph.edges[j]).target,
                 CarriedRoute(graph, call, via, graph.edges[j]).pin>> : j \in inner}
      OBVIOUS
    <3>2. \A j \in inner :
            <<CarriedRoute(graph, call, via, graph.edges[j]).target,
              CarriedRoute(graph, call, via, graph.edges[j]).pin>>
              = <<graph.edges[j].to, graph.edges[j].pin>>
      BY <2>3
    <3>3. {<<CarriedRoute(graph, call, via, graph.edges[j]).target,
             CarriedRoute(graph, call, via, graph.edges[j]).pin>> : j \in inner}
            = {<<graph.edges[j].to, graph.edges[j].pin>> : j \in inner}
      BY <3>2, Zenon
    <3> HIDE DEF carried
    <3> QED
      BY <3>1, <3>3
  <2>8. PinsOf(Seen') = PinsOf(Seen) \cup {<<graph.edges[j].to, graph.edges[j].pin>> : j \in inner}
    <3> HIDE DEF inner
    <3> QED
      BY <2>4 DEF PinsOf
  <2> QED
    BY <2>1, <2>6, <2>7, <2>8
<1>16. DOMAIN routes' = DOMAIN routes
  BY DEF TakesUp
<1>17. Walking'
  <2>1. walk'.consumer \in DOMAIN routes'
    BY <1>1, <1>2, <1>16 DEF Walking
  <2>2. PinsInto(walk.consumer)' = PinsOf(Seen)'
    BY <1>15 DEF PinsOf
  <2>3. Seen' \subseteq CalledBy(walk.consumer)'
    BY <1>10, <1>11
  <2> QED
    BY <1>13, <1>14, <2>1, <2>2, <2>3 DEF Walking
<1>18. ASSUME NEW c \in DOMAIN routes', c # walk'.consumer
       PROVE  PinsInto(c)' = PinsOf(CalledBy(c))'
  <2>1. c \in DOMAIN routes /\ c # walk.consumer /\ routes'[c] = routes[c]
    BY <1>1, <1>16, <1>18 DEF TakesUp
  <2>2. PinsInto(c) = PinsOf(CalledBy(c))
    BY <2>1 DEF Routing
  <2> QED
    BY <2>1, <2>2, CallsKept DEF PinsInto, PinsOf
<1>19. walk'.frames \in Seq(RouteFrame') /\ walk'.frames # <<>> /\ DOMAIN routes' \subseteq Consumers'
  BY <1>6, <1>16, CallsKept DEF Routing
<1> QED
  BY <1>1, <1>17, <1>18, <1>19 DEF Routing

\* One call of `follow` goes past an edge, or takes up the file it calls.
LEMMA FollowKeepsRoutes ==
  ASSUME Routing, GraphShape, Follow
  PROVE  Routing' /\ UNCHANGED stage
<1> DEFINE left == walk.frames[1].left
           head == Head(walk.frames)
           n    == Least(head.left)
           edge == graph.edges[n]
           on   == Append(head.via, edge.to)
           of   == {j \in DOMAIN graph.edges : Carries(edge, graph.edges[j])}
           past == <<[head EXCEPT !.left = @ \ {n}]>> \o Tail(walk.frames)
<1>1. /\ walk.frames # <<>> /\ UNCHANGED <<graph, stage>> /\ head.left # {}
      /\ IF edge.call = NoFile \/ IsSelf(edge) \/ <<edge.to, edge.call>> \in walk.visited
         THEN walk' = [walk EXCEPT !.frames = past] /\ UNCHANGED routes
         ELSE /\ walk' = [walk EXCEPT !.frames = <<[via |-> on, left |-> of]>> \o past,
                                      !.visited = @ \cup {<<edge.to, edge.call>>}]
              /\ routes' = [routes EXCEPT ![walk.consumer] =
                   @ \cup {CarriedRoute(graph, edge, on, graph.edges[j]) : j \in of}]
  BY DEF Follow
<1>2. head = walk.frames[1] /\ walk.frames[1] \in RouteFrame
  <2>1. walk.frames \in Seq(RouteFrame)
    BY DEF Routing
  <2> HIDE DEF RouteFrame
  <2> QED
    BY <1>1, <2>1, PoppedOff
<1>3. left \subseteq Nat /\ left # {}
  <2>1. DOMAIN graph.edges \subseteq Nat
    BY DEF GraphShape
  <2> QED
    BY <1>1, <1>2, <2>1 DEF RouteFrame
<1>4. PICK i \in left : i = n
  <2>1. Least(left) \in left
    <3> HIDE DEF left
    <3> QED
      BY <1>3, LeastIsFirst
  <2> QED
    BY <1>2, <2>1
<1>5. PICK call : call = edge
  OBVIOUS
<1>6. PICK via : via = on
  OBVIOUS
<1>7. call = graph.edges[i] /\ via = Append(walk.frames[1].via, call.to)
  BY <1>2, <1>4, <1>5, <1>6
<1>8. of = InnerOf(call)
  BY <1>5 DEF InnerOf
<1>9. past = PastEdge(i)
  BY <1>2, <1>4 DEF PastEdge
<1> HIDE DEF edge, on, of, past, n, head
<1>10. IF IsFollowed(call)
       THEN walk' = [walk EXCEPT !.frames = PastEdge(i)] /\ UNCHANGED routes
       ELSE TakesUp(i, call, via)
  BY <1>1, <1>5, <1>6, <1>8, <1>9 DEF IsFollowed, TakesUp
<1>11. CASE IsFollowed(call)
  <2>1. Routing'
    BY <1>1, <1>4, <1>7, <1>10, <1>11, SkipKeepsRoutes
  <2> QED
    BY <1>1, <2>1
<1>12. CASE ~IsFollowed(call)
  <2>1. TakesUp(i, call, via) /\ call.call # NoFile /\ ~IsSelf(call)
    BY <1>10, <1>12 DEF IsFollowed
  <2>2. Routing'
    BY <1>1, <1>4, <1>7, <2>1, FileKeepsRoutes
  <2> QED
    BY <1>1, <2>2
<1> QED
  BY <1>11, <1>12

\* Every step keeps the routes.
LEMMA NextKeepsRoutes == ASSUME RoutesInv, ReadInv, [Next]_vars PROVE RoutesInv'
<1>1. CASE UNCHANGED <<pc, graph, analysis>>
  <2>1. UNCHANGED <<graph, walk, routes, stage, pc>>
    BY <1>1 DEF analysis
  <2> QED
    BY <2>1, RoutingKept, CallsKept DEF RoutesInv
<1>2. CASE stage = "reading" /\ UNCHANGED analysis
  BY <1>2 DEF RoutesInv, analysis
<1>3. CASE /\ stage = "reading" /\ stage' = "cycles" /\ pc' = "analysis"
           /\ UNCHANGED <<graph, tarjan, cycles, confirmed, walk, routes, landing>>
  <2>1. walk = NoWalk /\ routes = <<>>
    BY <1>3 DEF RoutesInv
  <2>2. Routing
    BY <2>1 DEF Routing, NoWalk
  <2>3. Routing'
    BY <1>3, <2>2, RoutingKept
  <2> QED
    BY <1>3, <2>3 DEF RoutesInv, Stage
<1>4. CASE pc = "analysis" /\ Analyse /\ UNCHANGED pc
  <2>1. GraphShape
    BY DEF ReadInv
  <2>2. CASE Root \/ FollowEdge \/ Return \/ Confirm
    <3>1. /\ UNCHANGED <<graph, walk, routes>> /\ stage \in {"cycles", "confirm"}
          /\ stage' \in {"cycles", "confirm", "routes"}
      BY <2>2 DEF Root, FollowEdge, Return, Confirm
    <3>2. Routing'
      BY <3>1, RoutingKept DEF RoutesInv
    <3> QED
      BY <1>4, <3>1, <3>2 DEF RoutesInv, Stage
  <2>3. CASE RoutesInto
    <3>1. stage = "routes"
      BY <2>3 DEF RoutesInto
    <3>2. /\ Routing' /\ stage' \in {"routes", "order"}
          /\ stage' = "order" => walk'.frames = <<>> /\ Consumers' \subseteq DOMAIN routes'
      BY <2>1, <2>3, <3>1, RoutesIntoKeepsRoutes DEF RoutesInv
    <3> QED
      BY <1>4, <3>2 DEF RoutesInv, Stage
  <2>4. CASE Follow \/ FollowReturns
    <3>1. stage = "routes"
      BY <2>4 DEF Follow, FollowReturns
    <3>2. Routing' /\ UNCHANGED stage
      BY <2>1, <2>4, <3>1, FollowKeepsRoutes, FollowReturnsKeepsRoutes DEF RoutesInv
    <3> QED
      BY <1>4, <3>1, <3>2 DEF RoutesInv
  <2>5. CASE Land \/ Weigh \/ Trace
    <3>1. /\ UNCHANGED <<graph, walk, routes>> /\ stage \in {"order", "weigh", "chain"}
          /\ stage' \in {"order", "weigh", "chain", "done"}
      BY <2>5 DEF Land, Weigh, Trace
    <3>2. Routing'
      BY <3>1, RoutingKept DEF RoutesInv
    <3> QED
      BY <1>4, <3>1, <3>2, CallsKept DEF RoutesInv, Stage
  <2> QED
    BY <1>4, <2>2, <2>3, <2>4, <2>5 DEF Analyse
<1> QED
  BY <1>1, <1>2, <1>3, <1>4, StepsOfAnalysis DEF RoutesInv

\* Routes are those of the calls in every state.
THEOREM RoutesAreSound == Spec => []RoutesInv
<1>1. Init => RoutesInv
  BY DEF Init, NotAnalysed, RoutesInv, Stage
<1> QED
  BY <1>1, NextKeepsRoutes, ReadsAreTrue, PTL DEF Spec

\* Once all consumers have their routes, these have every pin.
LEMMA RoutesFind ==
  ASSUME RoutesInv, stage = "done"
  PROVE  RoutesReachEveryPin
<1>1. Routing /\ walk.frames = <<>> /\ Consumers \subseteq DOMAIN routes
  BY DEF RoutesInv
<1>2. ASSUME NEW c \in Consumers PROVE PinsInto(c) = PinsOf(CalledBy(c))
  BY <1>1 DEF Routing
<1> QED
  BY <1>2 DEF RoutesReachEveryPin, PinsInto, PinsOf

\* Confirmed edges are least in every state.
LEMMA ConfirmedAreLeast == Spec => []LeastInv
<1>1. Init => LeastInv
  BY DEF Init, NotAnalysed, LeastInv
<1> QED
  BY <1>1, NextKeepsLeast, PTL DEF Spec

\* What `analyse` reports is what the graph says, for every graph that can be read:
\* Tarjan's search finds the components, the rounds an order if there is one, the
\* weights a longest chain, the confirmation what exact pins reach, the walks every
\* pin, though each file is followed once, and diamonds are skews.
THEOREM AnalysisIsExact == Spec => []AnalysisExact
<1>1. ASSUME SearchInv, WeighInv, OrderInv, RoutesInv, LeastInv, EdgesAreScanned,
             StuckWaitsInCircle
      PROVE  AnalysisExact
  <2> SUFFICES ASSUME stage = "done" PROVE AnalysisExact
    BY DEF AnalysisExact
  <2>1. CyclesAreComponents
    BY <1>1, SearchFinds
  <2>2. OrderIsComplete
    BY <1>1, OrderFinds
  <2>3. LandsUpstreamsFirst
    BY <1>1 DEF OrderInv
  <2>4. ChainIsLongest
    BY <1>1, ChainFinds
  <2>5. ConfirmedAreReached
    BY <1>1, ConfirmedFinds
  <2>6. RoutesReachEveryPin
    BY <1>1, RoutesFind
  <2>7. DiamondsAreFound
    BY <1>1, <2>6, DiamondsFind
  <2>8. NobodyOnHearsay
    BY NobodyOnHearsayHolds
  <2> QED
    BY <2>1, <2>2, <2>3, <2>4, <2>5, <2>6, <2>7, <2>8 DEF AnalysisExact
<1> QED
  BY <1>1, SearchIsSound, WeightsAreSound, OrderInvariant, RoutesAreSound,
     ConfirmedAreLeast, OnlyScannedHaveEdges, NoOrderMeansCircle, PTL
=============================================================================
