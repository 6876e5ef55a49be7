---------------------------- MODULE ChainAnalysis ----------------------------
(***************************************************************************)
(* The algorithms `analyse` runs on a dependency graph, one action per     *)
(* step: Tarjan's search for cycles with its recursion as a stack of       *)
(* frames, the confirmed edges by rounds, the routes into every consumer   *)
(* with the recursion of `follow` as frames, the rounds of the landing     *)
(* order, and the longest chain along that order.                          *)
(*                                                                         *)
(* Source: crates/squabble-core/src/chains.rs.                             *)
(***************************************************************************)
EXTENDS ChainGraph, FiniteSets

VARIABLES
  graph,    \* the graph under analysis
  stage,    \* what is computed: one of Stage
  tarjan,   \* the state of the search
  cycles,   \* components with more than one repository, as sets
  confirmed, \* edges found to be confirmed so far
  walk,     \* the calls still to follow from one consumer
  routes,   \* per consumer, its routes so far
  order,    \* the rounds of the landing order so far, upstreams first
  stuck,    \* no landing order exists
  best,     \* per repository weighed, the heaviest chain that ends there
  chain     \* the longest chain, upstream first

landing  == <<order, stuck, best, chain>>
analysis == <<stage, tarjan, cycles, confirmed, walk, routes, landing>>

Stage == {"reading", "cycles", "confirm", "routes", "order", "weigh", "chain", "done"}

\* Frames of the recursion, top first, each with the upstreams whose edges are
\* left; numbers and low links of visited nodes; the stack of nodes without a
\* component, top first.
StartTarjan == [frames |-> <<>>, index |-> <<>>, low |-> <<>>, stack |-> <<>>]

\* Frames, top first: the repositories passed through and the positions of the
\* edges left; the files of upstreams that were followed.
NoWalk == [consumer |-> 0, frames |-> <<>>, visited |-> {}]

NotAnalysed ==
  /\ tarjan = StartTarjan /\ cycles = {} /\ confirmed = {} /\ walk = NoWalk /\ routes = <<>>
  /\ order = <<>> /\ stuck = FALSE /\ best = <<>> /\ chain = <<>>

UpstreamsOf(r) == {e[2] : e \in {d \in RepoEdges(graph) : d[1] = r}}

-----------------------------------------------------------------------------
(***************************************************************************)
(* Cycles.                                                                 *)
(***************************************************************************)
Smaller(a, b) == IF a < b THEN a ELSE b

\* Entering `visit` for a node.
Enter(t, r) ==
  LET number == Cardinality(DOMAIN t.index)
  IN  [frames |-> <<[node |-> r, left |-> UpstreamsOf(r)]>> \o t.frames,
       index  |-> With(t.index, r, number),
       low    |-> With(t.low, r, number),
       stack  |-> <<r>> \o t.stack]

\* The loop over all nodes.
Root ==
  /\ stage = "cycles" /\ tarjan.frames = <<>>
  /\ LET left == Nodes(graph) \ DOMAIN tarjan.index IN
     IF left = {}
     THEN /\ stage' = "confirm"
          /\ UNCHANGED tarjan
     ELSE /\ tarjan' = Enter(tarjan, Least(left))
          /\ UNCHANGED stage
  /\ UNCHANGED <<graph, cycles, confirmed, walk, routes, landing>>

\* The edge of the top frame's node to an upstream is done with.
Past(t, w) == [t EXCEPT !.frames[1].left = @ \ {w}]

\* Mutant: the low link is never taken from an edge back to the stack.
LowerNothing(t, w, value) == Past(t, w)

\* It lowers the low link of that node as well.
Lower(t, w, value) ==
  [Past(t, w) EXCEPT !.low[t.frames[1].node] = Smaller(@, value)]

\* One edge of the node on top: to a new node, to one on the stack, to another.
FollowEdge ==
  /\ stage = "cycles" /\ tarjan.frames # <<>>
  /\ Head(tarjan.frames).left # {}
  /\ LET w == Least(Head(tarjan.frames).left) IN
     tarjan' = IF w \notin DOMAIN tarjan.index THEN Enter(tarjan, w)
               ELSE IF w \in ToSet(tarjan.stack) THEN Lower(tarjan, w, tarjan.index[w])
               ELSE Past(tarjan, w)
  /\ UNCHANGED <<graph, stage, cycles, confirmed, walk, routes, landing>>

\* The stack down to a node is a component.
Popped(t, r) ==
  LET n == CHOOSE i \in DOMAIN t.stack : t.stack[i] = r IN SubSeq(t.stack, 1, n)

\* Leaving `visit`: the root of a component takes it off the stack; the caller
\* takes over the low link and goes on.
Return ==
  /\ stage = "cycles" /\ tarjan.frames # <<>>
  /\ Head(tarjan.frames).left = {}
  /\ LET v    == Head(tarjan.frames).node
         comp == Popped(tarjan, v)
         root == tarjan.low[v] = tarjan.index[v]
         out  == [tarjan EXCEPT !.frames = Tail(@),
                    !.stack = IF root THEN SubSeq(@, Len(comp) + 1, Len(@)) ELSE @]
     IN  /\ tarjan' = IF out.frames = <<>> THEN out ELSE Lower(out, v, tarjan.low[v])
         /\ cycles' = IF root /\ Len(comp) > 1 THEN cycles \cup {ToSet(comp)} ELSE cycles
  /\ UNCHANGED <<graph, stage, confirmed, walk, routes, landing>>

-----------------------------------------------------------------------------
\* One turn of the loop that confirms edges.
Confirm ==
  /\ stage = "confirm"
  /\ IF Additions(graph, confirmed) = {}
     THEN stage' = "routes" /\ UNCHANGED confirmed
     ELSE confirmed' = confirmed \cup Additions(graph, confirmed) /\ UNCHANGED stage
  /\ UNCHANGED <<graph, tarjan, cycles, walk, routes, landing>>

-----------------------------------------------------------------------------
(***************************************************************************)
(* Routes.                                                                 *)
(***************************************************************************)
Consumers == {e.from : e \in FromScanned(graph)}

\* The next consumer, by name: its own references are routes, then they are
\* followed.
RoutesInto ==
  /\ stage = "routes" /\ walk.frames = <<>>
  /\ LET left == Consumers \ DOMAIN routes
         c    == Least(left)
         own  == {i \in DOMAIN graph.edges : graph.edges[i].from = c}
     IN  IF left = {}
         THEN stage' = "order" /\ UNCHANGED <<walk, routes>>
         ELSE /\ walk' = [consumer |-> c, frames |-> <<[via |-> <<>>, left |-> own]>>,
                          visited |-> {}]
              /\ routes' = With(routes, c, {DirectRoute(graph.edges[i]) : i \in own})
              /\ UNCHANGED stage
  /\ UNCHANGED <<graph, tarjan, cycles, confirmed, landing>>

\* One call of `follow`: the references of the file called are routes and are
\* followed next, unless that file was followed before.
Follow ==
  /\ stage = "routes" /\ walk.frames # <<>>
  /\ Head(walk.frames).left # {}
  /\ LET i     == Least(Head(walk.frames).left)
         call  == graph.edges[i]
         via   == Append(Head(walk.frames).via, call.to)
         key   == <<call.to, call.call>>
         inner == {j \in DOMAIN graph.edges : Carries(call, graph.edges[j])}
         past  == <<[Head(walk.frames) EXCEPT !.left = @ \ {i}]>> \o Tail(walk.frames)
     IN  IF call.call = NoFile \/ IsSelf(call) \/ key \in walk.visited
         THEN walk' = [walk EXCEPT !.frames = past] /\ UNCHANGED routes
         ELSE /\ walk' = [walk EXCEPT !.frames = <<[via |-> via, left |-> inner]>> \o past,
                                      !.visited = @ \cup {key}]
              /\ routes' = [routes EXCEPT ![walk.consumer] =
                   @ \cup {CarriedRoute(graph, call, via, graph.edges[j]) : j \in inner}]
  /\ UNCHANGED <<graph, stage, tarjan, cycles, confirmed, landing>>

\* The references of a file are done with.
FollowReturns ==
  /\ stage = "routes" /\ walk.frames # <<>>
  /\ Head(walk.frames).left = {}
  /\ walk' = [walk EXCEPT !.frames = Tail(@)]
  /\ UNCHANGED <<graph, stage, tarjan, cycles, confirmed, routes, landing>>

\* One consumer, one upstream, several pins, at least one through another
\* repository; the old and the new name of an upstream are one.
Diamonds ==
  LET into(c, t) == {r \in routes[c] : CanonicalOf(graph, r.target) = t}
      split(R) == (\E r, q \in R : r.pin # q.pin) /\ (\E r \in R : r.via # <<>>)
      targets == {CanonicalOf(graph, e.to) : e \in EdgesOf(graph)}
  IN  {[consumer |-> p[1], target |-> p[2], routes |-> into(p[1], p[2])] :
         p \in {q \in Consumers \X targets : q[1] # q[2] /\ split(into(q[1], q[2]))}}

-----------------------------------------------------------------------------
(***************************************************************************)
(* Landing order and longest chain.  The order is kept as its rounds; the  *)
(* repositories of a round follow one another by name.                     *)
(***************************************************************************)
Landed == UNION ToSet(order)

\* Repositories whose upstreams have all landed.
Ready(landed) ==
  {r \in Nodes(graph) : r \notin landed /\ UpstreamsOf(r) \subseteq landed}

\* One round: all that are ready land; if none is, there is no order.
Land ==
  /\ stage = "order"
  /\ IF Landed = Nodes(graph)
     THEN stage' = "weigh" /\ UNCHANGED <<order, stuck>>
     ELSE IF Ready(Landed) = {}
     THEN stuck' = TRUE /\ stage' = "done" /\ UNCHANGED order
     ELSE order' = Append(order, Ready(Landed)) /\ UNCHANGED <<stage, stuck>>
  /\ UNCHANGED <<graph, tarjan, cycles, confirmed, walk, routes, best, chain>>

\* Of a set of repositories, those whose chains are the heaviest.
Top(set) == {r \in set : \A q \in set : best[q].weight <= best[r].weight}

\* The heaviest chain that ends at r, each repository of weight 1: the first of
\* the upstreams, by name, with the heaviest chain comes before it.
Heaviest(r) ==
  LET ups == UpstreamsOf(r) \cap DOMAIN best
      u   == Least(Top(ups))
  IN  IF ups = {} THEN [weight |-> 1, before |-> <<>>]
      ELSE [weight |-> best[u].weight + 1, before |-> <<u>>]

\* The next round of the order.
Weigh ==
  /\ stage = "weigh"
  /\ LET rounds == {i \in DOMAIN order : ~(order[i] \subseteq DOMAIN best)}
         next   == order[Least(rounds)]
     IN  IF rounds = {} THEN stage' = "chain" /\ UNCHANGED best
         ELSE /\ best' = [r \in DOMAIN best \cup next |->
                            IF r \in DOMAIN best THEN best[r] ELSE Heaviest(r)]
              /\ UNCHANGED stage
  /\ UNCHANGED <<graph, tarjan, cycles, confirmed, walk, routes, order, stuck, chain>>

\* The longest chain is followed backwards from its end, the first by name.
Trace ==
  /\ stage = "chain"
  /\ IF DOMAIN best = {} THEN stage' = "done" /\ UNCHANGED chain
     ELSE IF chain = <<>> THEN chain' = <<Least(Top(DOMAIN best))>> /\ UNCHANGED stage
     ELSE IF best[chain[1]].before = <<>> THEN stage' = "done" /\ UNCHANGED chain
     ELSE chain' = best[chain[1]].before \o chain /\ UNCHANGED stage
  /\ UNCHANGED <<graph, tarjan, cycles, confirmed, walk, routes, order, stuck, best>>

Analyse ==
  \/ Root \/ FollowEdge \/ Return \/ Confirm \/ RoutesInto \/ Follow \/ FollowReturns
  \/ Land \/ Weigh \/ Trace

-----------------------------------------------------------------------------
(***************************************************************************)
(* What the results mean.                                                  *)
(***************************************************************************)
\* What can be reached from a start by steps, which are pairs: the least set that
\* has the start and that no step leaves.
Reached(start, steps, among) ==
  LET closed == {S \in SUBSET among :
                   start \subseteq S /\ \A p \in steps : p[1] \in S => p[2] \in S}
  IN  {x \in among : \A S \in closed : x \in S}

\* Repositories upstream of r, over any number of steps.
AllUpstreams(r) == Reached(UpstreamsOf(r), RepoEdges(graph), Nodes(graph))

\* The repositories that are upstream of r and downstream of it.
Component(r) == {q \in AllUpstreams(r) : r \in AllUpstreams(q)}

\* Cycles are the largest sets of repositories that are all upstream of one another.
CyclesAreComponents == cycles = {Component(r) : r \in Nodes(graph)} \ {{}}

\* Every repository lands once, in a later round than all its upstreams.
LandsUpstreamsFirst ==
  \A i \in DOMAIN order : \A r \in order[i] :
    /\ \A j \in 1..(i - 1) : r \notin order[j]
    /\ \A u \in UpstreamsOf(r) : \E j \in 1..(i - 1) : u \in order[j]

\* A landing order is missing only if a set of repositories wait for one another.
StuckWaitsInCircle ==
  stuck => \E S \in SUBSET Nodes(graph) :
             S # {} /\ \A r \in S : UpstreamsOf(r) \cap S # {}

\* The order has all repositories, and there is one if and only if no cycle was
\* found.
OrderIsComplete ==
  /\ stuck <=> cycles # {}
  /\ ~stuck => Landed = Nodes(graph)

\* The chain is one of the graph, and nothing is upstream of it that would make
\* it longer: no chain has more repositories.
IsChain(s) == \A i \in 1..(Len(s) - 1) : s[i] \in UpstreamsOf(s[i + 1])

ChainIsLongest ==
  ~stuck =>
    /\ IsChain(chain)
    /\ \A s \in [1..(Len(chain) + 1) -> Nodes(graph)] : ~IsChain(s)

\* An edge is confirmed exactly if a path of calls at exact pins leads to it
\* from a requested repository.
ConfirmedAreReached ==
  LET read  == FromScanned(graph)
      start == {e \in read : e.from \in graph.subjects}
      led   == {p \in read \X read : Carries(p[1], p[2]) /\ PinnedRevision(graph, p[1])}
  IN  confirmed = Reached(start, led, read)

\* The edges that a path of calls leads to from a consumer's own.
CalledBy(c) ==
  LET own   == {e \in EdgesOf(graph) : e.from = c}
      calls == {p \in EdgesOf(graph) \X EdgesOf(graph) : ~IsSelf(p[1]) /\ Carries(p[1], p[2])}
  IN  Reached(own, calls, EdgesOf(graph))

\* The routes into a repository reach every pin that a path of calls reaches,
\* though each file is followed once.
RoutesReachEveryPin ==
  \A c \in Consumers :
    {<<r.target, r.pin>> : r \in routes[c]} = {<<e.to, e.pin>> : e \in CalledBy(c)}

\* Two pins by which a consumer pulls in one upstream, at least one through
\* another repository, make a diamond; each diamond is a pin skew as well.
DiamondsAreFound ==
  /\ \A d \in Diamonds : d.target \in PinSkews(graph)
  /\ \A c \in Consumers : \A r, q \in routes[c] :
       LET t == CanonicalOf(graph, r.target) IN
       CanonicalOf(graph, q.target) = t /\ t # c /\ r.pin # q.pin /\ r.via # <<>> =>
         \E d \in Diamonds : d.consumer = c /\ d.target = t

\* No repository is blamed on hearsay: what was only referenced is neither dead
\* nor the consumer of a finding.
NobodyOnHearsay ==
  Frontier(graph) \cap
    (DeadUpstreams(graph) \cup MutablePins(graph) \cup {d.consumer : d \in Diamonds}
       \cup {e.from : e \in UNION {m.consumers : m \in MovedUpstreams(graph, confirmed)}}) = {}

\* What `analyse` reports is what the graph says, however the search went:
\* cycles, order, longest chain, confirmed edges, routes and diamonds.
AnalysisExact ==
  stage = "done" =>
    /\ CyclesAreComponents
    /\ OrderIsComplete
    /\ LandsUpstreamsFirst
    /\ ChainIsLongest
    /\ ConfirmedAreReached
    /\ RoutesReachEveryPin
    /\ DiamondsAreFound
    /\ NobodyOnHearsay
=============================================================================
