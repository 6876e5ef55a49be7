------------------------------- MODULE MCChains -------------------------------
\* Instances of Chains for TLC.
EXTENDS Chains

Owners == [n \in 1..4 |-> IF n = 3 THEN "far" ELSE "near"]

Sha(k) == [sha |-> TRUE, ref |-> k]
Tag    == [sha |-> FALSE, ref |-> 1]

Calls(n, f, pin) == [to |-> n, call |-> f, pin |-> pin]
Uses(n, pin)     == Calls(n, NoFile, pin)

AtRev(k, files) == [rev |-> k, files |-> files @@ NoFiles]

NoScenario ==
  [locals |-> <<>>, remote |-> <<>>, follow |-> 0, canonical |-> FALSE,
   home |-> [n \in 1..4 |-> n], hidden |-> {}, accounts |-> {"near", "far"},
   tree |-> [n \in 1..4 |-> AtRev(1, <<>>)], faults |-> 0, changes |-> 0]

\* Checkouts of every graph on the repositories, an action per edge.
Graphs(repos) ==
  {[NoScenario EXCEPT
      !.locals = [n \in repos |->
         [repo |-> n,
          tree |-> AtRev(1, 1 :> [i \in 1..Cardinality(g[n]) |->
                      Uses(SetToSortSeq(g[n], <)[i], Sha(1))])]]] :
     g \in {h \in [repos -> SUBSET repos] : \A n \in repos : n \notin h[n]}}

\* A consumer, and upstreams that call one another.
ConsumerFiles ==
  {1 :> <<Calls(2, 1, Sha(1)), Uses(3, Tag)>>,
   1 :> <<Calls(2, 1, Sha(1)), Calls(2, 2, Sha(2))>>,
   1 :> <<Calls(2, 1, Sha(2))>>}

Upstreams ==
  {1 :> <<Calls(3, 1, Sha(1))>> @@ 2 :> <<Uses(3, Tag)>>,
   1 :> <<Calls(2, 2, Tag), Calls(3, 2, Sha(1))>> @@ 2 :> <<Calls(3, 1, Tag)>>}

Third == 1 :> <<Uses(2, Sha(1))>> @@ 2 :> <<Uses(4, Sha(1))>>

\* The third repository as it is, moved to the fourth name, hidden, or gone
\* with or without its owner.
Fates(s) ==
  LET free == [s EXCEPT !.home[4] = 0] IN
  {free, s,
   [s EXCEPT !.home[3] = 4],
   [free EXCEPT !.hidden = {3}],
   [free EXCEPT !.home[3] = 0],
   [free EXCEPT !.home[3] = 0, !.accounts = {"near"}]}

\* Followed through GitHub, from a checkout or from GitHub.
Followed ==
  UNION {Fates([NoScenario EXCEPT
       !.locals = IF local THEN <<[repo |-> 1, tree |-> AtRev(1, c)]>> ELSE <<>>,
       !.remote = IF local THEN <<>> ELSE <<1>>,
       !.follow = f, !.canonical = names, !.changes = 1, !.faults = 2,
       !.tree = [n \in 1..4 |-> AtRev(1, IF n = 1 THEN c ELSE IF n = 2 THEN u ELSE Third)]]) :
     c \in ConsumerFiles, u \in Upstreams, local \in BOOLEAN, f \in {0, 2}, names \in {TRUE}}

Unchecked == {[s EXCEPT !.canonical = FALSE, !.changes = 0] : s \in Followed}

Pushed == {(1 :> <<Uses(4, Tag)>>) @@ NoFiles}

\* Two changes of GitHub between the reads, and a failed call.
Restless ==
  {[s EXCEPT !.changes = 2, !.faults = 1] :
     s \in {f \in Followed :
             /\ f.follow = 2 /\ f.locals # <<>> /\ f.tree[2].files[1] = <<Calls(3, 1, Sha(1))>>
             /\ f.tree[1].files[1] = <<Calls(2, 1, Sha(1)), Uses(3, Tag)>>}}

SmallScenarios == Graphs(1..4) \cup Followed \cup Unchecked \cup Restless
=============================================================================
