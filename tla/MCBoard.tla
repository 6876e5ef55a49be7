------------------------------- MODULE MCBoard -------------------------------
\* Instances of Board for TLC.
EXTENDS Board, TLC

TwoOwners == <<{1, 2}, {3}>>
AllOrLess == {{2, 3}, {1, 2, 3}}
Checks    == {"build"}

Ready1 ==
  [draft |-> FALSE, mergeable |-> "Mergeable", state |-> "BLOCKED",
   review |-> "none", armed |-> TRUE, red |-> FALSE, old |-> FALSE]
Red1 == [Ready1 EXCEPT !.red = TRUE]
Some == {Ready1, Red1}

Gated   == [rules |-> {"build"}, classic |-> {"build"}, approvals |-> 1]
Ungated == [rules |-> {}, classic |-> {}, approvals |-> 0]
Both    == {Gated, Ungated}
OneUngated == {[r \in 1..3 |-> IF r = 3 THEN Ungated ELSE Gated]}

\* Two pull requests of the second repository, more than a page.
Start ==
  {[r \in 1..3 |-> IF r = 2 THEN 1 :> Ready1 @@ 2 :> Red1 ELSE 1 :> Ready1]}
=============================================================================
